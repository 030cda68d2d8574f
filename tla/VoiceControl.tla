------------------------------ MODULE VoiceControl ------------------------------
(***************************************************************************)
(* The two voice assistants at work on the devices of a user who has       *)
(* linked both: they discover them, ask for their state, send directives   *)
(* and are pushed changes.  A request is a goroutine that, device after    *)
(* device, looks at the owner, at the presence and at the product, sends,  *)
(* reads the table and answers with what it has sent merged in.            *)
(*                                                                         *)
(* A directive of Alexa's is for one device and one wish; an EXECUTE of    *)
(* Google's is for several devices and may carry several.                  *)
(***************************************************************************)
EXTENDS VoiceMapping

CONSTANTS
  Requests,    \* the requests, one goroutine each
  Devices,     \* the user's devices, all of one product
  MaxTouches,  \* bound on changes made at the devices
  MaxVersions, \* bound on the versions of the product
  MaxMoves,    \* bound on the other events
  VoiceSettings \* what goes on, see VoiceAssumptions

Assistants == {"alexa", "google"}
Events     == {"release", "retire", "power", "owner", "lose"}
Versions   == 1..MaxVersions

\* pid, rows, arts: the id of the product in devices, what is released of it and what may
\* yet be.  appPid: its id in app_devices, which discovery goes by; where it is another, it is
\* that of a product of the static catalogue of which nothing is released.
\* devices: those there are.  start: their state at first.  settable: what they are set
\* to by hand, a set of <<data point, value>>.  plans: the requests [by, devs, wants]
\* that are made, a state report where nothing is wanted.  touches, moves: how much
\* happens.  told: the assistants have discovered the devices.  pushes: changes are
\* pushed.  events: what else happens.  faulty: any SELECT, the reading of the presence and
\* sending may fail.  Capabilities and wishes are lists, and Alexa's directives are for one
\* device and for what takes any.
ASSUME VoiceAssumptions ==
  \A s \in VoiceSettings :
    /\ s.start = [dp \in DOMAIN s.start |-> s.start[dp]]
    /\ \A v \in DOMAIN s.rows : s.rows[v] \in [art : s.arts, retired : BOOLEAN]
    /\ \A art \in s.arts : Described(AppCapabilities(art))
    /\ \A plan \in s.plans :
         /\ plan.by \in Assistants /\ IsList(plan.wants)
         /\ plan.devs \in Seq(s.devices) /\ plan.devs # <<>>
         /\ plan.by = "alexa" => Len(plan.devs) = 1
         /\ plan.by = "alexa" => \A i \in DOMAIN plan.wants : plan.wants[i].interface \in Controllers

\* What the devices are taken for, by the static catalogue and by what may be released.
Descriptions(s) ==
  {CapsForPID(s.pid), CapsForPID(s.appPid)} \cup {AppCapabilities(art) : art \in s.arts}

\* The values are of their kinds, whoever describes the data points.
OfKind(s, dps) ==
  \A caps \in Descriptions(s) : \A i \in DOMAIN caps :
    caps[i].dp \in DOMAIN dps /\ caps[i].kind \in DOMAIN Values =>
      dps[caps[i].dp] \in Values[caps[i].kind]

\* What a wish carries is a value of the type that is asked for; it need not be on any scale,
\* but a colour is one.
DirectiveMeant(wish) ==
  LET kind == AlexaTarget(wish.interface)
  IN  /\ kind = "color" => IsColour(wish.value)
      /\ wish.name \notin Valueless =>
           /\ kind \in {"brightness", "fan_speed", "color_temp"} => wish.value \in Int
           /\ kind = "target_temp" => wish.value[2] \in Int

CommandMeant(wish) ==
  LET kind == GoogleTarget(wish)
  IN  /\ kind = "color" => wish.value[2] \in Spectrum
      /\ kind = "color_temp" => wish.value[2] \in Int
      /\ kind \in DOMAIN Values \ {"color", "color_temp"} => wish.value \in Values[kind]

Meant(a, wish) == IF a = "alexa" THEN DirectiveMeant(wish) ELSE CommandMeant(wish)

\* A data point has one kind, whatever is released; what it holds at first, what it is set to by
\* hand and what is wished for is of it.  (A value of another type is passed over.)
ASSUME ValueAssumptions ==
  \A s \in VoiceSettings :
    /\ \A caps, other \in Descriptions(s) : \A i \in DOMAIN caps, j \in DOMAIN other :
         caps[i].dp = other[j].dp => caps[i].kind = other[j].kind
    /\ OfKind(s, s.start)
    /\ \A x \in s.settable : OfKind(s, [dp \in {x[1]} |-> x[2]])
    /\ \A plan \in s.plans : \A i \in DOMAIN plan.wants : Meant(plan.by, plan.wants[i])

VARIABLES
  house,
  rows,       \* released_products
  online,     \* the devices with a presence key
  mine,       \* the devices that are the user's
  reported,   \* shadows.reported_value of each device
  queue,      \* the commands each device has yet to carry out, [of, dps]
  discovered, \* the capabilities each assistant was last told of, none at first
  req,        \* each request: see Idle
  shown,      \* what each assistant shows of each device
  touches, moves,
  trusted,    \* assistants and devices whose last answer should hold (history)
  spoilt,     \* the devices that changed behind a request's back (history)
  refused     \* wishes for a discovered capability that were not sent (history)

worldVars == <<rows, online, mine, reported, queue>>
bounds    == <<touches, moves>>
voiceHistory == <<trusted, spoilt, refused>>
voiceVars == <<house, worldVars, discovered, req, shown, bounds, voiceHistory>>

\* by, wants: who wishes for what.  devs: the devices it has not been through.
\* pid: the product the first of them is taken for.
\* left: the wishes not sent to the first of them.  caps: the capabilities resolved.
\* states: what will be answered of the devices it has been through, and last the last.
Idle == [pc |-> "new", by |-> "alexa", wants |-> <<>>, devs |-> <<>>, pid |-> "",
         left |-> <<>>, caps |-> <<>>, states |-> Nothing, last |-> {}]

\* Whether a statement fails.
Failures == {FALSE, house.faulty}

Released(pid) == IF pid = house.pid THEN rows ELSE Nothing

CapsOf(pid, fails) == ResolveCapabilities(pid, Released(pid), ~ fails)

\* What the devices can do.
Caps == CapsOf(house.pid, FALSE)

VoiceInit ==
  /\ house \in VoiceSettings
  /\ rows = house.rows
  /\ online = house.devices /\ mine = house.devices
  /\ reported = [d \in house.devices |-> house.start]
  /\ queue = [d \in house.devices |-> <<>>]
  /\ discovered = [a \in Assistants |-> IF house.told THEN {CapsOf(house.appPid, FALSE)} ELSE {}]
  /\ req = [h \in Requests |-> Idle]
  /\ shown = [a \in Assistants |-> Nothing]
  /\ touches = 0 /\ moves = 0
  /\ trusted = {} /\ refused = {}
  /\ spoilt = [h \in Requests |-> {}]

Supported(pid, a, fails) == IsAssistantSupported(pid, Released(pid), a, ~ fails)

\* What reading the state of a device gives: a SELECT that fails gives nothing, one that breaks
\* off gives part of it, and neither is told from a state that is whole.
Readings(d) ==
  {Restrict(reported[d], dps) : dps \in IF house.faulty THEN SUBSET DOMAIN reported[d]
                                        ELSE {DOMAIN reported[d]}}

Render(a, caps, dps) ==
  IF a = "alexa" THEN DPSToProperties(caps, dps) ELSE DPSToState(caps, dps)

Translate(a, wish, caps) ==
  IF a = "alexa" THEN DirectiveToDPS(wish, caps) ELSE ExecuteCommandToDPS(wish, caps)

\* What an assistant's wishes set, one after the other.
Wished(a, wishes, caps) == [i \in DOMAIN wishes |-> Translate(a, wishes[i], caps)]

\* What was answered of these devices, or is about to be, need not hold any more.
Disturb(ds, own) ==
  /\ trusted' = trusted \ (Assistants \X ds)
  /\ spoilt' = [g \in Requests |->
                  IF g \in own \/ req[g].pc \in {"new", "done"} THEN spoilt[g] ELSE spoilt[g] \cup ds]

-----------------------------------------------------------------------------
(* Discovery.                                                              *)

\* Discover and SYNC: the devices of a product that is not enabled are left out, and all of them
\* when they cannot be listed.
Discover(a) ==
  /\ \E unlisted, unsure, static \in Failures :
       discovered' = [discovered EXCEPT ![a] =
         {caps \in {CapsOf(house.appPid, static)} : ~ unlisted /\ Supported(house.appPid, a, unsure)}]
  /\ UNCHANGED <<house, worldVars, req, shown, bounds, voiceHistory>>

\* Whether an assistant that has been told of caps may wish for this.
Offers(a, caps, wish) ==
  IF a = "alexa"
  THEN /\ wish.interface \in CapabilitiesToAlexa(caps)
       /\ wish.name = "SetRangeValue" =>
            \E c \in ToSet(caps) : c.kind = "fan_speed" /\ wish.value \in FanSpeedCapability(c)
  ELSE LET attributes == AttributesForCaps(caps)
       IN  CASE wish.name = "ColorAbsolute" /\ wish.value[1] = "spectrumRGB" ->
                  attributes.model # {}
             [] wish.name = "ColorAbsolute" /\ wish.value[1] = "temperature" ->
                  \E r \in attributes.kelvin : wish.value[2] \in r[1]..r[2]
             [] wish.name = "SetFanSpeed" -> wish.value \in attributes.speeds
             [] wish.name = "ThermostatSetMode" -> wish.value \in attributes.modes
             [] wish.name = "ThermostatTemperatureSetpoint" ->
                  \E r \in attributes.setpoints : wish.value \in 18 * r[1]..18 * r[2]
             [] wish.name = "OnOff" -> "OnOff" \in TraitsForCaps(caps)
             [] wish.name = "BrightnessAbsolute" -> "Brightness" \in TraitsForCaps(caps)
             [] wish.name = "LockUnlock" -> "LockUnlock" \in TraitsForCaps(caps)

-----------------------------------------------------------------------------
(* A request.                                                              *)

Device(h) == Head(req[h].devs)

Advance(h, step) == req' = [req EXCEPT ![h].pc = step]

\* On to the next device, or to the response.
Proceed(h, states) ==
  req' = [req EXCEPT ![h].devs = Tail(@), ![h].states = Over(states, @),
                     ![h].last = IF states = Nothing THEN @ ELSE {Device(h)},
                     ![h].pc = IF Len(req[h].devs) = 1 THEN "respond" ELSE "owner"]

Ask(h) ==
  /\ req[h].pc = "new"
  /\ \E plan \in house.plans :
       /\ discovered[plan.by] # {}
       /\ \A caps \in discovered[plan.by] : \A wish \in ToSet(plan.wants) :
            Offers(plan.by, caps, wish)
       /\ req' = [req EXCEPT ![h] = [Idle EXCEPT !.pc = "owner", !.by = plan.by,
                                                 !.wants = plan.wants, !.devs = plan.devs]]
  /\ UNCHANGED <<house, worldVars, discovered, shown, bounds, voiceHistory>>

\* A statement of the request about its device has failed.
Spoil(h, fails) == spoilt' = [spoilt EXCEPT ![h] = @ \cup {d \in {Device(h)} : fails}]

\* OwnsDeviceForAssistant; an error is Alexa's whole answer.  A SELECT of app_devices that fails is
\* one; when that of devices fails, the pid is that of app_devices.
OwnsDevice(h) ==
  /\ req[h].pc = "owner"
  /\ \/ /\ Device(h) \notin mine \/ house.faulty
        /\ Proceed(h, Nothing) /\ UNCHANGED spoilt
     \/ /\ Device(h) \in mine
        /\ \E fails, unsure \in Failures :
             LET pid == IF fails THEN house.appPid ELSE house.pid
             IN  /\ IF Supported(pid, req[h].by, unsure)
                    THEN req' = [req EXCEPT ![h].pc = "online", ![h].pid = pid]
                    ELSE Proceed(h, Nothing)
                 /\ Spoil(h, fails)
  /\ UNCHANGED <<house, worldVars, discovered, shown, bounds, trusted, refused>>

\* A presence that cannot be read is none.
IsOnline(h) ==
  /\ req[h].pc = "online"
  /\ \/ (Device(h) \notin online \/ house.faulty) /\ Proceed(h, Nothing)
     \/ /\ Device(h) \in online
        /\ Advance(h, IF req[h].wants = <<>> THEN "report" ELSE "resolve")
  /\ UNCHANGED <<house, worldVars, discovered, shown, bounds, voiceHistory>>

\* Fault: the capabilities of the static catalogue.
ResolveStatic(h) ==
  /\ req[h].pc = "resolve"
  /\ req' = [req EXCEPT ![h].pc = "send", ![h].caps = CapsForPID(req[h].pid),
                        ![h].left = req[h].wants]
  /\ UNCHANGED <<house, worldVars, discovered, shown, bounds, voiceHistory>>

\* ResolveCapabilities, for the product of the device.
Resolve(h) ==
  /\ req[h].pc = "resolve"
  /\ \E fails \in Failures :
       /\ req' = [req EXCEPT ![h].pc = "send", ![h].caps = CapsOf(req[h].pid, fails),
                             ![h].left = req[h].wants]
       /\ Spoil(h, fails)
  /\ UNCHANGED <<house, worldVars, discovered, shown, bounds, trusted, refused>>

\* The wish, which the assistant was told it may make, is for something the product of the device
\* has, as it had when the request began.
Promised(h, wish) ==
  /\ Device(h) \notin spoilt[h]
  /\ \E k \in Kinds(Caps) :
       IF req[h].by = "google" THEN k = GoogleTarget(wish)
       ELSE wish.interface \in Interfaces[k] /\ k # "humidity"

\* Google's next wish; to Alexa an error is the whole answer.
GiveUp(h) ==
  IF req[h].by = "alexa" THEN Proceed(h, Nothing) ELSE req' = [req EXCEPT ![h].left = Tail(@)]

\* A wish that means nothing for the product is passed over, and for Alexa INVALID_DIRECTIVE.
Skip(h) ==
  /\ req[h].pc = "send" /\ req[h].left # <<>>
  /\ LET wish == Head(req[h].left)
     IN  /\ Translate(req[h].by, wish, req[h].caps) = Nothing
         /\ refused' = refused \cup {w \in {wish} : Promised(h, wish)}
  /\ GiveUp(h)
  /\ UNCHANGED <<house, worldVars, discovered, shown, bounds, trusted, spoilt>>

\* SendCommand asks for the owner again, stores the command and publishes it.  When that of
\* devices is the SELECT that fails, it goes to a topic on which nobody may listen; when the
\* acknowledgement is lost, it is sent and yet an error.
SendCommand(h) ==
  /\ req[h].pc = "send" /\ req[h].left # <<>>
  /\ LET d    == Device(h)
         out  == Translate(req[h].by, Head(req[h].left), req[h].caps)
         next == req' = [req EXCEPT ![h].left = Tail(@)]
         sent == queue' = [queue EXCEPT ![d] = Append(@, [of |-> h, dps |-> out])]
     IN  /\ out # Nothing
         /\ \/ d \in mine /\ sent /\ Disturb({d}, {h}) /\ next
            \/ d \in mine /\ house.faulty /\ sent /\ Disturb({d}, {}) /\ GiveUp(h)
            \/ /\ \/ (d \notin mine \/ house.faulty) /\ GiveUp(h)
                  \/ d \in mine /\ house.faulty /\ next
               /\ Spoil(h, TRUE)
               /\ UNCHANGED <<queue, trusted>>
  /\ UNCHANGED <<house, rows, online, mine, reported, discovered, shown, bounds, refused>>

\* What other requests have on their way to the device is not in the table yet.
Notice(h, fails) ==
  Spoil(h, fails \/ \E c \in ToSet(queue[Device(h)]) : c.of # h)

\* Fault: the table is read back without the merge.
ReadBackOnly(h) ==
  /\ req[h].pc = "send" /\ req[h].left = <<>>
  /\ LET d == Device(h)
     IN  \E read \in Readings(d) :
           /\ Proceed(h, [x \in {d} |-> Render(req[h].by, req[h].caps, read)])
           /\ Notice(h, read # reported[d])
  /\ UNCHANGED <<house, worldVars, discovered, shown, bounds, trusted, refused>>

\* The optimistic answer: the table, and over it all that was wished for, sent or not.
Answer(h) ==
  /\ req[h].pc = "send" /\ req[h].left = <<>>
  /\ LET d == Device(h)
     IN  \E read \in Readings(d) :
           LET dps == Merged(Wished(req[h].by, req[h].wants, req[h].caps), read)
           IN  /\ Proceed(h, [x \in {d} |-> Render(req[h].by, req[h].caps, dps)])
               /\ Notice(h, read # reported[d])
  /\ UNCHANGED <<house, worldVars, discovered, shown, bounds, trusted, refused>>

\* ReportState and QUERY.
ReportState(h) ==
  /\ req[h].pc = "report"
  /\ LET d == Device(h)
     IN  \E read \in Readings(d), fails \in Failures :
           /\ Proceed(h, [x \in {d} |-> Render(req[h].by, CapsOf(req[h].pid, fails), read)])
           /\ Notice(h, fails \/ read # reported[d])
  /\ UNCHANGED <<house, worldVars, discovered, shown, bounds, trusted, refused>>

\* The response.  EXECUTE answers for all devices with the state of the last.
Respond(h) ==
  /\ req[h].pc = "respond"
  /\ Advance(h, "done")
  /\ LET r    == req[h]
         ds   == DOMAIN r.states
         same == r.by = "google" /\ r.wants # <<>>
         told == [d \in ds |-> IF same THEN r.states[CHOOSE e \in r.last : TRUE] ELSE r.states[d]]
     IN  /\ shown' = [shown EXCEPT ![r.by] = Over(told, @)]
         /\ trusted' = (trusted \ ({r.by} \X ds)) \cup
                       ({r.by} \X ((IF same THEN r.last ELSE ds) \ spoilt[h]))
  /\ spoilt' = [spoilt EXCEPT ![h] = {}]
  /\ UNCHANGED <<house, worldVars, discovered, bounds, refused>>

-----------------------------------------------------------------------------
(* The devices.                                                            *)

\* The device carries a command out and reports; offline it does not.
Apply(d) ==
  /\ d \in online /\ queue[d] # <<>>
  /\ reported' = [reported EXCEPT ![d] = Over(Head(queue[d]).dps, @)]
  /\ queue' = [queue EXCEPT ![d] = Tail(@)]
  /\ UNCHANGED <<house, rows, online, mine, discovered, req, shown, bounds, voiceHistory>>

\* Someone sets it by hand, or in the app.
Touch(d) ==
  /\ touches < house.touches /\ d \in online
  /\ touches' = touches + 1
  /\ \E x \in house.settable : reported' = [reported EXCEPT ![d] = Over([dp \in {x[1]} |-> x[2]], @)]
  /\ Disturb({d}, {})
  /\ UNCHANGED <<house, rows, online, mine, queue, discovered, req, shown, moves, refused>>

\* The proactive service: with the capabilities of the static catalogue, and not at all without
\* a state or, for Alexa, anything to show of it.
Push(a, d) ==
  /\ house.pushes /\ d \in mine
  /\ \E read \in Readings(d), fails, unsure \in Failures :
       LET pid  == IF fails THEN house.appPid ELSE house.pid
           told == Render(a, CapsForPID(pid), read)
       IN  /\ Supported(pid, a, unsure) /\ read # Nothing /\ (a = "alexa" => told # {})
           /\ shown' = [shown EXCEPT ![a] = Over([x \in {d} |-> told], @)]
           /\ trusted' = IF queue[d] = <<>> /\ rows = Nothing /\ ~ fails /\ read = reported[d]
                         THEN trusted \cup {<<a, d>>} ELSE trusted \ {<<a, d>>}
  /\ UNCHANGED <<house, worldVars, discovered, req, bounds, spoilt, refused>>

Move(event) ==
  /\ event \in house.events /\ moves < MaxMoves
  /\ moves' = moves + 1

\* A command never reaches the device.
Lose(d) ==
  /\ Move("lose") /\ queue[d] # <<>>
  /\ queue' = [queue EXCEPT ![d] = Tail(@)]
  /\ Disturb({d}, {})
  /\ UNCHANGED <<house, rows, online, mine, reported, discovered, req, shown, touches, refused>>

Power(d) ==
  /\ Move("power")
  /\ online' = IF d \in online THEN online \ {d} ELSE online \cup {d}
  /\ UNCHANGED <<house, rows, mine, reported, queue, discovered, req, shown, touches, voiceHistory>>

\* The user gives the device away.
GiveAway(d) ==
  /\ Move("owner") /\ d \in mine
  /\ mine' = mine \ {d}
  /\ UNCHANGED <<house, rows, online, reported, queue, discovered, req, shown, touches, voiceHistory>>

\* The developer portal pushes an artifact; the portals retire versions and take it back.
Release ==
  /\ Move("release")
  /\ \E v \in Versions, art \in house.arts : rows' = UpsertReleasedProduct(rows, v, art)
  /\ Disturb(house.devices, {})
  /\ UNCHANGED <<house, online, mine, reported, queue, discovered, req, shown, touches, refused>>

Retire ==
  /\ Move("retire")
  /\ \E vs \in {DOMAIN rows} \cup {{v} : v \in Versions}, retired \in BOOLEAN :
       rows' = RetireReleasedProduct(rows, vs, retired)
  /\ Disturb(house.devices, {})
  /\ UNCHANGED <<house, online, mine, reported, queue, discovered, req, shown, touches, refused>>

-----------------------------------------------------------------------------

VoiceNext ==
  \/ \E a \in Assistants :
       Discover(a) \/ \E d \in house.devices : Push(a, d)
  \/ \E h \in Requests :
       \/ Ask(h) \/ OwnsDevice(h) \/ IsOnline(h) \/ Resolve(h) \/ Skip(h) \/ SendCommand(h)
       \/ Answer(h) \/ ReportState(h) \/ Respond(h)
  \/ \E d \in house.devices : Apply(d) \/ Touch(d) \/ Lose(d) \/ Power(d) \/ GiveAway(d)
  \/ Release \/ Retire

VoiceSpec == VoiceInit /\ [][VoiceNext]_voiceVars

-----------------------------------------------------------------------------

\* What an assistant was told of a device, in an answer given before the device has done
\* anything or in a push, is what it would be told once the device has carried out its
\* commands, unless someone else has changed the device since the request began, a
\* command was lost, the product changed, or a statement of the request failed.
AnswerComesTrue ==
  \A x \in trusted :
    queue[x[2]] = <<>> => shown[x[1]][x[2]] = Render(x[1], Caps, reported[x[2]])

\* Wishing for what an assistant shows changes nothing: what DPSToProperties and
\* DPSToState make of a state, DirectiveToDPS and ExecuteCommandToDPS turn back into it,
\* through HSB, through Kelvin and through 24 bits, for a product that has one data
\* point of a kind, on the scales of capability.go.
ShownIsSettable ==
  \A d \in house.devices :
    LET dps == reported[d]
        same(out) == \A dp \in DOMAIN out : dp \in DOMAIN dps /\ out[dp] = dps[dp]
        alexa  == DPSToProperties(Caps, dps)
        google == DPSToState(Caps, dps)
    IN  Cardinality(Kinds(Caps)) = Len(Caps) =>
          /\ \A p \in alexa : \A wish \in Again("alexa", p[1], p[2]) :
               same(DirectiveToDPS(wish, Caps))
          /\ \A name \in DOMAIN google : \A wish \in Again("google", name, google[name]) :
               same(ExecuteCommandToDPS(wish, Caps))

\* No wish that what was discovered offers, for something that the product of the device has,
\* is refused or passed over, unless the product changed since the request began or one of
\* its SELECTs failed.
DiscoveredWorks == refused = {}

================================================================================
