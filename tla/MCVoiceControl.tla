------------------------------ MODULE MCVoiceControl ------------------------------
(* Instances of VoiceControl for TLC.                                        *)
EXTENDS VoiceControl

CONSTANTS r1, r2, d1, d2

Dir(interface, name, value) == [interface |-> interface, name |-> name, value |-> value]
Cmd(name, value) == [name |-> name, value |-> value]
Plan(a, ds, ws) == [by |-> a, devs |-> ds, wants |-> ws]

Product(dps, controls, config) ==
  [dps |-> dps, controls |-> controls, panel |-> {}, assistant |-> config]
DataPoint(dp, type, mode, code, min, max) ==
  [dp |-> dp, type |-> type, mode |-> mode, code |-> code, min |-> min, max |-> max, scale |-> 0]
Control(dp, kind, hidden) ==
  [dp |-> dp, kind |-> kind, min |-> {}, max |-> {}, hidden |-> hidden]

Both == {[enabled |-> TRUE, alexa |-> FALSE, google |-> FALSE]}

Base ==
  [pid |-> "sp1", appPid |-> "sp1", rows |-> Nothing, arts |-> {}, devices |-> {d1}, start |-> (1 :> FALSE),
   settable |-> {}, plans |-> {}, touches |-> 0, events |-> {}, told |-> TRUE,
   pushes |-> FALSE, faulty |-> FALSE]

\* A lamp in the hands of both assistants and of its owner.
Lamp ==
  [Base EXCEPT !.pid = "light_rgbcw", !.appPid = "light_rgbcw", !.start = (1 :> FALSE) @@ (2 :> 50) @@ (3 :> 0) @@ (5 :> <<255, 0, 0>>),
     !.settable = {<<2, 99>>}, !.touches = 1, !.pushes = TRUE,
     !.plans = {Plan("alexa", <<d1>>, <<>>),
                Plan("alexa", <<d1>>, <<Dir("BrightnessController", "AdjustBrightness", 10)>>),
                Plan("alexa", <<d1>>, <<Dir("ColorController", "SetColor",
                   [hue |-> <<11, 2>>, saturation |-> <<1, 2>>, brightness |-> 201])>>),
                Plan("google", <<d1>>, <<Cmd("OnOff", TRUE), Cmd("ColorAbsolute", <<"temperature", 4711>>)>>)},
     !.events = {"lose"}]

\* Two plugs switched at once, which go offline or are given away.
Plugs ==
  [Base EXCEPT !.devices = {d1, d2}, !.events = {"power", "owner"},
     !.plans = {Plan("google", <<d1, d2>>, <<Cmd("OnOff", TRUE)>>), Plan("google", <<d1, d2>>, <<>>)}]

\* The same while statements fail.
Shaky == [Plugs EXCEPT !.events = {}, !.faulty = TRUE]

\* A lamp that was adopted as another than it is, while statements fail; and one of which
\* changes are pushed.
Mistaken ==
  [Base EXCEPT !.pid = "light_rgbcw", !.appPid = "light1", !.start = (1 :> FALSE) @@ (2 :> 50), !.faulty = TRUE,
     !.plans = {Plan("alexa", <<d1>>, <<Dir("BrightnessController", "SetBrightness", 30)>>),
                Plan("google", <<d1>>, <<Cmd("OnOff", TRUE), Cmd("BrightnessAbsolute", 70)>>)}]

Pushed ==
  [Mistaken EXCEPT !.start = (2 :> 50), !.pushes = TRUE,
     !.plans = {Plan("google", <<d1>>, <<Cmd("BrightnessAbsolute", 70)>>)}]

\* A fan, whose product is released, released again and retired.
Fans ==
  LET points == <<DataPoint(1, "bool", "rw", {"switch", "fan_switch"}, {}, {}),
                  DataPoint(7, "value", "ro", {"humidity"}, {0}, {100})>>
      fan    == <<DataPoint(4, "enum", "rw", {"fan_speed"}, {}, {})>>
  IN  [Base EXCEPT !.pid = "fan2", !.appPid = "fan2", !.start = (1 :> FALSE) @@ (4 :> 2) @@ (7 :> 40),
         !.arts = {Product(points \o fan, <<Control(4, "fan_speed", FALSE)>>, Both),
                   Product(points \o fan, <<Control(4, "fan_speed", FALSE), Control(1, NoKind, TRUE)>>,
                           {[enabled |-> FALSE, alexa |-> TRUE, google |-> FALSE]})},
         !.told = FALSE,
         !.plans = {Plan("alexa", <<d1>>, <<Dir("RangeController", "SetRangeValue", 3)>>),
                    Plan("google", <<d1>>, <<Cmd("SetFanSpeed", 3), Cmd("OnOff", TRUE)>>)},
         !.events = {"release", "retire"}]

\* Every value of a kind, one at a time.
Channel == {0, 1, 2, 85, 127, 128, 254, 255}
Sweep ==
  [Base EXCEPT !.pid = "light_rgbcw", !.appPid = "light_rgbcw", !.start = (1 :> TRUE) @@ (2 :> 0) @@ (3 :> 0) @@ (5 :> <<0, 0, 0>>),
     !.settable = {<<1, FALSE>>} \cup ({2, 3} \X (0..100)) \cup ({5} \X (Channel \X Channel \X Channel)),
     !.touches = 1]

Thermostat ==
  [Base EXCEPT !.pid = "th1", !.appPid = "th1", !.start = (1 :> TRUE) @@ (2 :> 324), !.touches = 1,
     !.settable = {2} \X {9 * n : n \in 32..60},
     !.plans = {Plan("alexa", <<d1>>, <<Dir("ThermostatController", "SetTargetTemperature", <<"FAHRENHEIT", 71>>)>>),
                Plan("alexa", <<d1>>, <<Dir("ThermostatController", "SetThermostatMode", "HEAT")>>),
                Plan("google", <<d1>>, <<Cmd("ThermostatSetMode", "heat")>>)}]

Symmetry == Permutations(Requests)

Mixed == {Lamp, Plugs, Shaky, Mistaken, Pushed, Fans, Sweep, Thermostat}
================================================================================
