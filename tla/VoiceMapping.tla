------------------------------ MODULE VoiceMapping ------------------------------
(***************************************************************************)
(* What the voice assistants make of a product's capabilities: the two     *)
(* mappers and the conversions of colours and of colour temperatures.      *)
(*                                                                         *)
(* The state of a device is a function from data points to values:         *)
(* booleans, whole numbers, colours <<r, g, b>>, modes; a temperature is   *)
(* counted in eighteenths of a degree Celsius, of which half a degree      *)
(* Celsius has 9 and a degree Fahrenheit 10.  A data point whose value is  *)
(* not of its kind's type is passed over like one that is absent.          *)
(***************************************************************************)
EXTENDS Products, TLC

Nothing == <<>>   \* no data points

Channels == 0..255
Spectrum == {n \in Nat : n < 256 * 256 * 256}   \* of 24 bits

\* The values that a data point of a kind may have, on the scales of capability.go; the
\* other kinds are not for settings.
Values ==
  [power |-> BOOLEAN, lock |-> BOOLEAN, brightness |-> Int, fan_speed |-> Int,
   target_temp |-> Int, thermo_mode |-> STRING, color |-> Channels \X Channels \X Channels,
   color_temp |-> 0..100]

\* int(math.Round(n / d)), for n >= 0.
Rounded(n, d) == (2 * n + d) \div (2 * d)

-----------------------------------------------------------------------------
(* Colours.  A hue is n/d sixths of a circle, a saturation n/d, and a       *)
(* brightness n/255, so that every value is exact.                         *)

IsColour(hsb) ==
  /\ hsb.hue[1] \in Nat /\ hsb.hue[2] \in Nat \ {0} /\ hsb.hue[1] <= 6 * hsb.hue[2]
  /\ hsb.saturation[2] \in Nat \ {0} /\ hsb.saturation[1] \in 0..hsb.saturation[2]
  /\ hsb.brightness \in Channels

RGBToHSB(rgb) ==
  LET r == rgb[1]  g == rgb[2]  b == rgb[3]
      top   == CHOOSE x \in {r, g, b} : \A y \in {r, g, b} : y <= x
      low   == CHOOSE x \in {r, g, b} : \A y \in {r, g, b} : x <= y
      delta == top - low
      hue   == IF delta = 0 THEN 0
               ELSE IF top = r THEN g - b
               ELSE IF top = g THEN b - r + 2 * delta
               ELSE r - g + 4 * delta
  IN  [hue |-> IF delta = 0 THEN <<0, 1>>
               ELSE <<IF hue < 0 THEN hue + 6 * delta ELSE hue, delta>>,
       saturation |-> IF top = 0 THEN <<0, 1>> ELSE <<delta, top>>,
       brightness |-> top]

HSBToRGB(hsb) ==
  LET h == hsb.hue[1]  d == hsb.hue[2]
      sn == hsb.saturation[1]  sd == hsb.saturation[2]
      v  == hsb.brightness
      turn == h % (2 * d)
      fold == IF turn >= d THEN turn - d ELSE d - turn
      \* In units of 1 / (255 * sd * d):
      c == v * sn * d
      x == v * sn * (d - fold)
      m == v * (sd - sn) * d
      out(n) == Rounded(n + m, sd * d)
      sector == h \div d
  IN  IF sector < 1 THEN <<out(c), out(x), out(0)>>
      ELSE IF sector < 2 THEN <<out(x), out(c), out(0)>>
      ELSE IF sector < 3 THEN <<out(0), out(c), out(x)>>
      ELSE IF sector < 4 THEN <<out(0), out(x), out(c)>>
      ELSE IF sector < 5 THEN <<out(x), out(0), out(c)>>
      ELSE <<out(c), out(0), out(x)>>

ColorTempToKelvin(v) == 2700 + 38 * v

\* Fault: the range of a lamp that goes down to 2200 K.
KelvinFrom2200(k) ==
  IF k < 2200 THEN 0 ELSE IF k > 6500 THEN 100 ELSE Rounded(k - 2200, 43)

\* Halves that the quotient, a float64, falls short of.
ShortHalves == {3251, 3783, 4847, 4885}

KelvinToColorTemp(k) ==
  IF k < 2700 THEN 0 ELSE IF k > 6500 THEN 100
  ELSE Rounded(k - 2700, 38) - Cardinality({k} \cap ShortHalves)

-----------------------------------------------------------------------------
(* What both mappers do.                                                   *)

\* kindDP: where two data points have the same kind, the later one is meant.
KindDP(kind, caps) ==
  {caps[i].dp : i \in {i \in DOMAIN caps :
     caps[i].kind = kind /\ \A j \in DOMAIN caps : caps[j].kind = kind => j <= i}}

Set(kind, caps, value) ==
  IF KindDP(kind, caps) = {} THEN Nothing ELSE [dp \in KindDP(kind, caps) |-> value]

\* The state g with what f sets put over it, and with the changes of a list, of which
\* the later ones count.
Over(f, g) == [x \in DOMAIN f \cup DOMAIN g |-> IF x \in DOMAIN f THEN f[x] ELSE g[x]]

Merged(changes, g) ==
  LET last(x) == {i \in DOMAIN changes :
                    /\ x \in DOMAIN changes[i]
                    /\ \A j \in DOMAIN changes : x \in DOMAIN changes[j] => j <= i}
  IN  [x \in DOMAIN g \cup UNION {DOMAIN changes[i] : i \in DOMAIN changes} |->
         IF last(x) = {} THEN g[x] ELSE changes[CHOOSE i \in last(x) : TRUE][x]]

\* The capabilities whose data point the device has reported.
Reported(caps, dps) == {i \in DOMAIN caps : caps[i].dp \in DOMAIN dps}

-----------------------------------------------------------------------------
(* Alexa.                                                                  *)

\* A thermostat mode and a temperature have no interface of their own.
Interfaces ==
  [power |-> {"PowerController"}, brightness |-> {"BrightnessController"},
   color |-> {"ColorController"}, color_temp |-> {"ColorTemperatureController"},
   target_temp |-> {"ThermostatController", "TemperatureSensor"}, thermo_mode |-> {},
   fan_speed |-> {"RangeController"}, lock |-> {"LockController"},
   contact |-> {"ContactSensor"}, motion |-> {"MotionSensor"},
   humidity |-> {"RangeController"}, temperature |-> {}, none |-> {}]

\* Those that take directives.
Controllers ==
  {"PowerController", "BrightnessController", "ColorController", "ColorTemperatureController",
   "ThermostatController", "RangeController", "LockController"}

\* The list of a product's capabilities; a kind that none of the cases names is none.
IsList(s) == Len(s) \in Nat /\ s = [i \in 1..Len(s) |-> s[i]]
Described(caps) == IsList(caps) /\ Kinds(caps) \subseteq DOMAIN Interfaces

CapabilitiesToAlexa(caps) ==
  {"EndpointHealth"} \cup UNION {Interfaces[k] : k \in Kinds(caps)}

FanSpeedCapability(c) == Or(c.min, 1)..Or(c.max, 5)

\* DPSToProperties: a set of properties, with what a contact, motion, humidity or
\* temperature data point says left out.
AlexaProperties(kind, v) ==
  CASE kind = "power" -> {<<"powerState", IF v THEN "ON" ELSE "OFF">>}
    [] kind = "brightness" -> {<<"brightness", v>>}
    [] kind = "color" -> {<<"color", RGBToHSB(v)>>}
    [] kind = "color_temp" -> {<<"colorTemperatureInKelvin", ColorTempToKelvin(v)>>}
    [] kind = "target_temp" -> {<<"targetSetpoint", v>>, <<"temperature", v>>}
    [] kind = "fan_speed" -> {<<"rangeValue", v>>}
    [] kind = "lock" -> {<<"lockState", IF v THEN "LOCKED" ELSE "UNLOCKED">>}
    [] OTHER -> {}

DPSToProperties(caps, dps) ==
  UNION {AlexaProperties(caps[i].kind, dps[caps[i].dp]) : i \in Reported(caps, dps)}

\* Directives that carry no value, or a difference in a field of another name: the
\* field that DirectiveToDPS decodes is absent and left at zero.
Valueless == {"AdjustBrightness", "AdjustRangeValue", "AdjustTargetTemperature",
              "SetThermostatMode", "IncreaseColorTemperature", "DecreaseColorTemperature"}

Celsius(t) == IF t[1] = "FAHRENHEIT" THEN (t[2] - 32) * 10 ELSE t[2]

\* The kind that the directives of an interface are for.
AlexaTarget(interface) ==
  CASE interface = "PowerController" -> "power"
    [] interface = "BrightnessController" -> "brightness"
    [] interface = "ColorController" -> "color"
    [] interface = "ColorTemperatureController" -> "color_temp"
    [] interface = "ThermostatController" -> "target_temp"
    [] interface = "RangeController" -> "fan_speed"
    [] interface = "LockController" -> "lock"
    [] OTHER -> NoKind

\* A directive [interface, name, value].
DirectiveToDPS(dir, caps) ==
  LET kind  == AlexaTarget(dir.interface)
      given == dir.name \notin Valueless
  IN  CASE kind = "power" -> Set(kind, caps, dir.name = "TurnOn")
        [] kind = "lock" -> Set(kind, caps, dir.name = "Lock")
        [] kind = "color" -> Set(kind, caps, HSBToRGB(dir.value))
        [] kind = "color_temp" -> Set(kind, caps, KelvinToColorTemp(IF given THEN dir.value ELSE 0))
        [] kind = "target_temp" -> Set(kind, caps, IF given THEN Celsius(dir.value) ELSE 0)
        [] kind \in {"brightness", "fan_speed"} -> Set(kind, caps, IF given THEN dir.value ELSE 0)
        [] OTHER -> Nothing

-----------------------------------------------------------------------------
(* Google.                                                                 *)

Traits ==
  [power |-> "OnOff", brightness |-> "Brightness", color |-> "ColorSetting",
   color_temp |-> "ColorSetting", target_temp |-> "TemperatureSetting",
   thermo_mode |-> "TemperatureSetting", fan_speed |-> "FanSpeed", lock |-> "LockUnlock",
   contact |-> "OpenClose", motion |-> "SensorState", humidity |-> "HumiditySetting",
   temperature |-> "TemperatureControl"]

TraitsForCaps(caps) == {Traits[k] : k \in Kinds(caps) \ {NoKind}}

\* The ranges and modes of the traits; a later capability of a kind replaces an
\* earlier one's.
AttributesForCaps(caps) ==
  LET last(kind) == {caps[i] : i \in {i \in DOMAIN caps :
                       caps[i].kind = kind /\ caps[i].dp \in KindDP(kind, caps)}}
  IN  [setpoints |-> {<<Or(c.min, 16), Or(c.max, 30)>> : c \in last("target_temp")},
       modes  |-> {m \in {"off", "heat", "cool", "auto"} : last("target_temp") # {}},
       speeds |-> UNION {Or(c.min, 1)..Or(c.max, 5) : c \in last("fan_speed")},
       model  |-> {m \in {"rgb"} : last("color") # {}},
       kelvin |-> {t \in {<<2700, 6500>>} : last("color_temp") # {}}]

\* DPSToState: the fields of a state; a colour and its temperature share one, which
\* then is the later's.
Field(name, v) == [x \in {name} |-> v]

GoogleField(kind, v) ==
  CASE kind = "power" -> Field("on", v)
    [] kind = "brightness" -> Field("brightness", v)
    [] kind = "color" -> Field("color", <<"spectrumRgb", 65536 * v[1] + 256 * v[2] + v[3]>>)
    [] kind = "color_temp" -> Field("color", <<"temperatureK", ColorTempToKelvin(v)>>)
    [] kind = "target_temp" -> Field("thermostatTemperatureSetpoint", v)
    [] kind = "thermo_mode" -> Field("thermostatMode", v)
    [] kind = "fan_speed" -> Field("currentFanSpeedSetting", v)
    [] kind = "lock" -> Field("isLocked", v)
    [] kind = "humidity" -> Field("humidityAmbientPercent", v)
    [] kind = "temperature" -> Field("temperatureAmbientCelsius", v)
    [] OTHER -> Nothing

DPSToState(caps, dps) ==
  Merged([i \in DOMAIN caps |-> IF i \in Reported(caps, dps)
                                THEN GoogleField(caps[i].kind, dps[caps[i].dp]) ELSE Nothing],
         Nothing)

\* The kind that a command [name, value] is for.
GoogleTarget(cmd) ==
  CASE cmd.name = "OnOff" -> "power"
    [] cmd.name = "BrightnessAbsolute" -> "brightness"
    [] cmd.name = "ColorAbsolute" -> IF cmd.value[1] = "spectrumRGB" THEN "color" ELSE "color_temp"
    [] cmd.name = "ThermostatTemperatureSetpoint" -> "target_temp"
    [] cmd.name = "ThermostatSetMode" -> "thermo_mode"
    [] cmd.name = "SetFanSpeed" -> "fan_speed"
    [] cmd.name = "LockUnlock" -> "lock"

\* A command for a kind the product lacks sets nothing.
ExecuteCommandToDPS(cmd, caps) ==
  LET kind == GoogleTarget(cmd)
  IN  Set(kind, caps,
          CASE kind = "color" ->
                 LET n == cmd.value[2] IN <<n \div 65536, (n \div 256) % 256, n % 256>>
            [] kind = "color_temp" -> KelvinToColorTemp(cmd.value[2])
            [] OTHER -> cmd.value)

-----------------------------------------------------------------------------

\* What the assistants would wish for if they wished for what they show.
Again(a, name, v) ==
  CASE a = "alexa" /\ name = "powerState" ->
         {[interface |-> "PowerController", name |-> IF v = "ON" THEN "TurnOn" ELSE "TurnOff"]}
    [] a = "alexa" /\ name = "lockState" ->
         {[interface |-> "LockController", name |-> IF v = "LOCKED" THEN "Lock" ELSE "Unlock"]}
    [] a = "alexa" /\ name = "brightness" ->
         {[interface |-> "BrightnessController", name |-> "SetBrightness", value |-> v]}
    [] a = "alexa" /\ name = "color" ->
         {[interface |-> "ColorController", name |-> "SetColor", value |-> v]}
    [] a = "alexa" /\ name = "colorTemperatureInKelvin" ->
         {[interface |-> "ColorTemperatureController", name |-> "SetColorTemperature", value |-> v]}
    [] a = "alexa" /\ name = "targetSetpoint" ->
         {[interface |-> "ThermostatController", name |-> "SetTargetTemperature",
           value |-> <<"CELSIUS", v>>]}
    [] a = "alexa" /\ name = "rangeValue" ->
         {[interface |-> "RangeController", name |-> "SetRangeValue", value |-> v]}
    [] a = "google" /\ name = "on" -> {[name |-> "OnOff", value |-> v]}
    [] a = "google" /\ name = "brightness" -> {[name |-> "BrightnessAbsolute", value |-> v]}
    [] a = "google" /\ name = "color" ->
         {[name |-> "ColorAbsolute",
           value |-> <<IF v[1] = "spectrumRgb" THEN "spectrumRGB" ELSE "temperature", v[2]>>]}
    [] a = "google" /\ name = "thermostatTemperatureSetpoint" ->
         {[name |-> "ThermostatTemperatureSetpoint", value |-> v]}
    [] a = "google" /\ name = "thermostatMode" -> {[name |-> "ThermostatSetMode", value |-> v]}
    [] a = "google" /\ name = "currentFanSpeedSetting" -> {[name |-> "SetFanSpeed", value |-> v]}
    [] a = "google" /\ name = "isLocked" -> {[name |-> "LockUnlock", value |-> v]}
    [] OTHER -> {}

================================================================================
