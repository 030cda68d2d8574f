-------------------------------- MODULE Products --------------------------------
(***************************************************************************)
(* What a product can do: the projection of a released schema to           *)
(* capabilities (schema.go), the static catalogue beside it, and the       *)
(* resolution of a product id against the two (profiles.go).               *)
(*                                                                         *)
(* An optional number or configuration is a set of at most one.  The code  *)
(* of a data point stands for the set of the words the program looks for   *)
(* in it.  Types, labels, units, icons and groups are wording.              *)
(***************************************************************************)
EXTENDS Integers, Sequences, FiniteSets, SequencesExt

NoKind == "none"

Or(opt, default) == IF opt = {} THEN default ELSE CHOOSE x \in opt : TRUE

Kinds(caps) == {caps[i].kind : i \in DOMAIN caps}

-----------------------------------------------------------------------------
(* A data point [dp, type, mode, code, min, max, scale].                   *)

\* The words of a code, and two that stand for a condition on the mode.
Words(p) ==
  p.code \cup {w \in {"writable"} : p.mode \in {"rw", "wo"}}
         \cup {w \in {"rw temp"} : p.mode = "rw" /\ "temp" \in p.code}

\* capabilityFor: for each type the words it goes by, in the order of its cases.
Rules ==
  [bool  |-> << <<{"door", "contact"}, "contact">>,
                <<{"motion", "pir", "presence"}, "motion">>,
                <<{"lock"}, "lock">>,
                <<{"switch", "fan_switch", "power", "control", "writable"}, "power">> >>,
   value |-> << <<{"bright"}, "brightness">>,
                <<{"temp_value", "colour_temp", "color_temp", "cct"}, "color_temp">>,
                <<{"temp_set", "target_temp", "rw temp"}, "target_temp">>,
                <<{"humidity"}, "humidity">>,
                <<{"temperature", "temp_current"}, "temperature">> >>,
   str   |-> << <<{"colour", "color"}, "color">> >>,
   enum  |-> <<>>]

KindOf(p) ==
  LET hits == {i \in DOMAIN Rules[p.type] : Rules[p.type][i][1] \cap Words(p) # {}}
  IN  IF hits = {} THEN NoKind
      ELSE Rules[p.type][CHOOSE i \in hits : \A j \in hits : i <= j][2]

\* scaledRange: a bound in units, cut off toward zero.
Scaled(opt, scale) ==
  {IF x >= 0 THEN x \div (10 ^ scale) ELSE -((-x) \div (10 ^ scale)) : x \in opt}

CapabilityFor(p) ==
  LET ranged == KindOf(p) \in {"brightness", "color_temp", "target_temp"}
  IN  [dp |-> p.dp, kind |-> KindOf(p),
       min |-> IF ranged THEN Scaled(p.min, p.scale) ELSE {},
       max |-> IF ranged THEN Scaled(p.max, p.scale) ELSE {}]

-----------------------------------------------------------------------------
(* An artifact [dps, controls, panel, assistant]: data points, the controls *)
(* [dp, kind, min, max, hidden] of its panel, none where it has no panel,  *)
(* the assistant configuration of the panel and its own.                   *)

\* What a control leaves out is taken from its data point.
Filled(c, p) ==
  LET own == CapabilityFor(p)
  IN  [dp |-> c.dp, kind |-> IF c.kind = NoKind THEN own.kind ELSE c.kind,
       min |-> IF c.min = {} THEN own.min ELSE c.min,
       max |-> IF c.max = {} THEN own.max ELSE c.max]

\* First the controls that are shown and have a data point, then the data points
\* that no control names.
AppCapabilities(art) ==
  LET point(c) == {p \in ToSet(art.dps) : p.dp = c.dp}
      visible  == SelectSeq(art.controls, LAMBDA c : ~ c.hidden /\ point(c) # {})
      named    == {c.dp : c \in ToSet(art.controls)}
      others   == SelectSeq(art.dps, LAMBDA p : p.dp \notin named /\ KindOf(p) # NoKind)
  IN  [i \in DOMAIN visible |-> Filled(visible[i], CHOOSE p \in point(visible[i]) : TRUE)]
        \o [i \in DOMAIN others |-> CapabilityFor(others[i])]

\* Enabled for none means for both; enabled for one means enabled.
Normalize(cfg) ==
  LET both == cfg.enabled /\ ~ cfg.alexa /\ ~ cfg.google
  IN  [enabled |-> cfg.enabled \/ cfg.alexa \/ cfg.google,
       alexa |-> cfg.alexa \/ both, google |-> cfg.google \/ both]

AppAssistant(art) ==
  {Normalize(cfg) : cfg \in IF art.panel # {} THEN art.panel ELSE art.assistant}

-----------------------------------------------------------------------------
(* The static catalogue.                                                   *)

Point(dp, kind, min, max) == [dp |-> dp, kind |-> kind, min |-> min, max |-> max]
For(on) == [enabled |-> on, alexa |-> on, google |-> on]

ProductProfiles ==
  LET power == Point(1, "power", {}, {})
  IN  [light_rgbcw |-> [assistant |-> For(TRUE),
                        caps |-> <<power, Point(2, "brightness", {0}, {100}),
                                   Point(3, "color_temp", {0}, {100}), Point(5, "color", {}, {})>>],
       light1 |-> [assistant |-> For(TRUE),
                   caps |-> <<power, Point(2, "brightness", {10}, {100})>>],
       th1 |-> [assistant |-> For(TRUE),
                caps |-> <<power, Point(2, "target_temp", {16}, {30})>>],
       sp1 |-> [assistant |-> For(TRUE), caps |-> <<power>>],
       gen1 |-> [assistant |-> For(FALSE), caps |-> <<power>>]]

Static(pid) ==
  IF pid \in DOMAIN ProductProfiles THEN ProductProfiles[pid] ELSE ProductProfiles["gen1"]

CapsForPID(pid) == Static(pid).caps

-----------------------------------------------------------------------------
(* The rows of released_products with the product's id: a function from    *)
(* versions to [art, retired].                                             *)

\* UpsertReleasedProduct: a version may be pushed again, and stays retired if it is;
\* the same contents are not stored under two versions.
UpsertReleasedProduct(rows, v, art) ==
  IF \E w \in DOMAIN rows \ {v} : rows[w].art = art THEN rows
  ELSE [w \in DOMAIN rows \cup {v} |->
          IF w # v THEN rows[w]
          ELSE [art |-> art, retired |-> v \in DOMAIN rows /\ rows[v].retired]]

\* One version, or all of them; also taken back.
RetireReleasedProduct(rows, versions, retired) ==
  [v \in DOMAIN rows |-> IF v \in versions THEN [rows[v] EXCEPT !.retired = retired] ELSE rows[v]]

\* The newest version, and the newest that is not retired.
Newest(rows) ==
  {rows[v].art : v \in {v \in DOMAIN rows : \A w \in DOMAIN rows : w <= v}}

NewestActive(rows) ==
  LET active == {v \in DOMAIN rows : ~ rows[v].retired}
  IN  Newest([v \in active |-> rows[v]])

\* Retired or not: the devices in the field keep working.  ok: the SELECT works; when it fails
\* the static catalogue answers, here and below.
ResolveCapabilities(pid, rows, ok) ==
  IF ok /\ Newest(rows) # {} THEN AppCapabilities(CHOOSE art \in Newest(rows) : TRUE)
  ELSE CapsForPID(pid)

ResolveAssistantConfig(pid, rows, ok) ==
  Or(UNION {AppAssistant(art) : art \in IF ok THEN NewestActive(rows) ELSE {}}, Static(pid).assistant)

IsAssistantSupported(pid, rows, platform, ok) ==
  LET cfg == ResolveAssistantConfig(pid, rows, ok)
  IN  cfg.enabled /\ cfg[platform]

================================================================================
