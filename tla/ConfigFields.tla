----------------------------- MODULE ConfigFields -----------------------------
(***************************************************************************)
(* The settings one by one: how config_mgr.c reads them from JSON          *)
(* (parse_json), prints them (config_to_json) and corrects what it read.   *)
(* ConfigStore has the file they are kept in; here a save is one step.     *)
(*                                                                         *)
(* Settings that do not touch each other need not be looked at together: a *)
(* behaviour is about one group, a number, a list, a name, or one of the   *)
(* four groups whose settings correct each other.  A value of the wrong    *)
(* type is read as a missing one, so payloads only lack it.  Floats, which *)
(* print exactly, and switches that nothing depends on are left out; lists *)
(* have two entries for six, twelve or twenty-four.                        *)
(***************************************************************************)
EXTENDS Integers, Sequences, FiniteSets, TLC

VARIABLES
  group,    \* the settings this behaviour is about
  ram,      \* their part of s_cfg
  saved     \* s_cfg as it was when config.json was last written

vars == <<group, ram, saved>>

Partial(K, V) == UNION {[k -> V] : k \in SUBSET K}
Given(p, k, old) == IF k \in DOMAIN p THEN p[k] ELSE old

-----------------------------------------------------------------------------
\* A number is narrowed to its field first and corrected afterwards.
\* A width is the number of values the field has; those of a Long are cut at the
\* largest number there is here.
Byte == 256
Word == 65536
Long == 2147483647

Field(width, lo, low, hi, high, dflt) ==
  [width |-> width, lo |-> lo, low |-> low, hi |-> hi, high |-> high, dflt |-> dflt]
Clamped(width, lo, hi, dflt) == Field(width, lo, lo, hi, hi, dflt)
AtLeast(lo, low, dflt) == Field(Word, lo, low, 65535, 65535, dflt)
UpTo(hi, high, dflt) == Field(Byte, 0, 0, hi, high, dflt)

Number ==
  [volume |-> UpTo(100, 100, 20), led_brightness |-> UpTo(100, 100, 60),
   lcd_brightness |-> UpTo(100, 100, 60), night_brightness |-> UpTo(100, 100, 30),
   led_night_brightness |-> UpTo(100, 100, 20),
   night_start_hour |-> UpTo(23, 23, 22), night_end_hour |-> UpTo(23, 23, 7),
   auto_update_hour |-> UpTo(23, 3, 3), burnin_auto_hour |-> UpTo(23, 0, 0),
   auto_update_policy |-> UpTo(1, 0, 0), spectrum_led_source |-> UpTo(1, 0, 0),
   time_discipline_mode |-> UpTo(2, 0, 2), spectrum_style |-> UpTo(2, 0, 0),
   mic_adc_channel |-> UpTo(7, 0, 7),
   custom_shadow_size |-> Clamped(Byte, 1, 4, 2), custom_glyph_shadow_size |-> Clamped(Byte, 1, 4, 2),
   mqtt_publish_interval_s |-> Clamped(Byte, 1, 60, 30), led_effect_speed |-> Clamped(Byte, 1, 10, 5),
   spectrum_bar_rise |-> Clamped(Byte, 1, 10, 4), spectrum_bar_fall |-> Clamped(Byte, 1, 10, 4),
   spectrum_peak_fall |-> Clamped(Byte, 1, 10, 3), spectrum_scope_thick |-> Clamped(Byte, 1, 8, 2),
   spectrum_peak_hold_ms |-> Clamped(Word, 0, 2000, 350), mic_top_hz |-> Clamped(Word, 1200, 8000, 8000),
   mqtt_port |-> AtLeast(1, 1883, 1883), wled_sync_port |-> AtLeast(1, 21324, 21324),
   rotation_interval_s |-> AtLeast(1, 60, 60), theme_rotation_interval_s |-> AtLeast(1, 300, 300),
   custom_night_drift_period_s |-> AtLeast(5, 5, 300), album_switch_time |-> AtLeast(500, 2000, 2000),
   weather_panel_ms |-> AtLeast(1000, 5000, 5000), tube6_panel_ms |-> AtLeast(1000, 5000, 5000),
   mic_floor_top_hz |-> AtLeast(0, 0, 0), debug_log_persist_mask |-> AtLeast(0, 0, 0),
   sub_poll_interval_min |-> AtLeast(0, 0, 60), burnin_auto_duration_s |-> Clamped(Long, 1800, 14400, 3600)]

Narrow(width, v) == IF width < Long THEN v % width ELSE IF v < 0 THEN Long ELSE v

Corrected(f, v) == IF v < f.lo THEN f.low ELSE IF v > f.hi THEN f.high ELSE v

\* config_mgr.c:552: the poll interval alone is tested before it is narrowed.
Ignored(k, v) == k = "sub_poll_interval_min" /\ v < 5

ReadNumber(k, old, p) ==
  LET f == Number[k]
      v == IF p = <<>> \/ Ignored(k, p[1]) THEN old ELSE Narrow(f.width, p[1])
  IN Corrected(f, v)

\* The edges of the field's range and of its width.
Edges(k) ==
  LET f == Number[k] IN
  {-1, 0, 5, f.lo - 1, f.lo, f.hi, f.hi + 1, f.width - 1} \cup
  (IF f.width = Long THEN {} ELSE {f.width, f.width + f.lo})
NumberPayloads(k) == {<<>>} \cup {<<v>> : v \in Edges(k)}

\* Six tubes, six bits; no tube at all means all of them for the burn-in.
Masked == [burnin_auto_mask |-> 63, lcd_invert_mask |-> 0]
ReadMask(k, old, p) ==
  LET v == (IF p = <<>> THEN old ELSE Narrow(Byte, p[1])) % 64
  IN IF v = 0 THEN Masked[k] ELSE v
MaskPayloads == {<<>>} \cup {<<v>> : v \in {-1, 0, 5, 63, 64, 256}}

-----------------------------------------------------------------------------
\* A list is read entry by entry: one that is no number, or is missing, leaves the
\* tube as it was.  Fewer than "need" entries are no list.  "odd" is what becomes of
\* an entry out of range, and "scalar" what a value that is no list sets.
Junk == 100000
Tubes(need, lo, hi, odd, scalar, dflt) ==
  [need |-> need, lo |-> lo, hi |-> hi, odd |-> odd, scalar |-> scalar, dflt |-> dflt]
Lists ==
  [lcd_tube_brightness |-> Tubes(0, 0, 100, "clamp", {}, 100),
   lcd_gain_r |-> Tubes(0, 50, 150, "clamp", {}, 100),
   lcd_col_offset |-> Tubes(0, -8, 8, "clamp", {}, 0),
   lcd_gamma |-> Tubes(0, 50, 300, "clamp", {1, 2}, 100),
   custom_font_color |-> Tubes(2, 0, 255, "keep", {}, 255),
   backlight_RGB |-> Tubes(0, 0, 255, "keep", {}, 200),
   rotation_weights |-> Tubes(0, 1, 99, "wrap", {}, 1),
   mic_noise_floor |-> Tubes(2, 0, 9, "any", {}, 0),
   ntp_servers |-> Tubes(0, 0, 3, "any", {1}, 1)]

Bounded(l, v) == IF v < l.lo THEN l.lo ELSE IF v > l.hi THEN l.hi ELSE v
Entry(l, v, old) ==
  IF v = Junk THEN old
  ELSE CASE l.odd = "clamp" -> Bounded(l, v)
         [] l.odd = "wrap" -> Bounded(l, v % 256)
         [] l.odd = "keep" -> IF v \in l.lo..l.hi THEN v ELSE old
         [] l.odd = "any" -> v

ReadList(k, old, p) ==
  LET l == Lists[k] IN
  IF p.list
    THEN IF Len(p.of) < l.need THEN old
         ELSE [i \in 1..2 |-> IF i <= Len(p.of) THEN Entry(l, p.of[i], old[i]) ELSE old[i]]
    ELSE [i \in 1..2 |-> IF i \in l.scalar /\ p.of # <<>> THEN Entry(l, p.of[1], old[i]) ELSE old[i]]

ListPayloads(k) ==
  LET l == Lists[k]
      vs == {l.lo - 1, l.lo, l.hi, l.hi + 1, 256, Junk}
  IN [list : BOOLEAN, of : {<<>>} \cup {<<v>> : v \in vs} \cup {<<v, w>> : v, w \in vs} \cup {<<v, w, v>> : v, w \in vs}]

\* A list of names replaces the former one; empty names are dropped.
\* Those past the second are not looked at.
Entered(s) == IF s = "" THEN <<>> ELSE <<s>>
ReadNames(p) ==
  (IF Len(p) < 1 THEN <<>> ELSE Entered(p[1])) \o (IF Len(p) < 2 THEN <<>> ELSE Entered(p[2]))
NamesPayloads == {<<>>} \cup {<<s, t>> : s, t \in {"", "x", "y"}} \cup {<<s, "x", t>> : s, t \in {"", "y"}}

-----------------------------------------------------------------------------
\* A name: what is read for another, what is known, and what an unknown or empty
\* one becomes: a fixed name, or the old one.  "x" and "y" are any other strings.
Free == {"x", "y"}
Name(alias, meant, known, other, dflt) ==
  [alias |-> alias, meant |-> meant, known |-> known, other |-> other, dflt |-> dflt]
Names ==
  [theme |-> Name({"DotMatrixRG", "DotMatrixY"}, "DotMatrix", Free \cup {"", "DotMatrix", "Nixie"}, "keep", "Nixie"),
   clock_tube5 |-> Name({}, "", Free \cup {"blank"}, "blank", "blank"),
   custom_bg |-> Name({}, "", Free \cup {"WeatherLive"}, "WeatherLive", "WeatherLive"),
   instagram_method |-> Name({}, "", Free \cup {"relay"}, "relay", "relay"),
   burnin_auto_interval |-> Name({}, "", {"daily", "weekly", "monthly"}, "weekly", "weekly"),
   burnin_auto_mode |-> Name({}, "", {"snow", "color-cycle"}, "color-cycle", "color-cycle"),
   backlight_mode |-> Name({}, "", {"Static", "Breath", "Rainbow", "Off", "WLED", "SunMoon"}, "keep", "Breath"),
   backlight_onoff |-> Name(Free, "ON", {"ON", "OFF"}, "keep", "ON"),
   temperature_format |-> Name({}, "", Free \cup {"", "Celsius"}, "keep", "Celsius"),
   update_repo |-> Name({}, "", Free \cup {""}, "keep", ""),
   password |-> Name({}, "", Free \cup {""}, "keep", "")]

Named(k, old, s) ==
  LET n == Names[k]
      a == IF s \in n.alias THEN n.meant ELSE s
  IN IF a \in n.known THEN a ELSE IF n.other = "keep" THEN old ELSE n.other

\* The former spelling of a key is read first, the present one over it.
ReadName(k, old, p) ==
  LET former == Named(k, old, Given(p, "former", old))
  IN Named(k, former, Given(p, "name", former))

NamePayloads(k) ==
  Partial(IF k = "temperature_format" THEN {"former", "name"} ELSE {"name"},
          Names[k].known \cup Names[k].alias \cup {"", "x"})

SlipPrintedName(k, v) == IF v = "" THEN <<>> ELSE [name |-> v]
\* An empty repository is not printed.
PrintedName(k, v) == IF k = "update_repo" /\ v = "" THEN <<>> ELSE [name |-> v]

-----------------------------------------------------------------------------
\* Modes: the current one, the enabled ones, those auto-rotation may show, and the
\* two that follow from them.  A mode is its number of twelve; 1 stands for the
\* three that were removed, 8 for the social ones.
Modes == {0, 1, 4, 6, 7, 8}
ModeName == [m \in Modes \ {1} |-> CASE m = 0 -> "Clock" [] m = 4 -> "Date" [] m = 6 -> "Weather"
                                      [] m = 7 -> "Spectrum" [] m = 8 -> "YouTube"]
AppNames == [Clock |-> 0, Countdown |-> 0, Scoreboard |-> 0, Pomodoro |-> 0, CustomClock |-> 4,
             Date |-> 4, Weather |-> 6, Spectrum |-> 7, YouTube |-> 8]
Masks == {{}, {1}, {0, 4}, {6}, {4, 7}, {8}, Modes}

DefaultModes == [mode |-> 0, enabled |-> Modes, rotation |-> {}, social |-> FALSE, weather |-> TRUE, mic |-> TRUE]

SlipTimeShown(on) == IF 0 \notin on THEN on ELSE on \cup {0}
TimeShown(on) == IF on \cap {0, 4} = {} THEN on \cup {0} ELSE on

ReadModes(old, p) ==
  LET on == TimeShown(Given(p, "enabled", old.enabled))
      weather == Given(p, "weather", old.weather)
  IN [mode |-> Given(AppNames, Given(p, "app", ""), old.mode),
      enabled |-> IF weather THEN on \cup {6} ELSE on,
      rotation |-> Given(p, "rotation", old.rotation),
      social |-> Given(p, "social", old.social),
      weather |-> weather,
      mic |-> 7 \in on]

\* app_mode_name has no name for a removed mode, and cJSON adds no key without one.
PrintedModes(r) ==
  IF r.mode \in DOMAIN ModeName
    THEN [enabled |-> r.enabled, rotation |-> r.rotation, social |-> r.social, weather |-> r.weather,
          app |-> ModeName[r.mode]]
    ELSE [enabled |-> r.enabled, rotation |-> r.rotation, social |-> r.social, weather |-> r.weather]

\* A request names one or two of them.
ModePayloads ==
  {[app |-> a] : a \in {"Clock", "Pomodoro", "CustomClock", "YouTube", "Poem"}} \cup
  {[enabled |-> m] : m \in Masks} \cup {[rotation |-> m] : m \in Masks} \cup {[social |-> b] : b \in BOOLEAN} \cup
  {[enabled |-> m, weather |-> b] : m \in Masks, b \in BOOLEAN} \cup {[weather |-> b] : b \in BOOLEAN}

\* The next mode of a pool in the ring of twelve, either way; an empty pool, none.
InRing(m, pool, way) ==
  LET at(i) == (m + way * i) % 12
      hits == {i \in 1..12 : at(i) \in pool}
  IN IF hits = {} THEN m ELSE at(CHOOSE i \in hits : \A j \in hits : i <= j)

Shown(r, pool) == IF r.social THEN pool ELSE pool \ {8}

\* on_touch, left and right.
Touched(r, way) == [r EXCEPT !.mode = InRing(r.mode, Shown(r, r.enabled), way)]

\* config_advance_mode.
RotationPool(r) ==
  LET pool == r.rotation \cap r.enabled
  IN IF r.rotation = {} \/ pool = {} THEN r.enabled ELSE pool
Advanced(r) == [r EXCEPT !.mode = InRing(r.mode, Shown(r, RotationPool(r)), 1)]

-----------------------------------------------------------------------------
\* Panels: those of tube 6, of tube 5, and the pages of the weather mode.  A request
\* switches some of one kind on or off, and the second tube's rotation.
Panels == {"weekdate", "ht", "temp"}
Pages == {0, 1, 2}
DefaultPanels == [six |-> {"weekdate", "ht"}, five |-> {"ht"}, wx |-> {0, 1}, dual |-> FALSE]

Switched(old, p) == {x \in old : Given(p, x, TRUE)} \cup {x \in DOMAIN p : p[x]}
OrElse(on, one) == IF on = {} THEN {one} ELSE on

ReadPanels(old, p) ==
  LET dual == Given(p, "dual", old.dual)
      five == Switched(old.five, Given(p, "five", <<>>))
  IN [six |-> OrElse(Switched(old.six, Given(p, "six", <<>>)), "weekdate"),
      five |-> IF dual THEN OrElse(five, "ht") ELSE five,
      wx |-> OrElse(Switched(old.wx, Given(p, "wx", <<>>)), 0),
      dual |-> dual]

AllFlags(S, on) == [x \in S |-> x \in on]
PrintedPanels(r) ==
  [six |-> AllFlags(Panels, r.six), five |-> AllFlags(Panels, r.five), wx |-> AllFlags(Pages, r.wx), dual |-> r.dual]

PanelPayloads ==
  {[six |-> f] : f \in Partial(Panels, BOOLEAN)} \cup {[five |-> f] : f \in Partial(Panels, BOOLEAN)} \cup
  {[wx |-> f] : f \in Partial(Pages, BOOLEAN)} \cup
  {[five |-> f, dual |-> b] : f \in Partial(Panels, BOOLEAN), b \in BOOLEAN}

-----------------------------------------------------------------------------
\* Shadows: of text and of digits.  The digits' shadow, and its colour, follow the
\* other one whenever a request does not name them.
DefaultShadows == [shadow |-> TRUE, glyph |-> TRUE, color |-> "black", glyphColor |-> "black"]

ReadShadows(old, p) ==
  LET shadow == Given(p, "shadow", old.shadow)
      color == Given(p, "color", old.color)
  IN [shadow |-> shadow, glyph |-> Given(p, "glyph", shadow),
      color |-> color, glyphColor |-> Given(p, "glyphColor", color)]

ShadowPayloads ==
  {f @@ g : f \in Partial({"shadow", "glyph"}, BOOLEAN), g \in Partial({"color", "glyphColor"}, {"black", "red"})}

-----------------------------------------------------------------------------
\* The time zone: a POSIX string UTC<hours>:<minutes>, west positive, or the number
\* of former configurations: hours east, or seconds when it is more than a day.  A
\* quarter of the number's unit is 1 here.
Trunc(a, b) == IF a < 0 THEN -((-a) \div b) ELSE a \div b
FromLegacy(v) ==
  LET secs == IF v > 96 \/ v < -96 THEN Trunc(v, 4) ELSE v * 900
      hrs == Trunc(secs, 3600)
      rest == secs - hrs * 3600
  IN <<-hrs, (IF rest < 0 THEN -rest ELSE rest) \div 60>>

East(z) == IF z[1] < 0 THEN -z[1] * 3600 + z[2] * 60 ELSE -(z[1] * 3600 + z[2] * 60)

ReadZone(old, p) ==
  IF Given(p, "timezone", <<>>) # <<>> THEN p.timezone
  ELSE IF "legacy" \in DOMAIN p THEN FromLegacy(p.legacy) ELSE old

Quarters == -48..56
ZonePayloads ==
  Partial({"legacy"}, Quarters \cup {3600 * q : q \in Quarters}) \cup
  {[timezone |-> z, legacy |-> 22] : z \in {<<>>, <<5, 0>>, <<-9, 30>>}}

-----------------------------------------------------------------------------
Together == {"modes", "panels", "shadows", "zone", "names"}
Groups == DOMAIN Number \cup DOMAIN Masked \cup DOMAIN Lists \cup DOMAIN Names \cup Together

\* set_defaults.
DefaultNumber == IF group \in DOMAIN Masked THEN Masked[group] ELSE Number[group].dflt
DefaultList == [i \in 1..2 |-> Lists[group].dflt]
DefaultName == Names[group].dflt
Default ==
  CASE group \in DOMAIN Number \cup DOMAIN Masked -> DefaultNumber
    [] group \in DOMAIN Lists -> DefaultList
    [] group \in DOMAIN Names -> DefaultName
    [] group = "modes" -> DefaultModes
    [] group = "panels" -> DefaultPanels
    [] group = "shadows" -> DefaultShadows
    [] group = "zone" -> <<0, 0>>
    [] group = "names" -> <<>>

\* parse_json on what the payload p says of the group.
Read(old, p) ==
  CASE group \in DOMAIN Number -> ReadNumber(group, old, p)
    [] group \in DOMAIN Masked -> ReadMask(group, old, p)
    [] group \in DOMAIN Lists -> ReadList(group, old, p)
    [] group \in DOMAIN Names -> ReadName(group, old, p)
    [] group = "modes" -> ReadModes(old, p)
    [] group = "panels" -> ReadPanels(old, p)
    [] group = "shadows" -> ReadShadows(old, p)
    [] group = "zone" -> ReadZone(old, p)
    [] group = "names" -> ReadNames(p)

\* config_to_json.
PrintedNumber(r) == <<r>>
PrintedList(r) == [list |-> TRUE, of |-> r]
PrintedShadows(r) == r
PrintedZone(r) == [timezone |-> r]
PrintedNames(r) == r
Printed(r) ==
  CASE group \in DOMAIN Number \cup DOMAIN Masked -> PrintedNumber(r)
    [] group \in DOMAIN Lists -> PrintedList(r)
    [] group \in DOMAIN Names -> PrintedName(group, r)
    [] group = "modes" -> PrintedModes(r)
    [] group = "panels" -> PrintedPanels(r)
    [] group = "shadows" -> PrintedShadows(r)
    [] group = "zone" -> PrintedZone(r)
    [] group = "names" -> PrintedNames(r)

Payloads ==
  CASE group \in DOMAIN Number -> NumberPayloads(group)
    [] group \in DOMAIN Masked -> MaskPayloads
    [] group \in DOMAIN Lists -> ListPayloads(group)
    [] group \in DOMAIN Names -> NamePayloads(group)
    [] group = "modes" -> ModePayloads
    [] group = "panels" -> PanelPayloads
    [] group = "shadows" -> ShadowPayloads
    [] group = "zone" -> ZonePayloads
    [] group = "names" -> NamesPayloads

Init ==
  /\ group \in Groups
  /\ ram = Default
  /\ saved = Default

\* config_set_json, from the web page, a script or Home Assistant.
Post ==
  /\ \E p \in Payloads : ram' = Read(ram, p)
  /\ saved' = ram'
  /\ UNCHANGED group

\* The touch pads and auto-rotation change the mode in RAM only.
Touch ==
  /\ group = "modes"
  /\ \E way \in {-1, 1} : ram' = Touched(ram, way)
  /\ UNCHANGED <<group, saved>>

Advance ==
  /\ group = "modes"
  /\ ram' = Advanced(ram)
  /\ UNCHANGED <<group, saved>>

\* config_mgr_init: the defaults, and config.json over them.
Boot ==
  /\ ram' = Read(Default, Printed(saved))
  /\ UNCHANGED <<group, saved>>

\* config_reset.
Reset ==
  /\ ram' = Default
  /\ saved' = Default
  /\ UNCHANGED group

Next == Post \/ Touch \/ Advance \/ Boot \/ Reset

Spec == Init /\ [][Next]_vars

-----------------------------------------------------------------------------
TypeOk ==
  /\ group \in Groups
  /\ group \in DOMAIN Number => ram >= 0 /\ ram <= Number[group].hi
  /\ group \in DOMAIN Lists => DOMAIN ram = 1..2
  /\ group \in DOMAIN Names => ram \in Names[group].known
  /\ group = "modes" => ram.mode \in Modes /\ ram.enabled \subseteq Modes

\* What is printed is read back: a boot finds the settings the clock had when it
\* saved them, whatever requests, corrections and migrations led to them.  Two
\* exceptions (README): a removed mode, which has no name, and the poll interval,
\* which wraps below its limit of 5.
ReadsBack ==
  \/ group = "modes" /\ ram.mode \notin DOMAIN ModeName
  \/ group = "sub_poll_interval_min" /\ ram < 5
  \/ Read(Default, Printed(ram)) = ram

\* config_mgr.c:806, 861, 1065-1081, 649: whatever is switched off, in whatever order,
\* a mode that tells the time, a page of the weather and a panel on each rotating
\* tube stay on; the microphone runs for Spectrum and nothing else, the weather's
\* mode is on while its service is; and a number of hours or seconds east becomes
\* the zone with that offset, but for the first three quarters east of Greenwich.
SettingsFit ==
  /\ group = "modes" => /\ ram.enabled \cap {0, 4} # {}
                        /\ ram.mic = (7 \in ram.enabled)
                        /\ ram.weather => 6 \in ram.enabled
  /\ group = "panels" => ram.six # {} /\ ram.wx # {} /\ (ram.dual => ram.five # {})
  /\ group = "zone" => \A q \in Quarters \ (1..3), v \in {1, 3600} : East(FromLegacy(v * q)) = q * 900

\* config_mgr.h:37: the bits of removed modes are "kept as gaps so that saved
\* enabled_modes bitmasks from older firmware are not silently misread".
ModeHasName == group = "modes" => ram.mode \in DOMAIN ModeName

\* config_mgr.c:714: "Only applies once: once custom_glyph_shadow is saved even a single
\* time, the key exists from then on and this is skipped."
GlyphShadowKept ==
  [][group = "shadows" /\ ram.glyph # ram.shadow =>
       \A p \in Payloads : ram' = Read(ram, p) /\ "glyph" \notin DOMAIN p => ram'.glyph = ram.glyph]_vars
=============================================================================
