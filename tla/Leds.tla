-------------------------------- MODULE Leds --------------------------------
(***************************************************************************)
(* The accent LEDs: led_task of leds.c, which reads the settings, the flash *)
(* of WeatherLive's thunderstorm, the state of a WLED server (wled_sync.c)  *)
(* and the pause that a playing clip asks for, and transmits a frame when   *)
(* it thinks one is needed.  The LEDs hold the last frame that arrived.     *)
(*                                                                         *)
(* A frame is named by what drives it: a static look, an animation, the    *)
(* flash, the WLED colour, or darkness.                                    *)
(***************************************************************************)
EXTENDS Naturals

CONSTANTS
  Looks,        \* colours with a brightness, for the static mode
  Animations,   \* modes that transmit in every iteration: "breath", "rainbow", "sunmoon"
  ChangeMax     \* bound: changes of the settings, faces and packets

VARIABLES
  quietLeds,  \* s_audio_active
  conf,       \* settings: [mode, look, glow]
  storm,      \* the face that drives the flash is shown, and whether it is lit
  flash,      \* s_weather_flash > 0
  dirty,      \* s_leds_dirty
  sync,       \* wled_sync's state, "none" before the first packet
  led,        \* led_task: [pc, what, mode, look]
  prev,       \* prev_driver
  last,       \* last_rgb and last_brt of the static mode
  strip,      \* what the LEDs show
  lost,       \* history: the last static frame failed, or WLED drew in between
  changes

ledVars == <<conf, storm, flash, dirty, sync, led, prev, last, strip, lost, changes>>
vars == <<quietLeds, ledVars>>

None == "none"
Modes == {"static", "off", "wled"} \union Animations
Frames == Looks \union Animations \union {"glow", "dark", "flash", "wled", "rainbow"}

TypeOk ==
  /\ conf \in [mode : Modes, look : Looks, glow : BOOLEAN]
  /\ storm \in {"away", "calm", "lit"}
  /\ flash \in BOOLEAN /\ dirty \in BOOLEAN /\ lost \in BOOLEAN
  /\ sync \in {None, "off", "colour", "palette"}
  /\ led \in [pc : {"flash", "wled", "audio", "read", "draw", "static", "paint", "show"},
              what : Frames, mode : Modes \union {"glow"}, look : Looks]
  /\ prev \in Modes \union {"glow", None}
  /\ last \in Looks \union {None}
  /\ strip \in Frames
  /\ changes \in 0..ChangeMax

\* leds_init blanks the strip.
Init ==
  /\ quietLeds = FALSE
  /\ conf \in [mode : Modes, look : Looks, glow : {FALSE}]
  /\ storm = "away" /\ flash = FALSE /\ dirty = FALSE /\ sync = None
  /\ led = [pc |-> "flash", what |-> "dark", mode |-> "off", look |-> conf.look]
  /\ prev = None /\ last = None
  /\ strip = "dark" /\ lost = FALSE /\ changes = 0

-----------------------------------------------------------------------------
(* led_task, one step for each thing it looks at *)

Draw(what) == led' = [led EXCEPT !.pc = "paint", !.what = what]
Goto(at) == led' = [led EXCEPT !.pc = at]

LookAtFlash ==
  /\ led.pc = "flash"
  /\ IF flash /\ ~quietLeds THEN Draw("flash") ELSE Goto("wled")
  /\ UNCHANGED <<quietLeds, conf, storm, flash, dirty, sync, prev, last, strip, lost, changes>>

\* A colour, darkness, or the local rainbow for an effect without a colour.
Mirrored(s) == CASE s = "off" -> "dark" [] s = "palette" -> "rainbow" [] OTHER -> "wled"

\* The mirror comes before the look at the clip and before prev_driver.
LookAtWled ==
  /\ led.pc = "wled"
  /\ IF conf.mode = "wled" /\ sync # None
     THEN Draw(Mirrored(sync)) /\ lost' = TRUE
     ELSE Goto("audio") /\ UNCHANGED lost
  /\ UNCHANGED <<quietLeds, conf, storm, flash, dirty, sync, prev, last, strip, changes>>

LookAtAudio ==
  /\ led.pc = "audio"
  /\ Goto(IF quietLeds THEN "flash" ELSE "read")
  /\ UNCHANGED <<quietLeds, conf, storm, flash, dirty, sync, prev, last, strip, lost, changes>>

\* What drives the LEDs: Spectrum's glow, or the accent mode.
Driver(c) == IF c.glow THEN "glow" ELSE c.mode

ReadSettings ==
  /\ led.pc = "read"
  /\ led' = [led EXCEPT !.pc = "draw", !.mode = Driver(conf), !.look = conf.look]
  /\ prev' = Driver(conf)
  /\ dirty' = (dirty \/ Driver(conf) # prev)
  /\ UNCHANGED <<quietLeds, conf, storm, flash, sync, last, strip, lost, changes>>

\* Every mode but the static one transmits each time.
DrawOther ==
  /\ led.pc = "draw" /\ led.mode # "static"
  /\ Draw(IF led.mode \in {"wled", "off"} THEN "dark" ELSE led.mode)
  /\ UNCHANGED <<quietLeds, conf, storm, flash, dirty, sync, prev, last, strip, lost, changes>>

Repaint == led.look # last \/ dirty

DrawStatic ==
  /\ led.pc = "draw" /\ led.mode = "static"
  /\ IF Repaint THEN last' = led.look /\ Goto("static")
                ELSE Goto("flash") /\ UNCHANGED last
  /\ UNCHANGED <<quietLeds, conf, storm, flash, dirty, sync, prev, strip, lost, changes>>

PaintStatic ==
  /\ led.pc = "static"
  /\ dirty' = FALSE
  /\ lost' = FALSE
  /\ Draw(led.look)
  /\ UNCHANGED <<quietLeds, conf, storm, flash, sync, prev, last, strip, changes>>

\* ws2812_write: a transmission that fails is logged and forgotten.
Transmit ==
  /\ led.pc = "paint"
  /\ Goto("flash")
  /\ \/ strip' = led.what /\ UNCHANGED lost
     \/ strip' = strip /\ lost' = (lost \/ led.what \in Looks)
  /\ UNCHANGED <<quietLeds, conf, storm, flash, dirty, sync, prev, last, changes>>

LedTask ==
  \/ LookAtFlash \/ LookAtWled \/ LookAtAudio \/ ReadSettings
  \/ DrawOther \/ DrawStatic \/ PaintStatic \/ Transmit

-----------------------------------------------------------------------------
(* The display task: leds_weather_flash, called by each frame of the      *)
(* WeatherLive face and by nothing else.                                  *)

Strike ==
  /\ storm = "calm" /\ changes < ChangeMax
  /\ changes' = changes + 1
  /\ storm' = "lit" /\ flash' = TRUE
  /\ UNCHANGED <<quietLeds, conf, dirty, sync, led, prev, last, strip, lost>>

\* `MarkDirty` without the repaint.
SlipMarkDirty == FALSE

\* Level 0 asks for a repaint and puts the flash out; led_task cannot come in
\* between, for it runs on the same core with a lower priority.
MarkDirty == TRUE
StrikeEnds ==
  /\ storm = "lit"
  /\ storm' = "calm"
  /\ dirty' = (dirty \/ MarkDirty)
  /\ flash' = FALSE
  /\ UNCHANGED <<quietLeds, conf, sync, led, prev, last, strip, lost, changes>>

\* Touch, rotation or the web page changes the face, between two frames.  The
\* first frame of a new visit puts out what an earlier one has left lit.
FaceChanges ==
  /\ changes < ChangeMax /\ changes' = changes + 1
  /\ storm' = CASE storm # "away" -> "away"
                [] storm = "away" -> IF flash THEN "lit" ELSE "calm"
  /\ UNCHANGED <<quietLeds, conf, flash, dirty, sync, led, prev, last, strip, lost>>

-----------------------------------------------------------------------------
\* The settings page, and Spectrum's face with its own glow.
Configure ==
  /\ changes < ChangeMax /\ changes' = changes + 1
  /\ \/ \E m \in Modes : conf' = [conf EXCEPT !.mode = m]
     \/ \E l \in Looks : conf' = [conf EXCEPT !.look = l]
     \/ conf' = [conf EXCEPT !.glow = ~@]
  /\ UNCHANGED <<quietLeds, storm, flash, dirty, sync, led, prev, last, strip, lost>>

\* wled_sync_task: too short a packet, or one of another protocol, is ignored.
Packet(valid, bri, palette) ==
  /\ changes < ChangeMax /\ changes' = changes + 1
  /\ sync' = IF ~valid THEN sync
             ELSE IF bri = 0 THEN "off" ELSE IF palette THEN "palette" ELSE "colour"
  /\ UNCHANGED <<quietLeds, conf, storm, flash, dirty, led, prev, last, strip, lost>>

LedStep ==
  \/ LedTask \/ Strike \/ StrikeEnds \/ FaceChanges \/ Configure
  \/ \E valid \in BOOLEAN, bri \in 0..1, palette \in BOOLEAN : Packet(valid, bri, palette)

\* led_task runs for ever, and so do the frames of the face that is shown.
LedFairness == WF_vars(LedTask) /\ WF_vars(StrikeEnds)

\* What the strip should show once nothing changes any more.
Wanted ==
  CASE conf.mode = "wled" /\ sync # None -> Mirrored(sync)
    [] ~(conf.mode = "wled" /\ sync # None) /\ Driver(conf) = "static" -> conf.look
    [] ~(conf.mode = "wled" /\ sync # None) /\ Driver(conf) \in {"off", "wled"} -> "dark"
    [] OTHER -> Driver(conf)
=============================================================================
