---------------------------- MODULE DisplayLoop ----------------------------
(***************************************************************************)
(* The loop of the display task (display.c): one iteration takes a copy of *)
(* the settings, compares it with what it drew last, sets the backlight,   *)
(* lets the setup PIN or a ticker take the tubes, draws the face of the    *)
(* mode only when something it shows has changed, and paints the tubes a   *)
(* burn-in session holds.  Settings, readings, overlays and sessions       *)
(* change under it at any point of an iteration.  What is on a tube is     *)
(* described by what it was drawn from.  Parking is DisplayPark's subject. *)
(***************************************************************************)
EXTENDS Integers, TLC

CONSTANTS
  Tubes,      \* the last one shows the seconds or the blinking colon
  Modes,      \* app modes that can be selected
  Themes,     \* "pack" (files), "live" (animated sky), "custom" (a still picture)
  EventMax    \* bound: changes from outside

VARIABLES
  conf,       \* the settings: [mode, theme, style, fmt, light, bright]
  now,        \* the clock: a minute and a second of it, cyclic
  data,       \* [day, count, temp, wind, night]; 0 is "not fetched yet"
  timeOk,     \* ntp_has_valid_time
  over,       \* [pin, ticker, mic]: setup PIN visible, ticker frames left, microphone test
  mask,       \* tubes held by a burn-in, snow or test pattern session
  sig,        \* [full, saved, busy]: s_full_repaint_request, s_settings_saved, the busy hint
  post,       \* where a settings POST is
  loop,       \* the display task's locals
  last,       \* what it compares with: the last_* locals
  tubes,      \* what is on each tube
  lamp,       \* [duty, on, brt, lcd, glow, ramp]: the PWM duty, last_bl_on, last_bl_brt...
  lost,       \* [save, burn, light]: a change the loop is known to have dropped
  events

vars == <<conf, now, data, timeOk, over, mask, sig, post, loop, last, tubes, lamp, lost, events>>

Panels == {"temp", "wind"}         \* of the weather
Skies == {"live", "custom"}        \* themes drawn by render_weatherlive
Comparing == {"date", "social", "weather"}
Colon == CHOOSE t \in Tubes : \A u \in Tubes : u <= t
Never == -1                        \* a last_* value no reading has

Conf == [mode : Modes, theme : Themes, style : 0..1, fmt : 0..1, light : BOOLEAN, bright : 1..2]
\* Pictures that are not a mode's.
Black == <<"black">>
Held == <<"held">>
Splash == <<"boot">>
PinCode == <<"pin">>
Message == <<"ticker">>

Second(n) == n % 2
Minute(n) == n \div 2

\* What the modes show, on one tube, of the time and the readings.
ClockShows(tube) == IF tube = Colon THEN Second(now) ELSE Minute(now)
DateShows == data.day
FollowersShow == data.count
WeatherShows(panel) == IF panel = "wind" /\ data.temp # 0 THEN data.wind ELSE data.temp

Shown(mode, panel, tube) ==
  CASE mode = "clock" -> ClockShows(tube)
    [] mode = "date" -> DateShows
    [] mode = "social" -> FollowersShow
    [] mode = "weather" -> WeatherShows(panel)
    [] OTHER -> 0

\* A face is what it was drawn from: packs of files have no colours and fonts, and
\* only the clock, the date and the weather have formats.
Face(c, panel, value) ==
  <<c.mode, c.theme, IF c.theme \in Skies THEN c.style ELSE 0,
    IF c.mode \in {"clock", "date", "weather"} THEN c.fmt ELSE 0,
    IF c.mode = "weather" THEN panel ELSE "none", value>>
FaceNow(c, panel) == [t \in Tubes |-> Face(c, panel, Shown(c.mode, panel, t))]

\* Nothing draws on a tube a session holds (BURNIN_HELD).
Draw(pics) == [t \in Tubes |-> IF t \in mask THEN tubes[t] ELSE pics[t]]
Fill(pic) == Draw([t \in Tubes |-> pic])

TypeOk ==
  /\ conf \in Conf /\ now \in 0..3 /\ timeOk \in BOOLEAN /\ mask \subseteq Tubes
  /\ data \in [day : 0..1, count : 0..1, temp : 0..2, wind : 1..2, night : BOOLEAN]
  /\ over \in [pin : BOOLEAN, ticker : 0..2, mic : BOOLEAN]
  /\ sig \in [full : BOOLEAN, saved : BOOLEAN, busy : BOOLEAN]
  /\ post \in {"none", "hinted", "stored"}
  /\ loop.pc \in {"top", "flags", "draw", "paint"} /\ loop.snap \in Conf
  /\ loop.held \subseteq Tubes /\ loop.panel \in Panels
  /\ \A t \in Tubes : tubes[t] \in {Black, Held, Splash, PinCode, Message} \/ tubes[t][1] \in Modes
  /\ lamp.duty \in 0..3 /\ lamp.brt \in 0..2 /\ events \in 0..EventMax

\* The locals of one iteration, which are forgotten at its end.
Idle == [pc |-> "top", snap |-> CHOOSE c \in Conf : TRUE, mode |-> FALSE, theme |-> FALSE, style |-> FALSE]
EndTick(l) == Idle @@ l

\* display_init and the locals of display_task; the settings are those of the last save.
Init ==
  /\ conf \in [mode : Modes, theme : Themes, style : {0}, fmt : {0}, light : {TRUE}, bright : {2}]
  /\ now = 0 /\ data = [day |-> 0, count |-> 0, temp |-> 0, wind |-> 1, night |-> FALSE]
  /\ timeOk = FALSE
  /\ over = [pin |-> FALSE, ticker |-> 0, mic |-> FALSE] /\ mask = {}
  /\ sig = [full |-> FALSE, saved |-> FALSE, busy |-> FALSE] /\ post = "none"
  /\ loop = EndTick([first |-> TRUE, ready |-> FALSE, pinExit |-> FALSE, blanked |-> FALSE, held |-> {},
                     timeWas |-> FALSE, panel |-> "temp", turned |-> FALSE, scene |-> FALSE, early |-> FALSE])
  /\ last = [mode |-> "none", theme |-> "none", style |-> Never, fmt |-> Never,
             now |-> Never, day |-> Never, count |-> Never, temp |-> Never]
  /\ tubes = [t \in Tubes |-> Splash]
  /\ lamp = [duty |-> 0, on |-> FALSE, brt |-> 0, lcd |-> 0, glow |-> FALSE, ramp |-> FALSE]
  /\ lost = [save |-> FALSE, burn |-> FALSE, light |-> FALSE]
  /\ events = 0

\* Changes from outside come to an end; what was begun may end at no cost.
Within(n) == events + n <= EventMax /\ events' = events + n

confVars == <<conf, sig, post>>
outside == <<data, timeOk, mask, events>>
world == <<now, outside>>

-----------------------------------------------------------------------------
(* The copy of the settings *)

\* The brightness the settings ask for; the night's is 1.
Target(c) == IF data.night THEN 1 ELSE c.bright
Wants(c) == IF c.light THEN Target(c) ELSE 0

\* A second may have passed since the last iteration: the clock is read once in each.
AtTop == loop.pc = "top" /\ now' \in {now, (now + 1) % 4}

\* What the boot gate waits for, in the modes that need it.
DataReady(c) ==
  /\ c.mode = "weather" \/ c.theme = "live" => data.temp # 0
  /\ c.mode = "social" => data.count # 0

\* The boot gate: the splash stays until the time is known and the data there, or
\* BOOT_DATA_TIMEOUT_MS have passed, which may be any iteration; the setup PIN
\* always gets past it.
BootWait ==
  /\ AtTop /\ ~loop.ready /\ ~over.pin /\ ~(timeOk /\ DataReady(conf))
  /\ tubes' = Fill(Splash)
  /\ lamp' = IF conf.light /\ ~lamp.glow THEN [lamp EXCEPT !.duty = Target(conf), !.glow = TRUE] ELSE lamp
  /\ UNCHANGED <<confVars, outside, over, loop, last, lost>>

BootOver == loop.ready \/ over.pin \/ timeOk

\* The microphone test: dark and idle while it lasts.
MicTest ==
  /\ AtTop /\ BootOver /\ over.mic
  /\ loop' = [loop EXCEPT !.ready = TRUE, !.blanked = TRUE]
  /\ tubes' = IF loop.blanked THEN tubes ELSE Fill(Black)
  /\ lamp' = IF loop.blanked THEN lamp ELSE [lamp EXCEPT !.duty = 0]
  /\ UNCHANGED <<confVars, outside, over, last, lost>>

\* `AfterMicTest` that leaves the backlight to its comparison.
SlipAfterMicTest(l) == l
\* The backlight is made to look switched, so that it is set again.
AfterMicTest(l) == IF loop.blanked THEN [l EXCEPT !.on = ~conf.light] ELSE l

\* The copy is compared with what was drawn last.
Snapshot ==
  /\ AtTop /\ BootOver /\ ~over.mic
  /\ loop' = [loop EXCEPT !.pc = "flags", !.snap = conf, !.ready = TRUE, !.blanked = FALSE,
                          !.mode = conf.mode # last.mode, !.theme = conf.theme # last.theme,
                          !.style = conf.style # last.style]
  /\ sig' = [sig EXCEPT !.full = @ \/ loop.blanked]
  /\ lamp' = AfterMicTest(lamp)
  /\ UNCHANGED <<conf, post, outside, over, last, tubes, lost>>

-----------------------------------------------------------------------------
(* Requests, rotation, backlight *)

Duty(l, brt) == [l EXCEPT !.duty = brt, !.ramp = FALSE]

\* The five cases of the backlight: power-on glow, first frame, switch, edit, night.
Lamp(c) ==
  LET target == Target(c)
      l == [lamp EXCEPT !.on = c.light, !.brt = target, !.lcd = c.bright]
  IN CASE loop.first /\ ~lamp.glow -> [Duty(l, 0) EXCEPT !.ramp = c.light, !.glow = TRUE]
       [] loop.first /\ lamp.glow -> [l EXCEPT !.ramp = FALSE]
       [] ~loop.first /\ c.light # lamp.on -> Duty(l, Wants(c))
       [] ~loop.first /\ c.light = lamp.on /\ target # lamp.brt ->
            IF c.bright # lamp.lcd THEN Duty(l, target) ELSE [l EXCEPT !.ramp = TRUE]
       [] OTHER -> [lamp EXCEPT !.lcd = c.bright]

\* A glide (duty 3) goes on or ends; it may take any number of iterations.
Glide(l, c) ==
  IF l.ramp /\ c.light THEN {[l EXCEPT !.duty = 3], Duty(l, l.brt)} ELSE {l}

\* The light was switched or edited under an overlay, or edited while it is off.
LightLost(c) ==
  /\ lamp'.duty # Wants(c)
  /\ \/ loop.first /\ lamp.glow
     \/ ~c.light /\ lamp'.duty # lamp.duty
     \/ lost.light /\ lamp'.duty = lamp.duty

NextIn(set, x) == CHOOSE y \in set : y # x \/ set = {x}

\* A requested repaint forgets what was drawn; a save only pretends that the mode
\* changed.  A rotation of modes or themes that is due changes the settings, not the
\* copy.
Flags ==
  /\ loop.pc = "flags"
  /\ LET changed == loop.mode \/ sig.full \/ sig.saved
     IN /\ loop' = [loop EXCEPT !.pc = "draw", !.mode = changed,
                                !.panel = IF changed \/ loop.theme \/ loop.first THEN "temp" ELSE @]
        /\ \/ UNCHANGED <<conf, events>>
           \/ ~changed /\ ~loop.first /\ Within(1) /\ conf' = [conf EXCEPT !.mode = NextIn(Modes, @)]
           \/ ~loop.theme /\ ~loop.first /\ Within(1) /\ conf' = [conf EXCEPT !.theme = NextIn(Themes, @)]
  /\ sig' = [sig EXCEPT !.full = FALSE, !.saved = FALSE]
  /\ tubes' = IF sig.full THEN Fill(Black) ELSE tubes
  /\ last' = IF sig.full THEN [last EXCEPT !.now = Never, !.day = Never, !.count = Never, !.temp = Never]
             ELSE last
  /\ lamp' \in Glide(Lamp(loop.snap), loop.snap)
  /\ lost' = [lost EXCEPT !.save = @ \/ (sig.saved /\ conf # loop.snap), !.light = LightLost(loop.snap)]
  /\ UNCHANGED <<post, now, data, timeOk, mask, over>>

-----------------------------------------------------------------------------
(* What takes the tubes before the mode does *)

\* An overlay pretends that nothing was drawn.
Forget(c) == [last EXCEPT !.mode = "none", !.theme = c.theme, !.style = c.style, !.now = Never, !.day = Never]

\* The setup PIN, at full brightness.
ShowPin ==
  /\ loop.pc = "draw" /\ over.pin
  /\ tubes' = Fill(PinCode)
  /\ lamp' = [lamp EXCEPT !.duty = 3]
  /\ last' = [Forget(loop.snap) EXCEPT !.count = Never, !.temp = Never]
  /\ loop' = EndTick([loop EXCEPT !.first = TRUE, !.pinExit = TRUE, !.early = FALSE])
  /\ UNCHANGED <<confVars, world, over, lost>>

\* Once a client is associated: dark for half a second, and back to the clock.
LeavePin ==
  /\ loop.pc = "draw" /\ ~over.pin /\ loop.pinExit
  /\ tubes' = Fill(Black)
  /\ conf' = [conf EXCEPT !.mode = "clock"]
  /\ loop' = EndTick([loop EXCEPT !.pinExit = FALSE])
  /\ UNCHANGED <<sig, post, world, over, last, lamp, lost>>

\* `SessionEnded` that looks for an expired session only, not for one that was stopped.
SlipSessionEnded == FALSE
\* A session has ended since the last check: the mode draws all it shows.
SessionEnded == loop.held # {} /\ mask = {}

\* A message scrolls for some frames and has the tubes to itself, held ones included.
ShowTicker ==
  /\ loop.pc = "draw" /\ ~over.pin /\ ~loop.pinExit /\ over.ticker > 0
  /\ over' = [over EXCEPT !.ticker = @ - 1]
  /\ tubes' = IF over.ticker = 1 THEN Fill(Black) ELSE [t \in Tubes |-> Message]
  /\ last' = Forget(loop.snap)
  /\ loop' = EndTick([loop EXCEPT !.held = mask, !.first = TRUE, !.early = FALSE])
  /\ UNCHANGED <<confVars, world, lamp, lost>>

\* The mode draws.  A session that began and ended between two checks went unnoticed.
Drawing ==
  /\ loop.pc = "draw" /\ ~over.pin /\ ~loop.pinExit /\ over.ticker = 0
  /\ lost' = [lost EXCEPT !.burn = @ \/ (loop.early /\ mask = {})]
  /\ UNCHANGED <<confVars, world, over, lamp>>
Drawn == [loop EXCEPT !.pc = "paint", !.held = mask]

-----------------------------------------------------------------------------
(* The mode's face *)

Fresh == loop.first \/ loop.mode
Anew == Fresh \/ loop.theme \/ SessionEnded

\* An animated sky is drawn in every iteration.
Moving == loop.snap.theme = "live" /\ loop.scene

\* The clock compares the minute, and the second where it shows one; between them
\* only the colon is drawn.  A sky is not drawn while the busy hint lasts.
ClockDraws ==
  LET c == loop.snap
      sky == c.theme \in Skies
      layout == Anew \/ c.fmt # last.fmt \/ (sky /\ loop.style)
      ticks == last.now = Never \/ Minute(now) # Minute(last.now) \/ (c.fmt = 0 /\ now # last.now)
      full == layout \/ ticks \/ (sky /\ Moving)
      skip == sky /\ sig.busy
      all == FaceNow(c, loop.panel)
  IN /\ tubes' = CASE full /\ ~skip -> Draw(all)
                   [] full /\ skip /\ layout -> tubes
                   [] ~full /\ now = last.now -> tubes
                   [] OTHER -> Draw([tubes EXCEPT ![Colon] = all[Colon]])
     /\ last' = [last EXCEPT !.now = now, !.day = data.day, !.fmt = c.fmt]
     /\ loop' = [Drawn EXCEPT !.timeWas = TRUE, !.scene = @ \/ (sky /\ full /\ ~skip)]

\* Without a time the clock is dark; it is made dark once.
ClockDark ==
  /\ tubes' = IF Fresh \/ loop.timeWas THEN Fill(Black) ELSE tubes
  /\ loop' = [Drawn EXCEPT !.timeWas = FALSE]
  /\ UNCHANGED last

DrawClock ==
  /\ Drawing /\ loop.snap.mode = "clock"
  /\ IF timeOk THEN ClockDraws ELSE ClockDark

\* The date, the followers and the weather compare what they drew with what they
\* would; the weather compares the temperature, whatever its panel shows.
Differs(mode) == CASE mode = "date" -> last.day # data.day
                   [] mode = "social" -> last.count # data.count
                   [] mode = "weather" -> last.temp # data.temp
                   [] OTHER -> FALSE

\* A moving sky is drawn before the comparison: the date and the followers of the last one.
Before(mode) == CASE mode = "date" -> last.day
                  [] mode = "social" -> last.count
                  [] OTHER -> Shown(mode, loop.panel, Colon)

Noted(mode) == CASE mode = "date" -> [last EXCEPT !.day = data.day, !.now = now]
                 [] mode = "social" -> [last EXCEPT !.count = data.count]
                 [] mode = "weather" -> [last EXCEPT !.temp = data.temp]
                 [] OTHER -> last

\* The panels of the weather and the slides of the album turn when their time is
\* over; the spectrum is drawn in every iteration.
DrawReadings(due) ==
  /\ Drawing /\ loop.snap.mode # "clock"
  /\ LET c == loop.snap
         turn == due /\ ~loop.turned /\ c.mode = "weather" /\ data.temp # 0 /\ ~Fresh /\ ~loop.theme
         panel == IF turn THEN CHOOSE p \in Panels : p # loop.panel ELSE loop.panel
         draws == \/ Anew \/ Differs(c.mode) \/ turn \/ c.mode = "spectrum" \/ (due /\ c.mode = "album")
                  \/ loop.style /\ c.mode \in Comparing
     IN /\ tubes' = CASE Moving /\ ~Fresh /\ c.mode \in Comparing ->
                           Draw([t \in Tubes |-> Face(c, loop.panel, Before(c.mode))])
                      [] draws /\ ~(Moving /\ ~Fresh /\ c.mode \in Comparing) -> Draw(FaceNow(c, panel))
                      [] OTHER -> tubes
        /\ last' = IF draws THEN Noted(c.mode) ELSE last
        /\ loop' = [Drawn EXCEPT !.panel = panel, !.turned = turn, !.scene = @ \/ (c.theme \in Skies /\ c.mode \in Comparing)]

\* The end of an iteration: what was drawn is remembered, except the style a busy
\* sky was not drawn with; held tubes are painted.
Paint ==
  /\ loop.pc = "paint"
  /\ LET skipped == loop.snap.mode = "clock" /\ loop.snap.theme \in Skies /\ sig.busy
     IN last' = [last EXCEPT !.mode = loop.snap.mode, !.theme = loop.snap.theme,
                             !.style = IF skipped THEN @ ELSE loop.snap.style]
  /\ tubes' = [t \in Tubes |-> IF t \in mask THEN Held ELSE tubes[t]]
  /\ loop' = EndTick([loop EXCEPT !.first = FALSE, !.early = loop.held = {} /\ mask # {}])
  /\ UNCHANGED <<confVars, world, over, lamp, lost>>

-----------------------------------------------------------------------------
(* What happens around the loop *)

\* One setting changes.
Edits(c) ==
  {[c EXCEPT !.mode = m] : m \in Modes} \union {[c EXCEPT !.theme = t] : t \in Themes}
  \union {[c EXCEPT !.style = 1 - @], [c EXCEPT !.fmt = 1 - @],
          [c EXCEPT !.light = ~@], [c EXCEPT !.bright = 3 - @]}

\* Settings are copied at the top and compared with the copy in Flags: a change at
\* another point is one at the next top.
Readable == loop.pc \in {"top", "flags"}

loopVars == <<loop, last, tubes, lamp, lost>>

\* api_post_settings: the busy hint, the change, the end of the hint and a repaint;
\* new tube offsets ask for a full one.
PostHint ==
  /\ post = "none" /\ Within(1)
  /\ post' = "hinted" /\ sig' = [sig EXCEPT !.busy = TRUE]
  /\ UNCHANGED <<conf, now, data, timeOk, mask, over, loopVars>>

PostStore ==
  /\ post = "hinted" /\ Readable
  /\ post' = "stored" /\ conf' \in Edits(conf)
  /\ UNCHANGED <<sig, world, over, loopVars>>

PostMark ==
  /\ post = "stored"
  /\ post' = "none"
  /\ \E offsets \in BOOLEAN : sig' = [sig EXCEPT !.busy = FALSE, !.saved = TRUE, !.full = @ \/ offsets]
  /\ UNCHANGED <<conf, world, over, loopVars>>

\* Home Assistant and the touch buttons change the mode, the theme and the light
\* without a hint and without asking for a repaint.
SetDirectly ==
  /\ Readable /\ Within(1)
  /\ conf' \in {c \in Edits(conf) : c # conf /\ c.style = conf.style /\ c.fmt = conf.fmt}
  /\ UNCHANGED <<sig, post, now, data, timeOk, mask, over, loopVars>>

\* The hint ends by itself after three seconds.
BusyOver ==
  /\ sig.busy /\ sig' = [sig EXCEPT !.busy = FALSE]
  /\ UNCHANGED <<conf, post, world, over, loopVars>>

\* A new day, count, weather or night: they are read once in an iteration.
Reading ==
  /\ loop.pc = "top" /\ Within(1)
  /\ data' \in {[data EXCEPT !.day = 1 - @], [data EXCEPT !.count = 1 - @],
                [data EXCEPT !.wind = 3 - @], [data EXCEPT !.night = ~@]}
               \union {[data EXCEPT !.temp = t] : t \in (0..2) \ {data.temp}}
  /\ UNCHANGED <<confVars, now, timeOk, mask, over, loopVars>>

\* The RTC or NTP gives a time; it is not lost again.
TimeFound ==
  /\ loop.pc = "top" /\ ~timeOk /\ timeOk' = TRUE
  /\ UNCHANGED <<confVars, now, data, mask, events, over, loopVars>>

\* The setup PIN comes and goes, a message arrives, a microphone test begins or ends.
Overlay ==
  /\ loop.pc = "top"
  /\ \/ over.pin /\ over' = [over EXCEPT !.pin = FALSE] /\ Within(0)
     \/ over.mic /\ over' = [over EXCEPT !.mic = FALSE] /\ Within(0)
     \/ ~over.pin /\ over' = [over EXCEPT !.pin = TRUE] /\ Within(1)
     \/ ~over.mic /\ over' = [over EXCEPT !.mic = TRUE] /\ Within(1)
     \/ over' = [over EXCEPT !.ticker = 2] /\ Within(1)
  /\ UNCHANGED <<confVars, now, data, timeOk, mask, loopVars>>

\* A session is started, changed, stopped, or its time is over.
Session ==
  /\ mask' \in SUBSET Tubes \ {mask} /\ Within(IF mask' = {} THEN 0 ELSE 1)
  /\ UNCHANGED <<confVars, now, data, timeOk, over, loopVars>>

\* The scheduled session, started by the loop if none is running.
Schedule ==
  /\ loop.pc = "draw" /\ ~loop.first /\ mask = {} /\ timeOk /\ Within(1)
  /\ mask' \in SUBSET Tubes \ {{}}
  /\ UNCHANGED <<confVars, now, data, timeOk, over, loopVars>>

Iteration ==
  \/ MicTest \/ Flags \/ ShowPin \/ LeavePin \/ ShowTicker \/ DrawClock
  \/ (\E due \in BOOLEAN : DrawReadings(due)) \/ Paint
Outside ==
  \/ PostHint \/ PostStore \/ PostMark \/ SetDirectly \/ BusyOver \/ Reading
  \/ TimeFound \/ Overlay \/ Session \/ Schedule
Next == BootWait \/ Snapshot \/ Iteration \/ Outside

\* A second passes; the weather's panels turn (weather_panel_ms).
Second_ == Snapshot /\ now' # now
Turn == DrawReadings(TRUE)
\* A glide ends (brt_ramp_duration_ms).
Glided == Flags /\ ~lamp'.ramp

Fairness ==
  /\ WF_vars(Iteration) /\ SF_vars(Second_) /\ SF_vars(Turn) /\ SF_vars(Glided)
  /\ SF_vars(PostStore) /\ WF_vars(PostMark) /\ WF_vars(BusyOver)

Spec == Init /\ [][Next]_vars /\ Fairness
=============================================================================
