----------------------------- MODULE FrontPanel -----------------------------
(***************************************************************************)
(* What the clock hears, feels and shows: the microphone's capture and its *)
(* signal path (MicCapture, MicSignal), the touch pads (Touch), the time   *)
(* on the tubes (ClockFace), the sky behind it (LiveSky), the spectrum     *)
(* (Visualizer), the panels beside the custom face (SidePanels), and what  *)
(* turns by itself (Rotations: modes and themes, and the album).  They     *)
(* share nothing but the settings, so a behaviour of this module is one of *)
(* one of them, chosen at the start.                                       *)
(***************************************************************************)
EXTENDS Integers, Sequences, SequencesExt

CONSTANTS
  CalFrames, TraceFrames, Late,
  GateModes, Raws, Phase1, SpikeLo, SpikeHi, GRun, HoldMax, BurstMax, QuietMax,
  Debounce, StuckMax, ComboHold, ComboMiss, Depth, ModeCount,
  Minute, JumpMax, Passes,
  BarTubes, Segs, Levels, HealAfter,
  StaleAfter,
  PanelKinds,
  Heavy, Builtin, Folders, Interval, Pictures, MaxAlbum,
  ChangeMax

\* touch_input.c: a press counts after PRESS_DEBOUNCE samples and is stuck after more,
\* LEFT and RIGHT need a few samples together.  ntp_time.c: an answer can move the clock
\* by a minute and more; display.c: the loop passes five times a second, a rotation is
\* switched off with an interval of 0, the album lists up to ALBUM_MAX pictures; a bar has
\* segments, and the levels of a band and the energies of a frame a highest one;
\* microphone.h:101: a baseline averages more than one frame; microphone.c:479-480: SPIKE_LO
\* is below SPIKE_HI.
ASSUME FrontPanelAssumption ==
  /\ Debounce \in Nat \ {0} /\ StuckMax \in Nat /\ StuckMax >= Debounce
  /\ ComboHold \in Nat \ {0} /\ ComboMiss \in Nat
  /\ Minute \in Nat \ {0} /\ JumpMax \in Nat /\ JumpMax >= Minute
  /\ Passes \in Nat /\ Passes >= 2 /\ Interval \in Nat
  /\ Segs \in Nat \ {0} /\ Levels \subseteq Nat /\ \E k \in Levels : k > 0 /\ \A l \in Levels : l <= k
  /\ HealAfter \in Nat /\ StaleAfter \in Nat
  /\ CalFrames \in Nat /\ CalFrames >= 2
  /\ Raws \subseteq Nat /\ \E k \in Raws : \A r \in Raws : r <= k
  /\ Phase1 \in Nat /\ SpikeLo \in Nat /\ SpikeHi \in Nat /\ SpikeLo <= SpikeHi
  /\ GRun \in Nat /\ HoldMax \in Nat /\ BurstMax \in Nat /\ QuietMax \in Nat
  /\ IsFiniteSet(Pictures) /\ MaxAlbum \in Nat

VARIABLES
  part,
  use, want, holding, test, task, acq, layout, cal, base, stored, dump, trace, http,
  gmode, calWanted, floor, smooth, spike, gate, burst, levels, heard,
  fingers, pad, combo, queue, hand, shown,
  face, valid, known, drawn, forced, passes, calm, jumped,
  look, strip, shift, off, held, step, force, style, peaks, bars, scope, memory, full, margin,
  glass, intended, missed, changes,
  tube, scene, phase, again, cursor, col, kept, ram, prev, cache, busy, bar, barWas,
  pixels, aim, sent, idle, toggles, edits,
  on, dual, have, image, minute, kick, masked, pc, turn, kindWas, pane, fresh, moved,
  now, turning, chosen, installed, pause, marked, at, copy, changed, seen, since, age,
  files, web, scan, album, tubes, lost, count

Mic == INSTANCE MicCapture WITH held <- holding, saved <- stored
Signal == INSTANCE MicSignal WITH Modes <- GateModes, cal <- calWanted, bars <- levels, seen <- heard
Pads == INSTANCE Touch
Face == INSTANCE ClockFace WITH clock <- drawn, seen <- known
Vis == INSTANCE Visualizer WITH want <- intended
Sky == INSTANCE LiveSky
Side == INSTANCE SidePanels WITH Kinds <- PanelKinds
Turns == INSTANCE Rotations

\* QuietMax frames of silence are enough: `frames' bounds how many frames a level takes to
\* fall to 1 when each halving is put off by BurstMax frames, then the peak falls by one
\* in each.
ASSUME SilenceAssumption ==
  /\ Signal!Top >= 2
  /\ \E frames \in [0..Signal!Top -> 0..QuietMax] :
       /\ \A x \in 2..Signal!Top : frames[x] >= frames[x \div 2] + BurstMax + 1
       /\ \A x \in 0..Signal!Top : frames[x] <= frames[Signal!Top]
       /\ QuietMax >= frames[Signal!Top] + Signal!Top - 1

micVars == <<use, want, holding, test, task, acq, layout, cal, base, stored, dump, trace, http>>
signalVars == <<gmode, calWanted, floor, smooth, spike, gate, burst, levels, heard>>
touchVars == <<fingers, pad, combo, queue, hand, shown>>
faceVars == <<face, valid, known, drawn, forced, passes, calm, jumped>>
visVars == <<look, strip, shift, off, held, step, force, style, peaks, bars, scope, memory, full, margin,
             glass, intended, missed, changes>>
skyVars == <<tube, scene, phase, again, cursor, col, kept, ram, prev, cache, busy, bar, barWas,
             pixels, aim, sent, idle, toggles, edits>>
panelVars == <<on, dual, have, image, minute, kick, masked, pc, turn, kindWas, pane, fresh, moved>>
rotationVars == <<now, turning, chosen, installed, pause, marked, at, copy, changed, seen, since, age,
                  files, web, scan, album, tubes, lost, count>>
vars == <<part, micVars, signalVars, touchVars, faceVars, visVars, skyVars, panelVars, rotationVars>>

Parts == {"mic", "signal", "touch", "face", "bars", "sky", "panels", "timers", "album"}

\* Only the part that runs is given more than one initial state.
Init ==
  /\ part \in Parts
  /\ Mic!Init /\ Signal!Init /\ Pads!Init /\ Face!Init /\ Vis!VisInit /\ Sky!SkyInit
  /\ Side!PanelsInit /\ Turns!RotationsInit
  /\ part = "mic" \/ use = "capture"
  /\ part = "signal" \/ gmode = CHOOSE m \in GateModes : TRUE
  /\ part = "touch" \/ fingers = {"middle"}
  /\ part = "face" \/ face = [type |-> "24H", flip |-> FALSE, dual |-> FALSE, anim |-> FALSE]
  /\ part = "bars" \/ look.style = 0
  /\ part = "sky" \/ (tube = "last" /\ scene = [face |-> "live", layout |-> "colon", colour |-> 0])
  /\ part = "panels" \/ ~dual
  /\ part = "timers" \/ chosen = {}
  /\ part = "album" \/ files = {}

MicPart == part = "mic" /\ Mic!Next
           /\ UNCHANGED <<signalVars, touchVars, faceVars, visVars, skyVars, panelVars, rotationVars>>
SignalPart == part = "signal" /\ Signal!Next
              /\ UNCHANGED <<micVars, touchVars, faceVars, visVars, skyVars, panelVars, rotationVars>>
TouchPart == part = "touch" /\ Pads!Next
             /\ UNCHANGED <<micVars, signalVars, faceVars, visVars, skyVars, panelVars, rotationVars>>
FacePart == part = "face" /\ Face!Next
            /\ UNCHANGED <<micVars, signalVars, touchVars, visVars, skyVars, panelVars, rotationVars>>
BarsPart == part = "bars" /\ Vis!VisNext
            /\ UNCHANGED <<micVars, signalVars, touchVars, faceVars, skyVars, panelVars, rotationVars>>
SkyPart == part = "sky" /\ Sky!SkyNext
           /\ UNCHANGED <<micVars, signalVars, touchVars, faceVars, visVars, panelVars, rotationVars>>
PanelsPart == part = "panels" /\ Side!PanelsNext
              /\ UNCHANGED <<micVars, signalVars, touchVars, faceVars, visVars, skyVars, rotationVars>>
TimersPart == part = "timers" /\ Turns!TimersNext
              /\ UNCHANGED <<micVars, signalVars, touchVars, faceVars, visVars, skyVars, panelVars>>
AlbumPart == part = "album" /\ Turns!AlbumNext
             /\ UNCHANGED <<micVars, signalVars, touchVars, faceVars, visVars, skyVars, panelVars>>

Next ==
  /\ UNCHANGED part
  /\ MicPart \/ SignalPart \/ TouchPart \/ FacePart
     \/ BarsPart \/ SkyPart \/ PanelsPart \/ TimersPart \/ AlbumPart

Spec == Init /\ [][Next]_vars

-----------------------------------------------------------------------------
\* microphone.h:104 and microphone.c:431-439, 837-849: a calibration that reports
\* success averaged frames of its own request, the frames analysed come from the
\* channel the settings name, and an exported frame is one frame; microphone.c:334-339
\* and 984-988: sustained sound never drags the noise floor above twice what it was
\* learned at, no guard keeps sound out for good, and the bars of a silent room go dark.
MicHonest ==
  /\ part = "mic" => Mic!BaselineHonest /\ Mic!ChannelConverted /\ Mic!ExportsWhole
  /\ part = "signal" => Signal!GuardsBounded /\ Signal!SilenceDarkens

\* touch_input.c:149, 184: one event per physical press, however long the pad is held
\* and whatever readings fail, and one call per sustained hold of LEFT and RIGHT.
OncePerTouch == part = "touch" => Pads!OncePerTouch

\* display.c:12294-12301, 12323-12328: whatever the face and however the clock is set,
\* no tube counts backwards and the tubes soon show the minute of the system clock; the
\* faces that are redrawn once in a minute only are excepted from the first.
TubesTellTime == part = "face" => Face!NeverRewinds /\ Face!MinuteShown

\* display.c:8747-8750, 9161-9167: drawing only the segments and rows that differ shows
\* what drawing all of them would, in its place and with nothing of another mode beside
\* it; what was painted behind the renderer's back is whole after SPEC_FULL_REFRESH_MS.
\* display.c:5902-5905: the same of the rows of a sky, after WL_DIRTY_STALE_US.
TubesExact ==
  /\ part = "bars" => Vis!TubesExact
  /\ part = "sky" => Sky!RowsExact

\* display.c:12490-12517, 9191-9225: the panels beside the clock show what they would if
\* they were drawn at every iteration, with the last picture pushed to them, and the
\* album's list is that of its files.
PagesCurrent ==
  /\ part = "panels" => Side!PanelsShown
  /\ part = "album" => Turns!AlbumCurrent

\* display.c:11710-11717, 11726-11732, 11749-11756: a rotation never cuts short a mode
\* or a theme that has come up, or the first one after it was switched on or resumed.
DwellKept == Turns!DwellKept
=============================================================================
