------------------------------ MODULE ClockFace ------------------------------
(***************************************************************************)
(* Which time the clock mode of display.c puts on the tubes: the loop      *)
(* samples the system clock five times a second, follows a step of it one  *)
(* second per pass, holds when it was set back, and redraws only when what *)
(* the face shows has changed.  How the system clock is set is in          *)
(* TimeKeeping.                                                            *)
(*                                                                         *)
(* Times are relative: "ahead" is the system clock less the time last      *)
(* drawn, "second" the drawn time within its minute.                       *)
(* A definition named Slip... is a plausible wrong version of the one that *)
(* follows it.                                                             *)
(***************************************************************************)
EXTENDS Integers

CONSTANTS
  Minute,   \* seconds in a minute
  JumpMax,  \* the most seconds an NTP answer moves the system clock
  Passes    \* passes of the loop in a second

VARIABLES
  face,     \* time_type, FlipClock, cx_dual_panel, and whether the face is animated
  valid,    \* ntp_has_valid_time and ntp_time_synced
  seen,     \* last_time_valid and last_ntp_synced
  clock,    \* ahead, second, and whether last_display_epoch is 0
  forced,   \* what the next pass redraws for: "mode" and "theme" changes also end the
            \* smoothing, a "layout" change does not
  passes,   \* of the loop since the last second
  calm,     \* history: whole seconds without a change of clock or face, up to CalmMax
  jumped    \* history: the drawn time has gone back since the last change or first sync

faceVars == <<face, valid, seen, clock, forced, passes, calm, jumped>>

Faces == [type : {"24H", "24H_NS", "24H_CX"}, flip : BOOLEAN, dual : BOOLEAN, anim : BOOLEAN]
Spread == JumpMax + Minute
CalmMax == JumpMax

Init ==
  /\ face \in {f \in Faces : ~(f.flip /\ f.anim)}
  /\ valid = [time |-> FALSE, ntp |-> FALSE] /\ seen = [time |-> FALSE, ntp |-> FALSE]
  /\ clock = [ahead |-> 0, second |-> 0, none |-> TRUE]
  /\ forced = "mode" /\ passes = 0 /\ calm = 0 /\ jumped = FALSE

-----------------------------------------------------------------------------
NoSec == face.type \in {"24H_NS", "24H_CX"}
DualCx == face.type = "24H_CX" /\ face.dual
NosecFlip == face.flip /\ NoSec

\* A step is smoothed except on the faces that are redrawn once in a minute only.
Smoothed(none) == ~none /\ forced \notin {"mode", "theme"} /\ ~DualCx /\ ~NosecFlip

\* How far the time to draw is ahead of the time last drawn.
SlipHeld(d) == d
Held(d) == IF d < 0 THEN 0 ELSE d
Advance(none) ==
  IF ~Smoothed(none) THEN clock.ahead
  ELSE IF clock.ahead > 1 THEN 1 ELSE Held(clock.ahead)

\* Time within the drawn minute: another minute, or another second.
MinuteOf(d) == (clock.second + d) \div Minute
TimeChanged(d) == IF NoSec THEN MinuteOf(d) # 0 ELSE d # 0
ColonChanged(d) == ~face.flip /\ ~DualCx /\ d # 0

\* A pass in clock mode, with valid time: the first valid time and the first NTP sync
\* empty last_display_epoch before the time is drawn.
Pass ==
  /\ valid.time /\ passes < Passes /\ passes' = passes + 1
  /\ seen' = [time |-> TRUE, ntp |-> valid.ntp]
  /\ LET none == clock.none \/ ~seen.time \/ (valid.ntp /\ ~seen.ntp)
         d == Advance(none)
         draw == face.anim \/ forced # "no" \/ TimeChanged(d) \/ ColonChanged(d)
     IN /\ clock' = IF draw
                      THEN [ahead |-> clock.ahead - d, second |-> (clock.second + d) % Minute, none |-> FALSE]
                      ELSE [clock EXCEPT !.none = none]
        /\ jumped' = (draw /\ d < 0 /\ ~none /\ forced \notin {"mode", "theme"})
  /\ forced' = "no"
  /\ UNCHANGED <<face, valid, calm>>

\* Without valid time the tubes are black.
BlankPass ==
  /\ ~valid.time /\ (seen.time \/ forced # "no")
  /\ seen' = [seen EXCEPT !.time = FALSE] /\ forced' = "no" /\ jumped' = FALSE
  /\ UNCHANGED <<face, valid, clock, passes, calm>>

\* A second passes; the loop runs several times in it.
Second ==
  /\ valid.time /\ passes = Passes /\ passes' = 0
  /\ clock' = [clock EXCEPT !.ahead = @ + 1] /\ clock.ahead < Spread
  /\ calm' = IF calm < CalmMax THEN calm + 1 ELSE calm
  /\ UNCHANGED <<face, valid, seen, forced, jumped>>

\* The clock is seeded, set by the first answer, or moved by a later one.
SetClock ==
  /\ \/ ~valid.time /\ \E ntp \in BOOLEAN : valid' = [time |-> TRUE, ntp |-> ntp]
     \/ valid.time /\ valid' = [valid EXCEPT !.ntp = TRUE]
  /\ \E ahead \in -JumpMax..JumpMax : clock' = [clock EXCEPT !.ahead = ahead]
  /\ calm' = 0
  /\ UNCHANGED <<face, seen, forced, passes, jumped>>

\* The settings change: another theme, another layout, or anything else (a save).
ChangeFace(to) ==
  /\ ~(to.flip /\ to.anim) /\ face' = to
  /\ forced' = IF forced = "mode" \/ to = face THEN "mode"
               ELSE IF forced = "theme" \/ to.flip # face.flip \/ to.anim # face.anim THEN "theme" ELSE "layout"
  /\ clock' = IF forced' = "mode" THEN [clock EXCEPT !.none = TRUE] ELSE clock
  /\ jumped' = FALSE /\ calm' = 0
  /\ UNCHANGED <<valid, seen, passes>>

Change == \E to \in Faces : ChangeFace(to)

Next == Pass \/ BlankPass \/ Second \/ SetClock \/ Change

Spec == Init /\ [][Next]_faceVars

-----------------------------------------------------------------------------
TypeOk ==
  /\ face \in Faces /\ clock.second \in 0..Minute - 1 /\ clock.ahead \in -Spread..Spread
  /\ forced \in {"no", "mode", "theme", "layout"} /\ passes \in 0..Passes

\* display.c:12301: no tube ever shows a decreasing digit when the clock is set back,
\* outside the faces without seconds that are not smoothed.
NeverRewinds == jumped => DualCx \/ NosecFlip

\* display.c:12294-12300, 12323-12328: whatever the face and however the clock was set, the
\* tubes show the minute of the system clock as soon as clock and face have been left
\* alone for as many seconds as the clock can jump: the hold ends, the smoothing catches
\* up, and no face freezes.  (A change from a face without seconds to one with them
\* starts from the last drawn minute and is smoothed as well.)
MinuteShown ==
  valid.time /\ passes = Passes /\ calm = CalmMax => MinuteOf(clock.ahead) = 0
=============================================================================
