--------------------------- MODULE FrontPanel_proofs ---------------------------
(***************************************************************************)
(* Proofs about what the clock feels and shows (FrontPanel), for any       *)
(* debounce, length of a minute, interval, panels, pictures, tubes,        *)
(* segments, levels and times of a full repaint.                           *)
(*                                                                         *)
(* Each property is of one part, and a step of another part leaves it      *)
(* alone.  TouchInv says how many events a press under way has sent and    *)
(* what its counters can be (PadOk), so that the stuck-pad recovery cannot *)
(* send it again; TurnInv keeps the age of what is shown beside the        *)
(* baseline the loop measures it from; FaceInv says how far the drawn time *)
(* may lag and that it catches up in Passes; PanelInv and AlbumInv say     *)
(* what the loop still owes the tubes and the list between the mark and    *)
(* the drawing.  VisInv and SkyInv relate what a renderer believes it has  *)
(* painted to what is on the glass, which is what makes painting only the  *)
(* differences right.  SignalInv bounds what the microphone's guards and   *)
(* averages can be in silence, and MicInv says who holds each request of   *)
(* the web server's at every step of the two tasks.                        *)
(***************************************************************************)
EXTENDS FrontPanel, FiniteSetTheorems, SequenceTheorems, TLAPS

-----------------------------------------------------------------------------
(* The touch pads *)

Keys == [seeded : BOOLEAN, was : BOOLEAN, stuck : 0..StuckMax, deb : 0..Debounce, armed : BOOLEAN,
         raw : BOOLEAN, run : 0..Debounce, sent : 0..1]

Sent(p) == p.sent = IF p.run >= Debounce THEN 1 ELSE 0

\* An armed pad has counted every sample of the touch, and its event is out once it
\* has counted enough of them; a pad that was stuck has had its event.
PadOk(p) ==
  /\ Sent(p)
  /\ p.armed => p.run = p.deb /\ p.deb = Pads!Cap(p.stuck, Debounce) /\ (p.was <=> p.deb >= Debounce)
  /\ ~p.armed => p.run = Debounce

ComboOk ==
  /\ combo \in [n : 0..ComboHold, miss : 0..ComboMiss, fired : BOOLEAN, calls : 0..2]
  /\ combo.calls = (IF combo.n >= ComboHold THEN 1 ELSE 0)
  /\ combo.fired <=> combo.n >= ComboHold

TouchInv ==
  /\ fingers \subseteq Pads!Pads
  /\ pad \in [Pads!Pads -> Keys] /\ \A i \in Pads!Pads : PadOk(pad[i])
  /\ ComboOk

LEMMA Zeros ==
  /\ 0 \in 0..StuckMax /\ 0 \in 0..Debounce /\ 0 \in 0..1 /\ 1 \in 0..1
  /\ TRUE \in BOOLEAN /\ FALSE \in BOOLEAN /\ Debounce \in Nat /\ Debounce > 0
BY FrontPanelAssumption

LEMMA PressedOk ==
  ASSUME NEW p \in Keys, PadOk(p)
  PROVE  Pads!Pressed(p) \in Keys /\ PadOk(Pads!Pressed(p))
<1>1. PICK deb \in 0..Debounce : deb = Pads!Cap(p.deb + 1, Debounce)
  BY FrontPanelAssumption DEF Pads!Cap, Keys
<1>2. PICK run \in 0..Debounce : run = Pads!Cap(p.run + 1, Debounce)
  BY FrontPanelAssumption DEF Pads!Cap, Keys
<1>3. PICK was \in BOOLEAN : was = (deb >= Debounce)
  <2> WITNESS (deb >= Debounce) \in BOOLEAN
  <2> QED OBVIOUS
<1>4. CASE Pads!Stuck(p)
  <2>1. p.stuck = StuckMax
    BY <1>4, FrontPanelAssumption DEF Pads!Stuck, Keys
  <2>2. p.run = Debounce /\ p.sent = 1
    BY <2>1, FrontPanelAssumption DEF PadOk, Sent, Pads!Cap, Keys
  <2>3. Pads!Pressed(p) = [p EXCEPT !.raw = TRUE, !.was = was, !.stuck = 0, !.deb = 0, !.armed = FALSE,
                                    !.run = run, !.sent = 1]
    BY <1>1, <1>2, <1>3, <1>4, <2>2 DEF Pads!Pressed, Pads!Disarmed
  <2>4. run = Debounce
    BY <1>2, <2>2, FrontPanelAssumption DEF Pads!Cap
  <2>5. PICK q : q = Pads!Pressed(p)
    OBVIOUS
  <2>6. q \in Keys
    BY <2>3, <2>5, Zeros DEF Keys
  <2>7. q.run = Debounce /\ q.sent = 1 /\ q.armed = FALSE
    BY <2>3, <2>4, <2>5, FrontPanelAssumption DEF Keys
  <2> QED BY <2>7, <2>5, <2>6, FrontPanelAssumption DEF PadOk, Sent
<1>5. CASE ~Pads!Stuck(p)
  <2>1. PICK out \in 0..1 : out = p.sent + (IF deb >= Debounce /\ ~p.was /\ p.armed THEN 1 ELSE 0)
    BY <1>1, FrontPanelAssumption DEF PadOk, Sent, Keys
  <2>2. PICK stuck \in 0..StuckMax : stuck = p.stuck + 1
    BY <1>5, FrontPanelAssumption DEF Pads!Stuck, Keys
  <2>3. Pads!Pressed(p) = [p EXCEPT !.raw = TRUE, !.was = was, !.stuck = stuck, !.deb = deb,
                                    !.run = run, !.sent = out]
    BY <1>1, <1>2, <1>3, <1>5, <2>1, <2>2 DEF Pads!Pressed
  <2>4. PICK q : q = Pads!Pressed(p)
    OBVIOUS
  <2>5. /\ q \in Keys /\ q.was = was /\ q.stuck = stuck /\ q.deb = deb /\ q.run = run /\ q.sent = out
        /\ q.armed = p.armed
    BY <2>3, <2>4 DEF Keys
  <2>. /\ Debounce \in Nat \ {0} /\ p.deb \in Int /\ p.run \in Int /\ p.stuck \in Int /\ p.sent \in Int
    BY FrontPanelAssumption DEF Keys
  <2>6. ASSUME p.armed PROVE PadOk(q)
    BY <1>1, <1>2, <1>3, <2>1, <2>2, <2>5, <2>6, FrontPanelAssumption DEF PadOk, Sent, Pads!Cap, Keys
  <2>7. ASSUME ~p.armed PROVE PadOk(q)
    BY <1>2, <2>1, <2>5, <2>7, FrontPanelAssumption DEF PadOk, Sent, Pads!Cap, Keys
  <2> QED BY <2>4, <2>5, <2>6, <2>7
<1> QED BY <1>4, <1>5

LEMMA SampledOk ==
  ASSUME NEW p \in Keys, PadOk(p), NEW reading \in {"fail", "idle", "touch"}
  PROVE  Pads!Sampled(p, reading) \in Keys /\ PadOk(Pads!Sampled(p, reading))
<1>1. [p EXCEPT !.raw = FALSE] \in Keys /\ PadOk([p EXCEPT !.raw = FALSE])
  BY DEF Keys, PadOk, Sent
<1>2. PICK r : r = [Pads!Released(p) EXCEPT !.seeded = TRUE]
  OBVIOUS
<1>3. PICK l : l = Pads!Released(p)
  OBVIOUS
<1>4. /\ l \in Keys /\ l.run = 0 /\ l.deb = 0 /\ l.stuck = 0 /\ l.sent = 0
      /\ l.was = FALSE /\ l.armed = TRUE
  BY <1>3, Zeros DEF Pads!Released, Keys
<1>5. /\ r \in Keys /\ r.run = l.run /\ r.deb = l.deb /\ r.stuck = l.stuck /\ r.sent = l.sent
      /\ r.was = l.was /\ r.armed = l.armed
  BY <1>2, <1>3, <1>4, Zeros DEF Keys
<1>6. r.armed /\ ~r.was
  BY <1>4, <1>5, Zenon
<1>7. PadOk(r)
  BY <1>4, <1>5, <1>6, Zeros DEF PadOk, Sent, Pads!Cap
<1> QED BY <1>1, <1>2, <1>5, <1>7, PressedOk DEF Pads!Sampled

LEMMA ComboStep ==
  ASSUME ComboOk, combo' \in {Pads!Together(combo), Pads!Missed(combo)}
  PROVE  ComboOk'
<1>1. PICK n \in 0..ComboHold : n = Pads!Cap(combo.n + 1, ComboHold)
  BY FrontPanelAssumption DEF ComboOk, Pads!Cap
<1>2. CASE combo' = Pads!Together(combo)
  <2>1. PICK fired \in BOOLEAN : fired = (combo.fired \/ (n >= ComboHold /\ ~combo.fired))
    <3> WITNESS (combo.fired \/ (n >= ComboHold /\ ~combo.fired)) \in BOOLEAN
    <3> QED OBVIOUS
  <2>2. PICK calls \in 0..2 : calls = Pads!Cap(combo.calls + (IF n >= ComboHold /\ ~combo.fired THEN 1 ELSE 0), 2)
    BY DEF ComboOk, Pads!Cap
  <2>3. combo' = [n |-> n, miss |-> 0, fired |-> fired, calls |-> calls]
    BY <1>1, <1>2, <2>1, <2>2 DEF Pads!Together, Pads!OnceFired
  <2>4. fired <=> n >= ComboHold
    <3>1. combo.n >= ComboHold => n >= ComboHold
      BY <1>1, FrontPanelAssumption DEF ComboOk, Pads!Cap
    <3>2. (combo.fired <=> combo.n >= ComboHold)
      BY DEF ComboOk
    <3> QED BY <2>1, <3>1, <3>2, Zenon
  <2>5. calls = (IF n >= ComboHold THEN 1 ELSE 0)
    BY <1>1, <2>2, FrontPanelAssumption DEF ComboOk, Pads!Cap
  <2> QED BY <2>3, <2>4, <2>5, FrontPanelAssumption DEF ComboOk
<1>3. CASE combo' = Pads!Missed(combo)
  BY <1>3, FrontPanelAssumption DEF ComboOk, Pads!Missed
<1> QED BY <1>2, <1>3

LEMMA TouchInit == Init => TouchInv
<1> SUFFICES ASSUME Init PROVE TouchInv
  OBVIOUS
<1>1. Pads!Init
  BY DEF Init
<1>2. [seeded |-> FALSE, was |-> FALSE, stuck |-> 0, deb |-> 0, armed |-> TRUE, raw |-> FALSE, run |-> 0, sent |-> 0]
        \in Keys
  BY FrontPanelAssumption DEF Keys
<1>3. pad \in [Pads!Pads -> Keys] /\ \A i \in Pads!Pads : PadOk(pad[i])
  BY <1>1, <1>2, FrontPanelAssumption DEF Pads!Init, PadOk, Sent, Pads!Cap
<1>4. ComboOk
  BY <1>1, FrontPanelAssumption DEF Pads!Init, ComboOk
<1> QED BY <1>1, <1>3, <1>4 DEF TouchInv, Pads!Init, Pads!Pads

LEMMA TouchStep == TouchInv /\ [Next]_vars => TouchInv'
<1> SUFFICES ASSUME TouchInv, [Next]_vars PROVE TouchInv'
  OBVIOUS
<1>1. CASE Pads!Poll
  <2>1. fingers' = fingers
    BY <1>1 DEF Pads!Poll
  <2>2. PICK reading \in [fingers -> {"fail", "idle", "touch"}] :
          pad' = [i \in Pads!Pads |-> IF i \in fingers THEN Pads!Sampled(pad[i], reading[i]) ELSE pad[i]]
    BY <1>1 DEF Pads!Poll
  <2>3. ASSUME NEW i \in Pads!Pads
        PROVE  pad'[i] \in Keys /\ PadOk(pad'[i])
    BY <2>2, SampledOk DEF TouchInv
  <2>4. pad' \in [Pads!Pads -> Keys] /\ \A i \in Pads!Pads : PadOk(pad'[i])
    BY <2>2, <2>3
  <2>5. ComboOk'
    BY <1>1, ComboStep DEF Pads!Poll, TouchInv
  <2> QED BY <2>1, <2>4, <2>5 DEF TouchInv
<1>2. CASE UNCHANGED <<fingers, pad, combo>>
  BY <1>2 DEF TouchInv, ComboOk
<1>3. Pads!Poll \/ UNCHANGED <<fingers, pad, combo>>
  BY DEF Next, vars, MicPart, SignalPart, TouchPart, FacePart, BarsPart, SkyPart, PanelsPart, TimersPart, AlbumPart,
     touchVars, Pads!Next, Pads!Receive, Pads!Answer, Pads!Save
<1> QED BY <1>1, <1>2, <1>3

\* touch_input.c:149, 184: for any debounce, any combination of failed readings and
\* however long a pad is held, stuck and recovered, a physical press is one event, and
\* a sustained hold of LEFT and RIGHT one call.
THEOREM OneEventPerTouch == Spec => []OncePerTouch
<1>1. Init => TouchInv
  BY TouchInit
<1>2. TouchInv /\ [Next]_vars => TouchInv'
  BY TouchStep
<1>3. TouchInv => OncePerTouch
  BY DEF TouchInv, ComboOk, PadOk, Sent, OncePerTouch, Pads!OncePerTouch
<1> QED BY <1>1, <1>2, <1>3, PTL DEF Spec

-----------------------------------------------------------------------------
(* The rotations *)

\* The rotation of k was on, and not paused, when the loop last looked.
Turned(k) == seen.on[k] /\ (k = "mode" => ~seen.paused)

\* Then its clock runs from no earlier than what it times has had the tubes, unless the
\* loop has just seen a change, which sets the clock anew.
TurnInv ==
  /\ since \in [Turns!Kinds -> 0..Turns!Longest] /\ age \in [Turns!Kinds -> 0..Turns!Longest]
  /\ seen.on \in [Turns!Kinds -> BOOLEAN] /\ turning \in [Turns!Kinds -> BOOLEAN]
  /\ \A k \in Turns!Kinds : Turned(k) /\ ~(at = "rotate" /\ changed[k]) => since[k] <= age[k]

LEMMA Later ==
  ASSUME NEW m \in 0..Turns!Longest, NEW n \in 0..Turns!Longest
  PROVE  Turns!Up(n) \in 0..Turns!Longest /\ (m <= n => Turns!Up(m) <= Turns!Up(n))
BY FrontPanelAssumption DEF Turns!Up, Turns!Longest

LEMMA TopStep ==
  ASSUME TurnInv, Turns!Top
  PROVE  TurnInv'
<1>1. since' \in [Turns!Kinds -> 0..Turns!Longest]
  BY Later DEF TurnInv, Turns!Top
<1>2. 0 \in 0..Turns!Longest
  BY FrontPanelAssumption DEF Turns!Longest
<1>3. age' \in [Turns!Kinds -> 0..Turns!Longest]
  BY <1>2, Later DEF TurnInv, Turns!Top
<1>4. seen'.on = seen.on /\ seen'.paused = seen.paused /\ turning' = turning /\ at' = "rotate"
  BY DEF Turns!Top
<1>5. ASSUME NEW k \in Turns!Kinds, Turned(k)', ~changed'[k]
      PROVE  since'[k] <= age'[k]
  <2>0. Turned(k)
    BY <1>4, <1>5 DEF Turned
  <2>1. now[k] = seen[k]
    <3>1. CASE k = "mode"
      BY <1>5, <3>1 DEF Turns!Top
    <3>2. CASE k = "theme"
      BY <1>5, <3>2 DEF Turns!Top
    <3> QED BY <3>1, <3>2 DEF Turns!Kinds
  <2>2. since[k] <= age[k]
    BY <2>0 DEF TurnInv, Turns!Top
  <2>3. since'[k] = Turns!Up(since[k]) /\ age'[k] = Turns!Up(age[k])
    BY <2>1 DEF Turns!Top
  <2>4. since[k] \in 0..Turns!Longest /\ age[k] \in 0..Turns!Longest
    BY DEF TurnInv
  <2> QED BY <2>2, <2>3, <2>4, Later
<1> QED BY <1>1, <1>3, <1>4, <1>5 DEF TurnInv

LEMMA Due ==
  ASSUME TurnInv, at = "rotate", NEW k \in Turns!Kinds, turning[k],
         k = "mode" => pause = 0
  PROVE  0 <= age[k] /\ Turns!Baseline(k) <= age[k]
<1>1. age[k] \in 0..Turns!Longest /\ since[k] \in 0..Turns!Longest
  BY DEF TurnInv
<1>2. CASE Turns!Resumed(k) \/ changed[k]
  BY <1>1, <1>2, FrontPanelAssumption DEF Turns!Baseline, Turns!Longest
<1>3. CASE ~Turns!Resumed(k) /\ ~changed[k]
  <2>1. Turned(k)
    BY <1>3 DEF Turned, Turns!Resumed
  <2>2. since[k] <= age[k]
    BY <1>3, <2>1 DEF TurnInv
  <2> QED BY <1>1, <1>3, <2>2, FrontPanelAssumption DEF Turns!Baseline, Turns!Longest
<1> QED BY <1>2, <1>3

LEMMA RotateStep ==
  ASSUME TurnInv, Turns!Rotate
  PROVE  /\ TurnInv'
         /\ \A k \in Turns!Kinds : now'[k] # now[k] => age[k] >= Turns!Dwell(k)
<1>1. at = "rotate" /\ at' = "top" /\ 0 \in 0..Turns!Longest
  BY FrontPanelAssumption DEF Turns!Rotate, Turns!Longest
<1>2. ASSUME NEW k \in Turns!Kinds
      PROVE  Turns!Baseline(k) \in 0..Turns!Longest /\ age[k] \in 0..Turns!Longest
  BY <1>1 DEF TurnInv, Turns!Baseline
<1>3. since' \in [Turns!Kinds -> 0..Turns!Longest] /\ age' \in [Turns!Kinds -> 0..Turns!Longest]
  BY <1>1, <1>2 DEF Turns!Rotate
<1>5. seen'.on = turning /\ seen'.paused = (pause # 0) /\ turning' = turning
  BY DEF Turns!Rotate
<1>6. ASSUME NEW k \in Turns!Kinds, Turned(k)'
      PROVE  since'[k] <= age'[k]
  <2>1. turning[k] /\ (k = "mode" => pause = 0)
    BY <1>5, <1>6 DEF Turned
  <2>2. age'[k] = age[k] /\ since'[k] = IF Turns!Fires(k) THEN 0 ELSE Turns!Baseline(k)
    BY <2>1 DEF Turns!Rotate
  <2> QED BY <1>1, <2>1, <2>2, Due
<1>7. ASSUME NEW k \in Turns!Kinds, now'[k] # now[k]
      PROVE  age[k] >= Turns!Dwell(k)
  <2>1. Turns!Fires(k)
    <3>1. CASE k = "mode"
      BY <1>7, <3>1 DEF Turns!Rotate
    <3>2. CASE k = "theme"
      BY <1>7, <3>2 DEF Turns!Rotate
    <3> QED BY <3>1, <3>2 DEF Turns!Kinds
  <2>2. Turns!Baseline(k) <= age[k]
    BY <1>1, <2>1, Due DEF Turns!Fires
  <2>3. Turns!Baseline(k) >= Turns!Dwell(k) /\ Turns!Dwell(k) \in Nat
    BY <2>1, FrontPanelAssumption DEF Turns!Fires, Turns!Dwell
  <2> QED BY <1>2, <2>2, <2>3 DEF Turns!Longest
<1> QED BY <1>1, <1>3, <1>5, <1>6, <1>7 DEF TurnInv

timed == <<at, changed, seen, since, age, turning>>

LEMMA ElsewhereStep ==
  ASSUME TurnInv, Turns!Pause \/ Turns!Install \/ \E k \in Turns!Kinds : Turns!Choose(k) \/ Turns!Switch(k)
  PROVE  TurnInv'
<1>1. CASE Turns!Pause \/ Turns!Install \/ \E k \in Turns!Kinds : Turns!Choose(k)
  BY <1>1 DEF Turns!Pause, Turns!Install, Turns!Choose, Turns!loopVars, TurnInv, Turned
<1>2. ASSUME NEW k \in Turns!Kinds, Turns!Switch(k)
      PROVE  TurnInv'
  <2>1. UNCHANGED <<at, changed, seen, since>> /\ 0 \in 0..Turns!Longest
    BY <1>2, FrontPanelAssumption DEF Turns!Switch, Turns!loopVars, Turns!Longest
  <2>2. turning' \in [Turns!Kinds -> BOOLEAN]
    BY <1>2 DEF Turns!Switch, TurnInv
  <2>3. age' = IF turning'[k] /\ ~seen.on[k] THEN [age EXCEPT ![k] = 0] ELSE age
    BY <1>2 DEF Turns!Switch
  <2>4. age' \in [Turns!Kinds -> 0..Turns!Longest]
    BY <2>1, <2>3 DEF TurnInv
  <2>5. ASSUME NEW j \in Turns!Kinds, Turned(j)
        PROVE  age'[j] = age[j]
    BY <2>3, <2>5 DEF TurnInv, Turned
  <2> QED BY <2>1, <2>2, <2>4, <2>5 DEF TurnInv, Turned
<1> QED BY <1>1, <1>2

LEMMA TurnsInit == Init => TurnInv
<1> SUFFICES ASSUME Init PROVE TurnInv
  OBVIOUS
<1>1. Turns!RotationsInit /\ 0 \in 0..Turns!Longest
  BY FrontPanelAssumption DEF Init, Turns!Longest
<1> QED BY <1>1 DEF Turns!RotationsInit, TurnInv, Turned

LEMMA TurnsStep ==
  ASSUME TurnInv, [Next]_vars
  PROVE  /\ TurnInv'
         /\ at = "rotate" /\ at' = "top" => \A k \in Turns!Kinds : now'[k] # now[k] => age[k] >= Turns!Dwell(k)
<1>1. CASE Turns!Top
  BY <1>1, TopStep DEF Turns!Top
<1>2. CASE Turns!Rotate
  BY <1>2, RotateStep
<1>3. CASE Turns!Pause \/ Turns!Install \/ \E k \in Turns!Kinds : Turns!Choose(k) \/ Turns!Switch(k)
  <2>1. at' = at
    BY <1>3 DEF Turns!Pause, Turns!Install, Turns!Choose, Turns!Switch, Turns!loopVars
  <2> QED BY <1>3, <2>1, ElsewhereStep
<1>4. CASE UNCHANGED timed
  BY <1>4 DEF TurnInv, Turned, timed
<1>5. Turns!TimersNext \/ UNCHANGED timed
  BY DEF Next, vars, MicPart, SignalPart, TouchPart, FacePart, BarsPart, SkyPart, PanelsPart, TimersPart, AlbumPart,
     rotationVars, timed, Turns!AlbumNext, Turns!ReadDirectory, Turns!Loaded, Turns!ShowAlbum, Turns!Afresh,
     Turns!ChangeFile, Turns!Invalidate, Turns!Unannounced, Turns!timerVars
<1> QED BY <1>1, <1>2, <1>3, <1>4, <1>5 DEF Turns!TimersNext

\* display.c:11710-11717, 11726-11732, 11749-11756: for any interval, a rotation turns on
\* only from a mode or a theme that has had the tubes for its whole time.
THEOREM DwellIsKept == Spec => DwellKept
<1>1. Init => TurnInv
  BY TurnsInit
<1>2. TurnInv /\ [Next]_vars => TurnInv'
  BY TurnsStep
<1>3. TurnInv /\ [Next]_vars
        => [at = "rotate" /\ at' = "top"
              => \A k \in Turns!Kinds : now'[k] # now[k] => age[k] >= Turns!Dwell(k)]_(Turns!rotationVars)
  BY TurnsStep
<1> QED BY <1>1, <1>2, <1>3, PTL DEF Spec, DwellKept, Turns!DwellKept

-----------------------------------------------------------------------------
(* The time on the tubes *)

\* A face whose steps are not smoothed is redrawn when the minute changes; another
\* approaches the system clock with each pass, faster than it goes away with a second.
AtOnce == Face!DualCx \/ Face!NosecFlip

Clocks == [ahead : Int, second : 0..Minute - 1, none : BOOLEAN]

FaceOk ==
  /\ face \in Face!Faces /\ drawn \in Clocks /\ passes \in 0..Passes /\ calm \in 0..JumpMax
  /\ jumped => AtOnce

AheadOk == -JumpMax <= drawn.ahead /\ drawn.ahead <= JumpMax + (IF passes = 0 THEN 1 ELSE 0)

CatchesUp ==
  /\ AtOnce /\ calm >= 1 /\ passes >= 1 => Face!MinuteOf(drawn.ahead) = 0
  /\ ~AtOnce /\ calm >= 1 =>
       /\ drawn.ahead >= calm - JumpMax
       /\ \/ drawn.ahead <= JumpMax + 2 - calm - passes
          \/ drawn.ahead <= IF passes = 0 THEN 1 ELSE 0

FaceInv == FaceOk /\ AheadOk /\ CatchesUp

LEMMA Divided ==
  ASSUME NEW n \in Int, NEW m \in Int, m > 0
  PROVE  /\ n % m \in 0..m - 1
         /\ n \in 0..m - 1 <=> n \div m = 0
OBVIOUS

LEMMA Bounds ==
  /\ Minute \in Int /\ Minute > 0 /\ JumpMax \in Int /\ JumpMax >= Minute /\ Passes \in Int /\ Passes >= 2
  /\ 0 \in 0..Minute - 1 /\ 0 \in 0..Passes /\ 0 \in 0..JumpMax
BY FrontPanelAssumption

\* Where the tubes are after a pass that draws the time d seconds on from the last.
LEMMA DrawnOk ==
  ASSUME FaceInv, NEW d \in Int
  PROVE  (drawn.second + d) % Minute \in 0..Minute - 1
BY Bounds, Divided DEF FaceInv, FaceOk, Clocks

LEMMA PassStep ==
  ASSUME FaceInv, Face!Pass
  PROVE  FaceInv'
<1>1. /\ face \in Face!Faces /\ face' = face /\ calm' = calm /\ calm \in 0..JumpMax
      /\ passes' = passes + 1 /\ passes \in Int /\ passes >= 0 /\ passes' <= Passes
      /\ drawn.ahead \in Int /\ drawn.second \in 0..Minute - 1 /\ drawn.none \in BOOLEAN
      /\ drawn \in Clocks
  BY Bounds DEF Face!Pass, FaceInv, FaceOk, Clocks
<1>2. PICK none \in BOOLEAN : none = (drawn.none \/ ~known.time \/ (valid.ntp /\ ~known.ntp))
  <2> WITNESS (drawn.none \/ ~known.time \/ (valid.ntp /\ ~known.ntp)) \in BOOLEAN
  <2> QED OBVIOUS
<1>3. PICK d : d = Face!Advance(none)
  OBVIOUS
<1>4. d \in Int
  BY <1>1, <1>3 DEF Face!Advance, Face!Held
<1>5. PICK draw \in BOOLEAN : draw = (face.anim \/ forced # "no" \/ Face!TimeChanged(d) \/ Face!ColonChanged(d))
  <2> WITNESS (face.anim \/ forced # "no" \/ Face!TimeChanged(d) \/ Face!ColonChanged(d)) \in BOOLEAN
  <2> QED OBVIOUS
<1>6. /\ drawn' = IF draw THEN [ahead |-> drawn.ahead - d, second |-> (drawn.second + d) % Minute, none |-> FALSE]
                          ELSE [drawn EXCEPT !.none = none]
      /\ jumped' = (draw /\ d < 0 /\ ~none /\ forced \notin {"mode", "theme"})
  BY <1>2, <1>3, <1>5 DEF Face!Pass
<1>7. AtOnce' <=> AtOnce
  BY <1>1 DEF AtOnce, Face!DualCx, Face!NosecFlip, Face!NoSec
<1>8. jumped' => AtOnce'
  <2> SUFFICES ASSUME jumped', ~AtOnce PROVE FALSE
    BY <1>7
  <2>1. Face!Smoothed(none) /\ d < 0
    BY <1>6 DEF Face!Smoothed, AtOnce
  <2> QED BY <1>1, <1>3, <2>1 DEF Face!Advance, Face!Held
<1>9. PICK second \in 0..Minute - 1 : second = (drawn.second + d) % Minute
  BY <1>4, DrawnOk
<1>10. CASE draw
  <2>1. drawn' = [ahead |-> drawn.ahead - d, second |-> second, none |-> FALSE]
    BY <1>6, <1>9, <1>10
  <2>2. drawn' \in Clocks /\ drawn'.ahead = drawn.ahead - d /\ drawn'.second = second
    BY <1>1, <1>4, <2>1 DEF Clocks
  <2>3. \/ drawn'.ahead = 0
        \/ ~AtOnce /\ drawn'.ahead = IF drawn.ahead > 1 THEN drawn.ahead - 1
                                     ELSE IF drawn.ahead < 0 THEN drawn.ahead ELSE 0
    BY <1>1, <1>3, <2>2 DEF Face!Advance, Face!Held, Face!Smoothed, AtOnce
  <2>4. FaceOk'
    BY <1>1, <1>8, <2>2, Bounds DEF FaceOk
  <2>5. AheadOk'
    BY <1>1, <2>2, <2>3, Bounds DEF FaceInv, AheadOk
  <2>6. Face!MinuteOf(0)' = 0
    BY <2>2, Bounds, Divided DEF Face!MinuteOf
  <2>7. CatchesUp'
    BY <1>1, <1>7, <2>2, <2>3, <2>6, Bounds DEF FaceInv, CatchesUp, Face!MinuteOf
  <2> QED BY <2>4, <2>5, <2>7 DEF FaceInv
<1>11. CASE ~draw
  <2>1. drawn' \in Clocks /\ drawn'.ahead = drawn.ahead /\ drawn'.second = drawn.second
    BY <1>1, <1>2, <1>6, <1>11 DEF Clocks
  <2>2. CASE AtOnce
    <3>1. d = drawn.ahead
      BY <1>3, <2>2 DEF Face!Advance, Face!Smoothed, AtOnce
    <3>2. Face!MinuteOf(drawn.ahead) = 0
      BY <1>5, <1>11, <2>2, <3>1 DEF Face!TimeChanged, AtOnce, Face!DualCx, Face!NosecFlip, Face!NoSec
    <3>3. drawn.second + drawn.ahead \in 0..Minute - 1
      BY <1>1, <3>2, Bounds, Divided DEF Face!MinuteOf
    <3>4. AheadOk'
      BY <1>1, <2>1, <3>3, Bounds DEF AheadOk
    <3>5. CatchesUp'
      BY <1>7, <2>1, <2>2, <3>2 DEF CatchesUp, Face!MinuteOf
    <3> QED BY <1>1, <1>8, <2>1, <3>4, <3>5, Bounds DEF FaceInv, FaceOk
  <2>3. CASE ~AtOnce
    <3>1. d = 0
      BY <1>1, <1>5, <1>11, <2>3
      DEF AtOnce, Face!TimeChanged, Face!ColonChanged, Face!DualCx, Face!NosecFlip, Face!NoSec, Face!Faces
    <3>2. drawn.ahead <= 0
      BY <1>1, <1>3, <3>1 DEF Face!Advance, Face!Held
    <3>3. AheadOk'
      BY <1>1, <2>1, <3>2, Bounds DEF FaceInv, AheadOk
    <3>4. CatchesUp'
      BY <1>1, <1>7, <2>1, <2>3, <3>2, Bounds DEF FaceInv, CatchesUp
    <3> QED BY <1>1, <1>8, <2>1, <3>3, <3>4, Bounds DEF FaceInv, FaceOk
  <2> QED BY <2>2, <2>3
<1> QED BY <1>10, <1>11

LEMMA SecondStep ==
  ASSUME FaceInv, Face!Second
  PROVE  FaceInv'
<1>1. /\ face \in Face!Faces /\ face' = face /\ jumped' = jumped /\ passes = Passes /\ passes' = 0
      /\ drawn.ahead \in Int /\ drawn.second \in 0..Minute - 1 /\ drawn.none \in BOOLEAN
      /\ drawn \in Clocks
      /\ calm \in 0..JumpMax /\ calm' = IF calm < JumpMax THEN calm + 1 ELSE calm
  BY DEF Face!Second, FaceInv, FaceOk, Clocks, Face!CalmMax
<1>2. drawn' \in Clocks /\ drawn'.ahead = drawn.ahead + 1
  BY <1>1 DEF Face!Second, Clocks
<1>3. AtOnce' <=> AtOnce
  BY <1>1 DEF AtOnce, Face!DualCx, Face!NosecFlip, Face!NoSec
<1>4. FaceOk'
  BY <1>1, <1>2, <1>3, Bounds DEF FaceInv, FaceOk
<1>5. AheadOk'
  BY <1>1, <1>2, Bounds DEF FaceInv, AheadOk
<1>6. CatchesUp'
  BY <1>1, <1>2, <1>3, Bounds DEF FaceInv, AheadOk, CatchesUp
<1> QED BY <1>4, <1>5, <1>6 DEF FaceInv

LEMMA FaceStep == FaceInv /\ [Next]_vars => FaceInv'
<1> SUFFICES ASSUME FaceInv, [Next]_vars PROVE FaceInv'
  OBVIOUS
<1>1. CASE Face!BlankPass
  <2>1. UNCHANGED <<face, drawn, passes, calm>> /\ jumped' = FALSE
    BY <1>1 DEF Face!BlankPass
  <2> QED BY <2>1 DEF FaceInv, FaceOk, AheadOk, CatchesUp, AtOnce, Face!DualCx, Face!NosecFlip, Face!NoSec, Face!MinuteOf
<1>2. CASE Face!SetClock
  <2>1. UNCHANGED <<face, passes, jumped>> /\ calm' = 0 /\ passes \in 0..Passes
    BY <1>2 DEF Face!SetClock, FaceInv, FaceOk
  <2>2. PICK ahead \in -JumpMax..JumpMax : drawn' = [drawn EXCEPT !.ahead = ahead]
    BY <1>2 DEF Face!SetClock
  <2>3. drawn' \in Clocks /\ drawn'.ahead = ahead
    BY <2>2, Bounds DEF FaceInv, FaceOk, Clocks
  <2>4. AtOnce' <=> AtOnce
    BY <2>1 DEF AtOnce, Face!DualCx, Face!NosecFlip, Face!NoSec
  <2> QED BY <2>1, <2>2, <2>3, <2>4, Bounds DEF FaceInv, FaceOk, AheadOk, CatchesUp
<1>3. CASE Face!Change
  <2>1. PICK to \in Face!Faces : Face!ChangeFace(to)
    BY <1>3 DEF Face!Change
  <2>2. face' \in Face!Faces /\ jumped' = FALSE /\ calm' = 0 /\ passes' = passes
    BY <2>1 DEF Face!ChangeFace
  <2>3. drawn' \in {drawn, [drawn EXCEPT !.none = TRUE]}
    BY <2>1 DEF Face!ChangeFace
  <2>4. drawn' \in Clocks /\ drawn'.ahead = drawn.ahead
    BY <2>3 DEF FaceInv, FaceOk, Clocks
  <2> QED BY <2>2, <2>4, Bounds DEF FaceInv, FaceOk, AheadOk, CatchesUp
<1>4. CASE UNCHANGED faceVars
  BY <1>4 DEF faceVars, FaceInv, FaceOk, AheadOk, CatchesUp, AtOnce, Face!DualCx, Face!NosecFlip, Face!NoSec,
     Face!MinuteOf
<1>5. Face!Next \/ UNCHANGED faceVars
  BY DEF Next, vars, MicPart, SignalPart, TouchPart, FacePart, BarsPart, SkyPart, PanelsPart, TimersPart, AlbumPart
<1> QED BY <1>1, <1>2, <1>3, <1>4, <1>5, PassStep, SecondStep DEF Face!Next

LEMMA FaceInit == Init => FaceInv
<1> SUFFICES ASSUME Init PROVE FaceInv
  OBVIOUS
<1>1. Face!Init
  BY DEF Init
<1>2. drawn \in Clocks /\ drawn.ahead = 0
  BY <1>1, Bounds DEF Face!Init, Clocks
<1> QED BY <1>1, <1>2, Bounds DEF Face!Init, FaceInv, FaceOk, AheadOk, CatchesUp

\* display.c:12294-12301, 12323-12328: for any jump of the clock of a minute and more, and
\* any number of passes in a second that is enough to catch up at all, no face that is
\* smoothed counts backwards, and every face shows the minute once the clock and the
\* settings have been left alone for as many seconds as the clock can jump.
THEOREM TubesTellTheTime == Spec => []TubesTellTime
<1>1. Init => FaceInv
  BY FaceInit
<1>2. FaceInv /\ [Next]_vars => FaceInv'
  BY FaceStep
<1>3. FaceInv => TubesTellTime
  <2> SUFFICES ASSUME FaceInv PROVE Face!NeverRewinds /\ Face!MinuteShown
    BY DEF TubesTellTime
  <2>1. ASSUME passes = Passes, calm = JumpMax, ~AtOnce PROVE Face!MinuteOf(drawn.ahead) = 0
    <3>1. drawn.ahead = 0 /\ drawn.second \in 0..Minute - 1
      BY <2>1, Bounds DEF FaceInv, FaceOk, Clocks, CatchesUp
    <3> QED BY <3>1, Bounds, Divided DEF Face!MinuteOf
  <2>2. ASSUME passes = Passes, calm = JumpMax, AtOnce PROVE Face!MinuteOf(drawn.ahead) = 0
    BY <2>2, Bounds DEF FaceInv, CatchesUp
  <2> QED BY <2>1, <2>2 DEF FaceInv, FaceOk, AtOnce, Face!NeverRewinds, Face!MinuteShown, Face!CalmMax
<1> QED BY <1>1, <1>2, <1>3, PTL DEF Spec

-----------------------------------------------------------------------------
(* The panels beside the custom face *)

Pushes == [valid : BOOLEAN, version : Nat, seq : Nat]
TurnOk == turn \in [started : {turn.started}, index : {turn.index}, on : {turn.on}, dual : {turn.dual},
                    seq : Nat, minute : {turn.minute}, mask : {turn.mask}, drawnMinute : {turn.drawnMinute}]

\* The sides whose panel the loop answers for.
Answered == (fresh \intersect Side!Shows(turn.dual)) \ (masked \union turn.mask)

\* Between two drawings the loop knows which minute and which settings are on the tubes,
\* and, if no picture came in since it looked, so are the panels it answers for.
PanelInv ==
  /\ image \in [Side!Sides -> Pushes] /\ TurnOk /\ pane = [s \in Side!Sides |-> pane[s]]
  /\ pc \in {"turn", "draw", "paint"}
  /\ turn.seq <= Side!Seq
  /\ fresh = {} \/ turn.on = on
  /\ pc # "draw" =>
       /\ turn.minute = turn.drawnMinute
       /\ turn.seq = Side!Seq => \A s \in Answered : pane[s] = Side!Drawn(s)

LEMMA Pushed ==
  ASSUME image \in [Side!Sides -> Pushes]
  PROVE  Side!Seq \in Nat
BY DEF Side!Seq, Side!Sides, Pushes

LEMMA TurnStep ==
  ASSUME PanelInv, Side!Turn
  PROVE  PanelInv'
<1>1. /\ pc = "turn" /\ UNCHANGED <<on, dual, have, image, minute, masked, pane>>
      /\ image \in [Side!Sides -> Pushes] /\ Side!Seq \in Nat /\ TurnOk
  BY Pushed DEF Side!Turn, PanelInv
<1>2. PICK due \in BOOLEAN :
        /\ turn' = [turn EXCEPT !.started = TRUE, !.index = Side!IndexAfter(due), !.on = on, !.dual = dual,
                                !.seq = Side!Seq, !.minute = minute, !.mask = masked]
        /\ pc' = IF Side!Draws(Side!IndexAfter(due)) THEN "draw" ELSE "paint"
  BY DEF Side!Turn
<1>3. PICK index : index = Side!IndexAfter(due)
  OBVIOUS
<1>4. /\ TurnOk' /\ turn'.index = index /\ turn'.on = on /\ turn'.dual = dual
      /\ turn'.seq = Side!Seq /\ turn'.minute = minute /\ turn'.mask = masked
      /\ turn'.drawnMinute = turn.drawnMinute
  BY <1>1, <1>2, <1>3 DEF TurnOk
<1>5. Side!Seq' = Side!Seq
  BY <1>1 DEF Side!Seq
<1>6. fresh' = IF masked = {} THEN fresh ELSE fresh \ (turn.mask \ masked)
  BY DEF Side!Turn
<1>7. fresh' = {} \/ turn'.on = on'
  BY <1>1, <1>4
<1>8. ASSUME ~Side!Draws(index)
      PROVE  /\ turn'.minute = turn'.drawnMinute
             /\ \A s \in Answered' : pane'[s] = Side!Drawn(s)'
  <2>1. /\ dual = turn.dual /\ index = turn.index /\ (turn.mask = {} \/ masked # {})
        /\ Side!Seq = turn.seq /\ minute = turn.drawnMinute
    BY <1>8 DEF Side!Draws, Side!Anew, Side!Released
  <2>2. turn.minute = minute
    BY <1>1, <2>1 DEF PanelInv
  <2> SUFFICES ASSUME NEW s \in Answered' PROVE pane'[s] = Side!Drawn(s)'
    BY <1>4, <2>1
  <2>3. s \in fresh /\ s \in Side!Shows(turn.dual) /\ s \notin masked /\ s \notin turn.mask
    BY <1>1, <1>4, <1>6, <2>1 DEF Answered
  <2>4. pane[s] = Side!Drawn(s) /\ turn.on = on
    BY <1>1, <2>1, <2>3 DEF PanelInv, Answered
  <2>5. Side!Drawn(s)' = Side!Drawn(s)
    BY <1>1, <1>4, <2>1, <2>2, <2>4 DEF Side!Drawn, Side!KindOf, Side!Shown
  <2> QED BY <1>1, <2>4, <2>5
<1>9. pc' \in {"turn", "draw", "paint"} /\ (pc' # "draw" => ~Side!Draws(index))
  BY <1>2, <1>3
<1>10. image' \in [Side!Sides -> Pushes] /\ (pane = [s \in Side!Sides |-> pane[s]])' /\ (turn.seq <= Side!Seq)'
  BY <1>1, <1>4, <1>5 DEF PanelInv
<1> QED BY <1>4, <1>7, <1>8, <1>9, <1>10 DEF PanelInv

LEMMA DrawStep ==
  ASSUME PanelInv, Side!Draw
  PROVE  PanelInv'
<1>1. /\ UNCHANGED <<on, dual, have, image, minute, masked>> /\ pc' = "paint"
      /\ turn' = [turn EXCEPT !.drawnMinute = turn.minute]
      /\ image \in [Side!Sides -> Pushes] /\ TurnOk
  BY DEF Side!Draw, PanelInv
<1>2. /\ TurnOk' /\ turn'.index = turn.index /\ turn'.on = turn.on /\ turn'.dual = turn.dual
      /\ turn'.seq = turn.seq /\ turn'.minute = turn.minute /\ turn'.mask = turn.mask
      /\ turn'.drawnMinute = turn.minute
  BY <1>1 DEF TurnOk
<1>3. Side!Seq' = Side!Seq
  BY <1>1 DEF Side!Seq
<1>4. PICK drawnSides :
        /\ drawnSides \subseteq Side!Shows(turn.dual) \ masked
        /\ \A s \in Side!Sides : s \in drawnSides => pane'[s] = Side!Drawn(s)
        /\ pane' = [s \in Side!Sides |-> pane'[s]]
        /\ fresh' = IF turn.on = on THEN drawnSides \union masked ELSE {}
  <2>1. PICK buffer \in BOOLEAN :
          LET sides == Side!Shows(turn.dual) \ masked
              done == {s \in sides : buffer \/ ~Side!NeedsBuffer(Side!KindOf(s))}
              Failed(s) == IF Side!KindOf(s) = kindWas[s] THEN pane[s] ELSE Side!Black
          IN /\ pane' = [s \in Side!Sides |->
                           IF s \in masked THEN pane[s]
                           ELSE IF s \notin sides THEN Side!Digit
                           ELSE IF s \in done THEN Side!Drawn(s) ELSE Failed(s)]
             /\ fresh' = IF turn.on = on THEN done \union masked ELSE {}
    BY DEF Side!Draw
  <2> DEFINE done == {s \in Side!Shows(turn.dual) \ masked : buffer \/ ~Side!NeedsBuffer(Side!KindOf(s))}
  <2>2. done \subseteq Side!Shows(turn.dual) \ masked /\ fresh' = IF turn.on = on THEN done \union masked ELSE {}
    BY <2>1
  <2>3. \A s \in Side!Sides : s \in done => pane'[s] = Side!Drawn(s)
    BY <2>1
  <2>4. pane' = [s \in Side!Sides |-> pane'[s]]
    BY <2>1
  <2> HIDE DEF done
  <2> QED BY <2>2, <2>3, <2>4
<1>5. \A s \in Side!Sides : Side!Drawn(s)' = Side!Drawn(s)
  BY <1>1, <1>2 DEF Side!Drawn, Side!KindOf, Side!Shown
<1>6. Side!Shows(turn.dual) \subseteq Side!Sides
  BY DEF Side!Shows, Side!Sides
<1>7. \A s \in Answered' : pane'[s] = Side!Drawn(s)'
  BY <1>1, <1>2, <1>4, <1>5, <1>6 DEF Answered
<1> QED BY <1>1, <1>2, <1>3, <1>4, <1>7 DEF PanelInv

LEMMA PaintStep ==
  ASSUME PanelInv, Side!Paint
  PROVE  PanelInv'
<1>1. /\ UNCHANGED <<on, dual, have, image, minute, masked, turn, fresh>> /\ pc = "paint" /\ pc' = "turn"
      /\ pane' = [s \in Side!Sides |-> IF s \in masked THEN Side!Held ELSE pane[s]]
  BY DEF Side!Paint
<1>2. Side!Seq' = Side!Seq
  BY <1>1 DEF Side!Seq
<1>3. \A s \in Side!Sides : Side!Drawn(s)' = Side!Drawn(s) /\ (s \notin masked => pane'[s] = pane[s])
  BY <1>1 DEF Side!Drawn, Side!KindOf, Side!Shown
<1>4. Answered' = Answered /\ Answered \subseteq Side!Sides \ masked
  BY <1>1 DEF Answered, Side!Shows, Side!Sides
<1>5. TurnOk' /\ (pane = [s \in Side!Sides |-> pane[s]])'
  BY <1>1 DEF PanelInv, TurnOk
<1> QED BY <1>1, <1>2, <1>3, <1>4, <1>5 DEF PanelInv

LEMMA PushStep ==
  ASSUME PanelInv, NEW side \in Side!Sides, NEW ok \in BOOLEAN, Side!Push(side, ok)
  PROVE  PanelInv'
<1>1. /\ UNCHANGED <<on, dual, have, minute, masked, turn, pc, pane>> /\ image \in [Side!Sides -> Pushes]
      /\ fresh' = IF ok THEN fresh ELSE fresh \ {side}
  BY DEF Side!Push, Side!task, PanelInv
<1>2. PICK old \in Pushes : old = image[side]
  BY <1>1
<1>3. PICK new \in Pushes : /\ new = [valid |-> ok, version |-> IF ok THEN 1 + old.version ELSE old.version,
                                       seq |-> IF ok THEN old.seq + 1 ELSE old.seq]
                            /\ new.seq = IF ok THEN old.seq + 1 ELSE old.seq
  <2>1. old.version \in Nat /\ old.seq \in Nat
    BY <1>2 DEF Pushes
  <2>2. PICK v \in Nat, q \in Nat : /\ v = IF ok THEN 1 + old.version ELSE old.version
                                  /\ q = IF ok THEN old.seq + 1 ELSE old.seq
    BY <2>1
  <2>3. [valid |-> ok, version |-> v, seq |-> q] \in Pushes
    BY DEF Pushes
  <2> QED BY <2>2, <2>3
<1>4. image' = [image EXCEPT ![side] = new]
  BY <1>2, <1>3 DEF Side!Push
<1>5. /\ image' \in [Side!Sides -> Pushes] /\ image'[side] = new
      /\ \A s \in Side!Sides : s # side => image'[s] = image[s]
  BY <1>1, <1>4
<1>6. Side!Seq' = (IF ok THEN Side!Seq + 1 ELSE Side!Seq) /\ Side!Seq \in Nat
  BY <1>1, <1>2, <1>3, <1>5 DEF Side!Seq, Side!Sides, Pushes
<1>7. TurnOk' /\ (pane = [s \in Side!Sides |-> pane[s]])' /\ turn.seq \in Nat
  BY <1>1 DEF PanelInv, TurnOk
<1>8. ASSUME turn'.seq = Side!Seq', NEW s \in Answered'
      PROVE  s \in Answered /\ Side!Drawn(s)' = Side!Drawn(s) /\ turn.seq = Side!Seq
  <2>1. ok = FALSE /\ turn.seq = Side!Seq
    BY <1>1, <1>6, <1>7, <1>8 DEF PanelInv
  <2>2. s \in Answered /\ s # side /\ s \in Side!Sides
    BY <1>1, <1>8, <2>1 DEF Answered, Side!Shows, Side!Sides
  <2>3. Side!Drawn(s)' = Side!Drawn(s)
    BY <1>1, <1>5, <2>2 DEF Side!Drawn, Side!KindOf, Side!Shown
  <2> QED BY <2>1, <2>2, <2>3
<1>9. (turn.seq <= Side!Seq)' /\ (fresh = {} \/ turn.on = on)'
  BY <1>1, <1>6, <1>7 DEF PanelInv
<1> QED BY <1>1, <1>5, <1>7, <1>8, <1>9 DEF PanelInv

LEMMA OutsideStep ==
  ASSUME PanelInv, Side!Reading \/ Side!Save \/ Side!NextMinute \/ Side!Mask
  PROVE  PanelInv'
<1>1. UNCHANGED <<image, turn, pc, pane>>
  BY DEF Side!Reading, Side!Save, Side!NextMinute, Side!Mask, Side!task
<1>2. Side!Seq' = Side!Seq
  BY <1>1 DEF Side!Seq
<1>3. TurnOk' /\ (pane = [s \in Side!Sides |-> pane[s]])'
  BY <1>1 DEF PanelInv, TurnOk
<1>4. CASE Side!Reading \/ Side!Save
  <2>1. fresh' = {} /\ Answered' = {}
    BY <1>4 DEF Side!Reading, Side!Save, Answered
  <2> QED BY <1>1, <1>2, <1>3, <2>1 DEF PanelInv
<1>5. CASE Side!NextMinute \/ Side!Mask
  <2>1. UNCHANGED <<on, have, image, turn>>
    BY <1>5 DEF Side!NextMinute, Side!Mask, Side!task
  <2>2. \A s \in Side!Sides : Side!Drawn(s)' = Side!Drawn(s)
    BY <2>1 DEF Side!Drawn, Side!KindOf, Side!Shown
  <2>3. Answered' \subseteq Answered /\ Answered \subseteq Side!Sides
    BY <1>5, <2>1 DEF Side!NextMinute, Side!Mask, Answered, Side!Shows, Side!Sides
  <2>4. fresh' \subseteq fresh
    BY <1>5 DEF Side!NextMinute, Side!Mask
  <2> QED BY <1>1, <1>2, <1>3, <2>1, <2>2, <2>3, <2>4 DEF PanelInv
<1> QED BY <1>4, <1>5

LEMMA PanelsInit == Init => PanelInv
<1> SUFFICES ASSUME Init PROVE PanelInv
  OBVIOUS
<1>1. Side!PanelsInit
  BY DEF Init
<1>2. image = [s \in Side!Sides |-> [valid |-> FALSE, version |-> 0, seq |-> 0]]
  BY <1>1 DEF Side!PanelsInit
<1>3. image \in [Side!Sides -> Pushes] /\ Side!Seq = 0
  BY <1>2 DEF Pushes, Side!Seq, Side!Sides
<1>4. TurnOk /\ turn.seq = 0 /\ turn.minute = 0 /\ turn.drawnMinute = 0
  BY <1>1 DEF Side!PanelsInit, TurnOk
<1>5. pane = [s \in Side!Sides |-> pane[s]] /\ fresh = {} /\ pc = "turn"
  BY <1>1 DEF Side!PanelsInit
<1> QED BY <1>3, <1>4, <1>5 DEF PanelInv, Answered

LEMMA PanelsStep == PanelInv /\ [Next]_vars => PanelInv'
<1> SUFFICES ASSUME PanelInv, [Next]_vars PROVE PanelInv'
  OBVIOUS
<1>1. CASE UNCHANGED panelVars
  <2>1. UNCHANGED <<on, dual, have, image, minute, masked, turn, pc, pane, fresh>>
    BY <1>1 DEF panelVars
  <2>2. Answered' = Answered /\ Answered \subseteq Side!Sides
    BY <2>1 DEF Answered, Side!Shows, Side!Sides
  <2>3. \A s \in Side!Sides : Side!Drawn(s)' = Side!Drawn(s)
    BY <2>1 DEF Side!Drawn, Side!KindOf, Side!Shown
  <2>4. Side!Seq' = Side!Seq /\ TurnOk'
    BY <2>1 DEF Side!Seq, TurnOk, PanelInv
  <2> QED BY <2>1, <2>2, <2>3, <2>4 DEF PanelInv
<1>2. CASE Side!PanelsNext
  BY <1>2, TurnStep, DrawStep, PaintStep, PushStep, OutsideStep DEF Side!PanelsNext
<1>3. Side!PanelsNext \/ UNCHANGED panelVars
  BY DEF Next, vars, MicPart, SignalPart, TouchPart, FacePart, BarsPart, SkyPart, PanelsPart, TimersPart, AlbumPart
<1> QED BY <1>1, <1>2, <1>3

-----------------------------------------------------------------------------
(* The album *)

\* A list that is in use or being read has no picture twice and no more than there is
\* room for; while nothing overtakes it, it is that of the directory.
AlbumInv ==
  /\ album = [list |-> album.list, loaded |-> album.loaded, index |-> album.index]
  /\ album.loaded \in BOOLEAN /\ files \subseteq Pictures
  /\ scan \/ album.loaded =>
       /\ Len(album.list) = Cardinality(ToSet(album.list)) /\ Len(album.list) <= MaxAlbum
       /\ ~web /\ ~lost => ToSet(album.list) \subseteq files /\ Len(album.list) = Turns!Room

\* The operators of the library are the same seen from the part.
LEMMA SameCount == \A S : Turns!Cardinality(S) = Cardinality(S)
BY DEF Turns!Cardinality, Cardinality

LEMMA SameSet == \A list : Turns!ToSet(list) = ToSet(list)
BY DEF Turns!ToSet, ToSet

LEMMA SameLists == \A S : Turns!SetToAllKPermutations(S) = SetToAllKPermutations(S)
BY SameCount DEF Turns!SetToAllKPermutations, SetToAllKPermutations, Turns!SetToSeqs, SetToSeqs,
                Turns!IsInjective, IsInjective

LEMMA Permuted ==
  ASSUME NEW S, IsFiniteSet(S), NEW list \in SetToAllKPermutations(S)
  PROVE  ToSet(list) \subseteq S /\ Len(list) \in Nat /\ Len(list) = Cardinality(ToSet(list))
<1>1. PICK T \in SUBSET S : list \in SetToSeqs(T)
  BY DEF SetToAllKPermutations
<1>2. IsFiniteSet(T) /\ Cardinality(T) \in Nat
  BY FS_Subset, FS_CardinalityType
<1>3. PICK n \in Nat : n = Cardinality(T)
  BY <1>2
<1>4. list \in [1..n -> T] /\ \A i, j \in 1..n : i # j => list[i] # list[j]
  BY <1>1, <1>3 DEF SetToSeqs
<1>5. list \in Seq(T) /\ DOMAIN list = 1..n
  BY <1>4, SeqDef
<1>6. Len(list) = n
  <2>1. DOMAIN list = 1..Len(list) /\ Len(list) \in Nat
    BY <1>5, LenProperties
  <2> QED BY <1>3, <1>5, <2>1
<1>7. ToSet(list) \subseteq S
  BY <1>1, <1>4, <1>5 DEF ToSet
<1>8. list \in [1..n -> ToSet(list)] /\ \A t \in ToSet(list) : \E i \in 1..n : list[i] = t
  BY <1>4, <1>5 DEF ToSet
<1>9. list \in Bijection(1..n, ToSet(list))
  BY <1>4, <1>8 DEF Bijection, Injection, Surjection, IsInjective
<1>10. Cardinality(ToSet(list)) = n
  <2>1. IsFiniteSet(1..n) /\ Cardinality(1..n) = n
    BY <1>3, FS_Interval
  <2> QED BY <1>9, <2>1, FS_Bijection DEF ExistsBijection
<1> QED BY <1>3, <1>6, <1>7, <1>10

LEMMA AlbumStep == AlbumInv /\ [Next]_vars => AlbumInv'
<1> SUFFICES ASSUME AlbumInv, [Next]_vars PROVE AlbumInv'
  OBVIOUS
<1>0. IsFiniteSet(files) /\ Cardinality(files) \in Nat
  BY FS_Subset, FS_CardinalityType, FrontPanelAssumption DEF AlbumInv
<1>a. Turns!Room <= MaxAlbum /\ (UNCHANGED files => Turns!Room' = Turns!Room)
  <2>1. Turns!Room <= MaxAlbum
    BY <1>0, SameCount, FrontPanelAssumption DEF Turns!Room
  <2>2. UNCHANGED files => Turns!Room' = Turns!Room
    BY DEF Turns!Room
  <2> QED BY <2>1, <2>2
<1>1. CASE Turns!ReadDirectory
  <2>1. PICK list \in SetToAllKPermutations(files) :
          Len(list) = Turns!Room /\ album' = [album EXCEPT !.list = list]
    BY <1>1, SameLists DEF Turns!ReadDirectory
  <2>2. /\ album'.list = list /\ album'.loaded = album.loaded
        /\ album' = [list |-> list, loaded |-> album.loaded, index |-> album.index]
        /\ album'.index = album.index
    BY <2>1 DEF AlbumInv
  <2>3. UNCHANGED <<files, web, lost>>
    BY <1>1 DEF Turns!ReadDirectory
  <2>4. ToSet(list) \subseteq files /\ Len(list) = Cardinality(ToSet(list))
    BY <1>0, Permuted
  <2> QED BY <1>a, <2>1, <2>2, <2>3, <2>4 DEF AlbumInv
<1>2. CASE Turns!Loaded
  <2>1. album' = [album EXCEPT !.loaded = TRUE] /\ scan /\ UNCHANGED <<files, web, lost>>
    BY <1>2 DEF Turns!Loaded
  <2>2. /\ album'.list = album.list /\ album'.loaded = TRUE /\ album'.index = album.index
        /\ album' = [list |-> album.list, loaded |-> TRUE, index |-> album.index]
    BY <2>1 DEF AlbumInv
  <2> QED BY <2>1, <2>2 DEF AlbumInv, Turns!Room
<1>3. CASE Turns!ShowAlbum
  <2>1. UNCHANGED <<files, web, lost, scan>>
        /\ (album' = album \/ album' = [album EXCEPT !.index = (album.index + 1) % Len(album.list)])
    BY <1>3 DEF Turns!ShowAlbum
  <2>2. /\ album'.list = album.list /\ album'.loaded = album.loaded
        /\ album' = [list |-> album'.list, loaded |-> album'.loaded, index |-> album'.index]
    BY <2>1 DEF AlbumInv
  <2> QED BY <2>1, <2>2 DEF AlbumInv, Turns!Room
<1>4. CASE Turns!Afresh
  <2>1. album' = [album EXCEPT !.loaded = FALSE, !.index = 0] /\ UNCHANGED <<files, scan>> /\ ~scan
    BY <1>4 DEF Turns!Afresh
  <2>2. album' = [list |-> album.list, loaded |-> FALSE, index |-> 0]
    BY <2>1 DEF AlbumInv
  <2> QED BY <2>1, <2>2 DEF AlbumInv
<1>5. CASE Turns!ChangeFile
  BY <1>5 DEF Turns!ChangeFile, AlbumInv
<1>6. CASE Turns!Invalidate
  <2>1. /\ album' = [album EXCEPT !.loaded = FALSE, !.index = 0] /\ UNCHANGED <<files, scan>>
        /\ lost' = (scan /\ ToSet(album.list) # files)
    BY <1>6, SameSet DEF Turns!Invalidate
  <2>2. /\ album' = [list |-> album.list, loaded |-> FALSE, index |-> 0] /\ album'.list = album.list
        /\ album'.loaded = FALSE
    BY <2>1 DEF AlbumInv
  <2>3. scan /\ ToSet(album.list) = files => Len(album.list) = Turns!Room
    <3>1. SUFFICES ASSUME scan, ToSet(album.list) = files PROVE Len(album.list) = Turns!Room
      OBVIOUS
    <3>2. Len(album.list) = Cardinality(files) /\ Len(album.list) <= MaxAlbum
      BY <3>1 DEF AlbumInv
    <3> QED BY <1>0, <3>2, SameCount, FrontPanelAssumption DEF Turns!Room
  <2>4. ~lost' /\ scan => ToSet(album.list) = files
    BY <2>1
  <2> QED BY <1>a, <2>1, <2>2, <2>3, <2>4 DEF AlbumInv
<1>7. CASE Turns!Unannounced
  <2>1. files' \subseteq files /\ UNCHANGED <<album, scan, web>> /\ lost' = (lost \/ album.loaded \/ scan)
    BY <1>7 DEF Turns!Unannounced
  <2> QED BY <2>1 DEF AlbumInv
<1>8. CASE UNCHANGED <<files, web, scan, album, lost>>
  BY <1>8 DEF AlbumInv, Turns!Room
<1>9. Turns!AlbumNext \/ UNCHANGED <<files, web, scan, album, lost>>
  BY DEF Next, vars, MicPart, SignalPart, TouchPart, FacePart, BarsPart, SkyPart, PanelsPart, TimersPart, AlbumPart,
     rotationVars, Turns!TimersNext, Turns!Top, Turns!Rotate, Turns!Pause, Turns!Install, Turns!Choose,
     Turns!Switch, Turns!albumVars
<1> QED BY <1>1, <1>2, <1>3, <1>4, <1>5, <1>6, <1>7, <1>8, <1>9 DEF Turns!AlbumNext

LEMMA AlbumInit == Init => AlbumInv
BY DEF Init, Turns!RotationsInit, AlbumInv

\* display.c:12490-12517, 9191-9225: for any panels enabled for either tube, any pushes,
\* settings and burn-in sessions, the panels show what drawing them at every iteration
\* would; for any pictures and any room, the album's list is that of its files.
THEOREM PagesAreCurrent == Spec => []PagesCurrent
<1>1. Init => PanelInv /\ AlbumInv
  BY PanelsInit, AlbumInit
<1>2. PanelInv /\ AlbumInv /\ [Next]_vars => PanelInv' /\ AlbumInv'
  BY PanelsStep, AlbumStep
<1>3. PanelInv /\ AlbumInv => PagesCurrent
  <2>1. PanelInv => Side!PanelsShown
    BY DEF PanelInv, Answered, Side!PanelsShown
  <2>2. AlbumInv => Turns!AlbumCurrent
    <3>1. SUFFICES ASSUME AlbumInv, album.loaded, ~web, ~lost
                   PROVE  ToSet(album.list) \subseteq files /\ Len(album.list) = Turns!Room
      BY SameSet DEF Turns!AlbumCurrent
    <3> QED BY <3>1 DEF AlbumInv
  <2> QED BY <2>1, <2>2 DEF PagesCurrent
<1> QED BY <1>1, <1>2, <1>3, PTL DEF Spec

-----------------------------------------------------------------------------
(* The spectrum *)

\* What the renderer believes of a tube, in the style it drew last.
Believed(t) == IF style = 0 THEN bars[t].valid ELSE scope[t].valid
BelievedAt(t) == IF style = 0 THEN bars[t].ox ELSE scope[t].ox
Drawing(t) ==
  IF style = 0 THEN Vis!BarRows(bars[t].lit, bars[t].dot, full["bars"].sig)
  ELSE Vis!TraceRows(<<scope[t].lo, scope[t].hi>>, full["scope"].sig)
Age == IF style = 0 THEN full["bars"].age ELSE full["scope"].age

GlassOk(g) == g = [rows |-> g.rows, at |-> g.at, edge |-> g.edge]
BarOk(b) ==
  /\ b = [lit |-> b.lit, dot |-> b.dot, valid |-> b.valid, ox |-> b.ox]
  /\ b.lit \in Int /\ b.valid \in BOOLEAN /\ b.ox \in Int
TraceOk(c) ==
  /\ c = [lo |-> c.lo, hi |-> c.hi, valid |-> c.valid, ox |-> c.ox]
  /\ c.lo \in Vis!Rows /\ c.hi \in Vis!Rows /\ c.valid \in BOOLEAN /\ c.ox \in Int
  /\ c.valid => c.lo <= Vis!Mid /\ Vis!Mid <= c.hi
FullOk(f) == f = [sig |-> f.sig, age |-> f.age] /\ f.age \in 0..(HealAfter + 1)

VisOk ==
  /\ look.style \in 0..2 /\ style \in -1..2 /\ force \in BOOLEAN /\ step \in {"render", "hour", "paint"}
  /\ shift \in 0..1 /\ off \in [BarTubes -> Int] /\ held \subseteq BarTubes
  /\ bars = [t \in BarTubes |-> bars[t]] /\ \A t \in BarTubes : BarOk(bars[t])
  /\ scope = [t \in BarTubes |-> scope[t]] /\ \A t \in BarTubes : TraceOk(scope[t])
  /\ full = [s \in {"bars", "scope"} |-> full[s]] /\ FullOk(full["bars"]) /\ FullOk(full["scope"])
  /\ margin = [shift |-> margin.shift, done |-> margin.done]
  /\ margin.shift \in Int /\ margin.done \subseteq BarTubes
  /\ glass = [t \in BarTubes |-> glass[t]] /\ \A t \in BarTubes : GlassOk(glass[t])
  /\ missed \in [BarTubes -> Nat]

\* Nothing of another mode is beside what the tube shows at x, or would be after painting there.
Beside(g, x) == g.edge = "left" \/ (g.edge # "old" /\ (g.rows = Vis!Blank(Vis!Black) \/ g.at = x))

\* The tubes whose margins the bars have blackened are those of the window as it is now.
MarginInv ==
  style = 0 =>
    /\ step = "hour" <=> margin.shift # shift
    /\ step # "hour" /\ ~force => \A t \in margin.done : Beside(glass[t], Vis!Ox(t))

\* A tube believed to be drawn is where it is believed to be, until the hour has changed.
EdgeInv ==
  ~force => \A t \in BarTubes : Believed(t) =>
    \/ glass[t].edge = "left"
    \/ /\ glass[t].edge # "old"
       /\ \/ glass[t].rows = Vis!Blank(Vis!Black)
          \/ glass[t].at = BelievedAt(t) /\ (step # "hour" <=> Vis!Ox(t) = BelievedAt(t))

\* The last frame was to show what is believed to be drawn, and a tube outside a session
\* shows it, unless it was painted behind the renderer's back.
WantInv == \A t \in BarTubes : Believed(t) /\ missed[t] = 0 => intended[t] = Drawing(t)

RowsInv ==
  ~force => \A t \in BarTubes \ held : Believed(t) /\ missed[t] = 0 => glass[t].rows = intended[t]

\* A tube has not been wrong for longer than since the last full repaint.
AgeInv == \A t \in BarTubes : missed[t] <= Age + 1

VisInv == VisOk /\ MarginInv /\ EdgeInv /\ WantInv /\ RowsInv /\ AgeInv /\ Vis!TubesExact


LEMMA Scales ==
  /\ 0 \in Vis!Rows /\ Vis!Mid \in Vis!Rows /\ 0 # Segs /\ Segs \in Nat
  /\ HealAfter \in Nat
  /\ \A k \in Levels : Vis!Lit(k) \in Int
<1>1. Vis!Top \in Nat /\ Vis!Top > 0
  <2>1. PICK k \in Levels : k > 0 /\ \A l \in Levels : l <= k
    BY FrontPanelAssumption
  <2>2. Vis!Top \in Levels /\ \A l \in Levels : l <= Vis!Top
    BY <2>1 DEF Vis!Top
  <2> QED BY <2>1, <2>2, FrontPanelAssumption
<1>2. 0 \in Vis!Rows /\ 0 # Segs /\ Segs \in Nat /\ HealAfter \in Nat
  BY FrontPanelAssumption DEF Vis!Rows
<1>3. Vis!Mid \in Vis!Rows
  BY <1>2 DEF Vis!Mid, Vis!Rows
<1>4. ASSUME NEW k \in Levels PROVE Vis!Lit(k) \in Int
  <2>1. k \in Nat
    BY FrontPanelAssumption
  <2>2. PICK n \in Int : n = 2 * k * Segs + Vis!Top
    BY <1>1, <1>2, <2>1
  <2>3. PICK d \in Int : d = 2 * Vis!Top /\ d > 0
    BY <1>1
  <2> QED BY <2>2, <2>3 DEF Vis!Lit
<1> QED BY <1>2, <1>3, <1>4

\* No drawing is the colour of a session.
LEMMA NotHeld ==
  /\ \A lit, dot, sig : Vis!BarRows(lit, dot, sig) # Vis!Blank(Vis!Held)
  /\ \A lo, hi, sig : lo <= Vis!Mid /\ Vis!Mid <= hi =>
       Vis!TraceRows(<<lo, hi>>, sig) # Vis!Blank(Vis!Held)
<1>1. ASSUME NEW lit, NEW dot, NEW sig, Vis!BarRows(lit, dot, sig) = Vis!Blank(Vis!Held) PROVE FALSE
  <2>1. Vis!Segment(0, lit, dot, sig) = <<"held">>
    BY <1>1, Scales DEF Vis!BarRows, Vis!Blank, Vis!Held
  <2>2. Vis!Segment(0, lit, dot, sig)[1] \in {"peak", "lit", "ghost"}
    BY Scales DEF Vis!Segment
  <2> QED BY <2>1, <2>2
<1>2. ASSUME NEW lo, NEW hi, NEW sig, lo <= Vis!Mid, Vis!Mid <= hi,
             Vis!TraceRows(<<lo, hi>>, sig) = Vis!Blank(Vis!Held)
      PROVE FALSE
  <2>1. Vis!TraceRow(Vis!Mid, <<lo, hi>>, sig) = <<"held">>
    BY <1>2, Scales DEF Vis!TraceRows, Vis!Blank, Vis!Held
  <2>2. Vis!TraceRow(Vis!Mid, <<lo, hi>>, sig)[1] = "trace"
    BY <1>2 DEF Vis!TraceRow
  <2> QED BY <2>1, <2>2
<1> QED BY <1>1, <1>2

LEMMA DrawingNotHeld ==
  ASSUME VisOk, NEW t \in BarTubes, Believed(t)
  PROVE  Drawing(t) # Vis!Blank(Vis!Held)
BY NotHeld DEF VisOk, TraceOk, Believed, Drawing

LEMMA VisInitial == Vis!VisInit => VisInv
<1> SUFFICES ASSUME Vis!VisInit PROVE VisInv
  OBVIOUS
<1>1. ASSUME NEW t \in BarTubes
      PROVE  BarOk(bars[t]) /\ TraceOk(scope[t]) /\ GlassOk(glass[t]) /\ ~Believed(t)
  <2>1. bars[t] = [lit |-> 0, dot |-> 0, valid |-> FALSE, ox |-> 0]
    BY DEF Vis!VisInit
  <2>2. scope[t] = [lo |-> 0, hi |-> 0, valid |-> FALSE, ox |-> 0]
    BY DEF Vis!VisInit
  <2>3. GlassOk(glass[t])
    BY DEF Vis!VisInit, GlassOk
  <2> QED BY <2>1, <2>2, <2>3, Scales DEF BarOk, TraceOk, Believed
<1>2. FullOk(full["bars"]) /\ FullOk(full["scope"])
  BY Scales DEF Vis!VisInit, FullOk
<1>3. VisOk
  BY <1>1, <1>2 DEF Vis!VisInit, VisOk
<1>4. AgeInv
  BY Scales DEF Vis!VisInit, AgeInv, Age
<1> QED BY <1>1, <1>3, <1>4 DEF Vis!VisInit, VisInv, MarginInv, EdgeInv, WantInv, RowsInv, Vis!TubesExact

\* A segment that is not painted has the colour it is to have.
LEMMA Unchanged ==
  ASSUME NEW b, BarOk(b), NEW lit \in Int, NEW dot, NEW sig, NEW s \in Vis!Rows,
         s \notin Vis!Changed(b, lit, dot)
  PROVE  Vis!Segment(s, lit, dot, sig) = Vis!Segment(s, b.lit, b.dot, sig)
<1>1. CASE s = Segs
  BY <1>1 DEF Vis!Segment
<1>2. CASE s # Segs
  <2>1. s \in 0..(Segs - 1)
    BY <1>2, Scales DEF Vis!Rows
  <2>2. (s < lit <=> s < b.lit) /\ (b.dot # dot => s # b.dot /\ s # dot)
    BY <2>1 DEF Vis!Changed, BarOk
  <2>3. s = dot <=> s = b.dot
    BY <2>2
  <2> QED BY <2>2, <2>3 DEF Vis!Segment
<1> QED BY <1>1, <1>2

\* A frame of bars, of one tube.
LEMMA BarsOfTube ==
  ASSUME VisInv, step \in {"render", "hour"}, look.style = 0, NEW t \in BarTubes \ held,
         NEW lit \in Int, NEW dot, NEW g, g = Vis!BarsOn(t, lit, dot)
  PROVE  /\ GlassOk(g) /\ g.at = Vis!Ox(t) /\ g.edge # "old"
         /\ t \in Vis!WholeBars \/ missed[t] = 0 => g.rows = Vis!BarRows(lit, dot, Vis!BarSig(look))
<1>1. CASE t \in Vis!WholeBars
  <2>1. g = [rows |-> Vis!BarRows(lit, dot, Vis!BarSig(look)), at |-> Vis!Ox(t), edge |-> g.edge]
    BY <1>1 DEF Vis!BarsOn, Vis!Put
  <2>2. CASE t \in Vis!Done
    <3>1. margin.shift = shift /\ ~force /\ style = 0 /\ t \in margin.done
      BY <2>2, Zenon DEF Vis!Done, Vis!Fresh, Vis!Again
    <3>2. Beside(glass[t], Vis!Ox(t))
      BY <3>1 DEF VisInv, MarginInv
    <3>3. g.edge = (IF glass[t].at = Vis!Ox(t) \/ glass[t].rows = Vis!Blank(Vis!Black) \/ glass[t].edge = "left"
                    THEN glass[t].edge ELSE "old")
      BY <1>1, <2>2 DEF Vis!BarsOn, Vis!Put
    <3> QED BY <2>1, <3>2, <3>3 DEF Beside, GlassOk
  <2>3. CASE t \notin Vis!Done
    BY <1>1, <2>1, <2>3 DEF Vis!BarsOn, Vis!Put, GlassOk
  <2> QED BY <2>2, <2>3
<1>2. CASE t \notin Vis!WholeBars
  <2>1. ~Vis!All /\ bars[t].valid /\ bars[t].ox = Vis!Ox(t)
    BY <1>2 DEF Vis!WholeBars, Vis!Repainted
  <2>2. ~force /\ style = 0 /\ full["bars"].sig = Vis!BarSig(look)
    BY <2>1 DEF Vis!All, Vis!Again, Vis!Due
  <2>3. Believed(t) /\ BelievedAt(t) = Vis!Ox(t)
    BY <2>1, <2>2 DEF Believed, BelievedAt
  <2>4. g = [rows |-> [s \in Vis!Rows |-> IF s \in Vis!Changed(bars[t], lit, dot)
                        THEN Vis!Segment(s, lit, dot, Vis!BarSig(look)) ELSE glass[t].rows[s]],
             at |-> Vis!Ox(t), edge |-> g.edge]
        /\ g.edge = (IF glass[t].at = Vis!Ox(t) \/ glass[t].rows = Vis!Blank(Vis!Black) \/ glass[t].edge = "left"
                     THEN glass[t].edge ELSE "old")
    BY <1>2 DEF Vis!BarsOn, Vis!Put
  <2>5. g.edge # "old"
    BY <2>2, <2>3, <2>4 DEF VisInv, EdgeInv
  <2>6. ASSUME missed[t] = 0 PROVE g.rows = Vis!BarRows(lit, dot, Vis!BarSig(look))
    <3>1. glass[t].rows = Vis!BarRows(bars[t].lit, bars[t].dot, Vis!BarSig(look))
      BY <2>2, <2>3, <2>6 DEF VisInv, WantInv, RowsInv, Drawing
    <3>2. ASSUME NEW s \in Vis!Rows, s \notin Vis!Changed(bars[t], lit, dot)
          PROVE  glass[t].rows[s] = Vis!Segment(s, lit, dot, Vis!BarSig(look))
      BY <3>1, <3>2, Unchanged DEF VisInv, VisOk, Vis!BarRows
    <3>3. g.rows = [s \in Vis!Rows |-> IF s \in Vis!Changed(bars[t], lit, dot)
                        THEN Vis!Segment(s, lit, dot, Vis!BarSig(look)) ELSE glass[t].rows[s]]
      BY <2>4
    <3> QED BY <3>2, <3>3 DEF Vis!BarRows
  <2> QED BY <1>2, <2>4, <2>5, <2>6 DEF GlassOk
<1> QED BY <1>1, <1>2

\* The time of a full repaint, one frame on.
LEMMA FullOf ==
  ASSUME VisInv, NEW s \in {"bars", "scope"}, NEW whole \in BOOLEAN, NEW sig,
         full' = Vis!FullAfter(s, whole, sig)
  PROVE  /\ full' = [r \in {"bars", "scope"} |-> full'[r]] /\ FullOk(full'["bars"]) /\ FullOk(full'["scope"])
         /\ whole => full'[s].sig = sig /\ full'[s].age = 0
         /\ ~whole => full'[s].sig = full[s].sig /\ full'[s].age = Vis!Older(s)
         /\ Vis!Older(s) = (IF full[s].age > HealAfter THEN full[s].age ELSE full[s].age + 1)
         /\ full[s].age \in Nat
<1>1. DOMAIN full = {"bars", "scope"} /\ FullOk(full["bars"]) /\ FullOk(full["scope"])
  BY DEF VisInv, VisOk
<1>2. \A r \in {"bars", "scope"} : Vis!Older(r) \in 0..(HealAfter + 1)
  BY <1>1, Scales DEF Vis!Older, FullOk
<1>3. \A r \in {"bars", "scope"} :
        full'[r] = IF r = s /\ whole THEN [sig |-> sig, age |-> 0] ELSE [full[r] EXCEPT !.age = Vis!Older(r)]
  BY <1>1 DEF Vis!FullAfter
<1>4. \A r \in {"bars", "scope"} :
        full'[r] = IF r = s /\ whole THEN [sig |-> sig, age |-> 0]
                   ELSE [sig |-> full[r].sig, age |-> Vis!Older(r)]
  BY <1>1, <1>3 DEF FullOk
<1>5. full' = [r \in {"bars", "scope"} |-> full'[r]]
  BY <1>1 DEF Vis!FullAfter
<1>6. FullOk(full'["bars"]) /\ FullOk(full'["scope"])
  BY <1>2, <1>4, Scales DEF FullOk
<1> QED BY <1>1, <1>4, <1>5, <1>6 DEF Vis!Older, FullOk

LEMMA BarsStep ==
  ASSUME VisInv, step \in {"render", "hour"}, step' = "paint", force' = FALSE, UNCHANGED Vis!outer,
         NEW lit, NEW dot, \A t \in BarTubes : lit[t] \in Int, Vis!DrawBars(lit, dot)
  PROVE  VisInv'
<1>1. /\ look.style = 0 /\ style' = 0
      /\ full' = Vis!FullAfter("bars", Vis!All, Vis!BarSig(look))
      /\ margin' = [shift |-> IF Vis!Fresh THEN shift ELSE margin.shift, done |-> Vis!Done \union Vis!WholeBars]
      /\ UNCHANGED <<look, shift, off, held, scope>>
  BY DEF Vis!DrawBars, Vis!outer
<1>2. PICK all \in BOOLEAN : all = Vis!All
  BY DEF Vis!All, Vis!Again, Vis!Due
<1>3. /\ full' = [r \in {"bars", "scope"} |-> full'[r]] /\ FullOk(full'["bars"]) /\ FullOk(full'["scope"])
      /\ full'["bars"].sig = Vis!BarSig(look)
      /\ ~all => full["bars"].age \in Nat /\ full'["bars"].age = full["bars"].age + 1
                 /\ full["bars"].age + 1 <= HealAfter
  <2>1. full' = Vis!FullAfter("bars", all, Vis!BarSig(look))
    BY <1>1, <1>2
  <2>2. ~all => full["bars"].sig = Vis!BarSig(look) /\ ~(Vis!Older("bars") > HealAfter)
    BY <1>2 DEF Vis!All, Vis!Due
  <2> QED BY <2>1, <2>2, FullOf, Scales
<1>4. ASSUME NEW t \in held
      PROVE  /\ bars'[t] = [bars[t] EXCEPT !.valid = FALSE] /\ glass'[t] = glass[t]
             /\ intended'[t] = Vis!Blank(Vis!Held) /\ missed'[t] = 0
  BY Zenon DEF VisInv, VisOk, Vis!DrawBars, Vis!MissedAfter
<1>5. ASSUME NEW t \in BarTubes \ held
      PROVE  /\ bars'[t] = [lit |-> lit[t], dot |-> dot[t], valid |-> TRUE, ox |-> Vis!Ox(t)]
             /\ glass'[t] = Vis!BarsOn(t, lit[t], dot[t])
             /\ intended'[t] = Vis!BarRows(lit[t], dot[t], Vis!BarSig(look))
             /\ missed'[t] = IF t \in Vis!WholeBars \/ missed[t] = 0 THEN 0 ELSE missed[t] + 1
  BY DEF Vis!DrawBars, Vis!MissedAfter
<1>6. ASSUME NEW t \in BarTubes \ held
      PROVE  /\ GlassOk(glass'[t]) /\ glass'[t].at = Vis!Ox(t) /\ glass'[t].edge # "old"
             /\ missed'[t] \in Nat
             /\ missed'[t] = 0 => glass'[t].rows = intended'[t]
             /\ missed'[t] <= full'["bars"].age + 1
  <2>1. missed[t] \in Nat /\ lit[t] \in Int
    BY DEF VisInv, VisOk
  <2>2. /\ GlassOk(glass'[t]) /\ glass'[t].at = Vis!Ox(t) /\ glass'[t].edge # "old"
        /\ t \in Vis!WholeBars \/ missed[t] = 0 => glass'[t].rows = intended'[t]
    <3>1. ASSUME NEW g, g = Vis!BarsOn(t, lit[t], dot[t])
          PROVE  /\ GlassOk(g) /\ g.at = Vis!Ox(t) /\ g.edge # "old"
                 /\ t \in Vis!WholeBars \/ missed[t] = 0 =>
                      g.rows = Vis!BarRows(lit[t], dot[t], Vis!BarSig(look))
      BY <1>1, <2>1, <3>1, BarsOfTube
    <3> QED BY <1>5, <3>1, Zenon
  <2>3. CASE t \in Vis!WholeBars \/ missed[t] = 0
    <3>1. missed'[t] = 0
      BY <1>5, <2>3
    <3>2. full'["bars"].age \in Nat
      BY <1>3 DEF FullOk
    <3> QED BY <2>2, <2>3, <3>1, <3>2
  <2>4. CASE ~(t \in Vis!WholeBars \/ missed[t] = 0)
    <3>1. ~all
      BY <1>2, <2>4 DEF Vis!WholeBars, Vis!Repainted
    <3>2. style = 0
      BY <1>1, <1>2, <3>1 DEF Vis!All, Vis!Again
    <3>3. missed[t] <= full["bars"].age + 1
      BY <3>2 DEF VisInv, AgeInv, Age
    <3>4. missed'[t] = missed[t] + 1
      BY <1>5, <2>4
    <3> QED BY <1>3, <2>1, <2>2, <3>1, <3>3, <3>4
  <2> QED BY <2>3, <2>4
<1>7. ASSUME NEW t \in BarTubes
      PROVE  BarOk(bars'[t]) /\ TraceOk(scope'[t]) /\ GlassOk(glass'[t]) /\ missed'[t] \in Nat
  <2>1. BarOk(bars[t]) /\ TraceOk(scope[t]) /\ GlassOk(glass[t])
    BY DEF VisInv, VisOk
  <2>2. Vis!Ox(t) \in Int
    BY DEF VisInv, VisOk, Vis!Ox
  <2>3. CASE t \in held
    <3>1. bars'[t] = [lit |-> bars[t].lit, dot |-> bars[t].dot, valid |-> FALSE, ox |-> bars[t].ox]
      BY <1>4, <2>1, <2>3 DEF BarOk
    <3>2. BarOk(bars'[t])
      BY <2>1, <3>1 DEF BarOk
    <3>3. GlassOk(glass'[t]) /\ missed'[t] \in Nat
      <4>1. glass'[t] = glass[t] /\ missed'[t] = 0
        BY <1>4, <2>3
      <4> QED BY <2>1, <4>1
    <3>4. TraceOk(scope'[t])
      BY <1>1, <2>1
    <3> QED BY <3>2, <3>3, <3>4
  <2>4. CASE t \notin held
    <3>0. lit[t] \in Int
      OBVIOUS
    <3>1. BarOk(bars'[t])
      <4>1. bars'[t] = [lit |-> lit[t], dot |-> dot[t], valid |-> TRUE, ox |-> Vis!Ox(t)]
        BY <1>5, <2>4
      <4> QED BY <2>2, <3>0, <4>1 DEF BarOk
    <3>2. TraceOk(scope'[t])
      BY <1>1, <2>1
    <3> QED BY <1>6, <2>4, <3>1, <3>2
  <2> QED BY <2>3, <2>4
<1>8. VisOk'
  <2>1. /\ bars' = [t \in BarTubes |-> bars'[t]] /\ glass' = [t \in BarTubes |-> glass'[t]]
        /\ missed' \in [BarTubes -> Nat]
    BY <1>7 DEF Vis!DrawBars, Vis!MissedAfter
  <2>2. /\ margin' = [shift |-> margin'.shift, done |-> margin'.done]
        /\ margin'.shift \in Int /\ margin'.done \subseteq BarTubes
    BY <1>1 DEF VisInv, VisOk, Vis!Done, Vis!WholeBars
  <2>3. /\ look.style \in 0..2 /\ shift \in 0..1 /\ off \in [BarTubes -> Int] /\ held \subseteq BarTubes
        /\ scope = [t \in BarTubes |-> scope[t]]
    BY DEF VisInv, VisOk
  <2>4. /\ look'.style \in 0..2 /\ style' \in -1..2 /\ shift' \in 0..1 /\ off' \in [BarTubes -> Int]
        /\ held' \subseteq BarTubes /\ scope' = [t \in BarTubes |-> scope'[t]]
    BY <1>1, <2>3
  <2> QED BY <1>3, <1>7, <2>1, <2>2, <2>4 DEF VisOk
<1>9. \A t \in BarTubes : Vis!Ox(t)' = Vis!Ox(t)
  BY <1>1 DEF Vis!Ox
<1>10. MarginInv'
  <2>1. margin'.shift = shift'
    BY <1>1 DEF Vis!Fresh
  <2>2. ASSUME NEW t \in margin'.done PROVE Beside(glass'[t], Vis!Ox(t)')
    <3>1. t \in BarTubes
      BY <1>8, <2>2 DEF VisOk
    <3>2. CASE t \in held
      <4>1. t \in Vis!Done
        BY <1>1, <2>2, <3>2 DEF Vis!WholeBars
      <4>2. margin.shift = shift /\ ~force /\ style = 0 /\ t \in margin.done
        BY <1>1, <4>1, Zenon DEF Vis!Done, Vis!Fresh, Vis!Again
      <4>3. Beside(glass[t], Vis!Ox(t))
        BY <4>2 DEF VisInv, MarginInv
      <4> QED BY <1>4, <1>9, <3>1, <3>2, <4>3
    <3>3. CASE t \notin held
      BY <1>6, <1>9, <3>1, <3>3 DEF Beside
    <3> QED BY <3>2, <3>3
  <2> QED BY <2>1, <2>2 DEF MarginInv
<1>11. ASSUME NEW t \in BarTubes, Believed(t)'
       PROVE  /\ t \notin held /\ BelievedAt(t)' = Vis!Ox(t)
              /\ Drawing(t)' = Vis!BarRows(lit[t], dot[t], Vis!BarSig(look))
  <2>1. t \notin held
    <3>1. SUFFICES ASSUME t \in held PROVE FALSE
      OBVIOUS
    <3>2. bars'[t].valid = FALSE
      BY <1>4, <3>1 DEF VisInv, VisOk, BarOk
    <3> QED BY <1>1, <1>11, <3>2 DEF Believed
  <2>2. bars'[t] = [lit |-> lit[t], dot |-> dot[t], valid |-> TRUE, ox |-> Vis!Ox(t)]
    BY <1>5, <2>1
  <2>3. BelievedAt(t)' = Vis!Ox(t)
    BY <1>1, <2>2 DEF BelievedAt
  <2>4. Drawing(t)' = Vis!BarRows(lit[t], dot[t], Vis!BarSig(look))
    BY <1>1, <1>3, <2>2 DEF Drawing, Vis!BarRows, Vis!Segment, Vis!Rows, Vis!Black
  <2> QED BY <2>1, <2>3, <2>4
<1>12. EdgeInv'
  BY <1>6, <1>9, <1>11 DEF EdgeInv
<1>13. WantInv' /\ RowsInv'
  BY <1>5, <1>6, <1>11 DEF WantInv, RowsInv
<1>14. AgeInv'
  <2>1. full'["bars"].age \in Nat
    BY <1>3 DEF FullOk
  <2>2. ASSUME NEW t \in BarTubes PROVE missed'[t] <= full'["bars"].age + 1
    <3>1. CASE t \in held
      <4>1. missed'[t] = 0
        BY <1>4, <3>1
      <4> QED BY <2>1, <4>1
    <3>2. CASE t \notin held
      BY <1>6, <3>2
    <3> QED BY <3>1, <3>2
  <2> QED BY <1>1, <2>2 DEF AgeInv, Age
<1>15. Vis!TubesExact'
  <2>1. full'["bars"].age \in 0..(HealAfter + 1)
    BY <1>3 DEF FullOk
  <2>2. ASSUME NEW t \in BarTubes \ held
        PROVE  missed'[t] <= HealAfter + 1
    <3>1. CASE t \in Vis!WholeBars \/ missed[t] = 0
      <4>1. missed'[t] = 0
        BY <1>5, <3>1
      <4> QED BY <4>1, Scales
    <3>2. CASE ~(t \in Vis!WholeBars \/ missed[t] = 0)
      <4>1. ~all
        BY <1>2, <3>2 DEF Vis!WholeBars, Vis!Repainted
      <4>2. full'["bars"].age <= HealAfter
        BY <1>3, <4>1
      <4> QED BY <1>6, <2>1, <4>2, Scales
    <3> QED BY <3>1, <3>2
  <2>3. ASSUME NEW t \in BarTubes, intended'[t] # Vis!Blank(Vis!Held)
        PROVE  t \notin held
    BY <1>4, <2>3
  <2> QED BY <1>6, <1>9, <2>2, <2>3 DEF Vis!TubesExact, Vis!Blank, Vis!Held, Vis!Rows, Vis!Ox
<1> QED BY <1>8, <1>10, <1>12, <1>13, <1>14, <1>15 DEF VisInv

\* A row that neither the old nor the new trace covers shows the same.
LEMMA Uncovered ==
  ASSUME NEW b, NEW spans, NEW sig, NEW y,
         ~(spans[1] <= y /\ y <= spans[2]), ~(b.lo <= y /\ y <= b.hi)
  PROVE  Vis!TraceRow(y, spans, sig) = Vis!TraceRow(y, <<b.lo, b.hi>>, sig)
BY DEF Vis!TraceRow

\* A frame of the trace, of one tube.
LEMMA TraceOfTube ==
  ASSUME VisInv, step \in {"render", "hour"}, look.style > 0, NEW t \in BarTubes \ held,
         NEW spans, NEW g, g = Vis!TraceOn(t, spans)
  PROVE  /\ GlassOk(g) /\ g.at = Vis!Ox(t) /\ g.edge # "old"
         /\ t \in Vis!NewTraces \/ Vis!Heal \/ missed[t] = 0 => g.rows = Vis!TraceRows(spans, Vis!ScopeSig(look))
<1>1. CASE t \in Vis!NewTraces
  BY <1>1 DEF Vis!TraceOn, Vis!Put, GlassOk
<1>2. CASE t \notin Vis!NewTraces
  <2>1. ~force /\ style = look.style /\ scope[t].valid /\ scope[t].ox = Vis!Ox(t)
    BY <1>2 DEF Vis!NewTraces, Vis!Again
  <2>2. style # 0
    BY <2>1 DEF VisInv, VisOk
  <2>3. Believed(t) /\ BelievedAt(t) = Vis!Ox(t)
    BY <2>1, <2>2 DEF Believed, BelievedAt
  <2>4. g = [rows |-> [y \in Vis!Rows |-> IF Vis!Covers(t, spans, y)
                        THEN Vis!TraceRow(y, spans, Vis!ScopeSig(look)) ELSE glass[t].rows[y]],
             at |-> Vis!Ox(t), edge |-> g.edge]
        /\ g.edge = (IF glass[t].at = Vis!Ox(t) \/ glass[t].rows = Vis!Blank(Vis!Black) \/ glass[t].edge = "left"
                     THEN glass[t].edge ELSE "old")
    BY <1>2 DEF Vis!TraceOn, Vis!Put
  <2>5. g.edge # "old"
    BY <2>1, <2>3, <2>4 DEF VisInv, EdgeInv
  <2>6. ASSUME Vis!Heal \/ missed[t] = 0 PROVE g.rows = Vis!TraceRows(spans, Vis!ScopeSig(look))
    <3>1. ASSUME NEW y \in Vis!Rows, ~Vis!Covers(t, spans, y)
          PROVE  glass[t].rows[y] = Vis!TraceRow(y, spans, Vis!ScopeSig(look))
      <4>1. /\ ~Vis!Heal /\ ~(spans[1] <= y /\ y <= spans[2])
            /\ ~(scope[t].lo <= y /\ y <= scope[t].hi)
        BY <3>1 DEF Vis!Covers
      <4>2. full["scope"].sig = Vis!ScopeSig(look)
        BY <4>1 DEF Vis!Heal, Vis!Due
      <4>3. glass[t].rows = Vis!TraceRows(<<scope[t].lo, scope[t].hi>>, Vis!ScopeSig(look))
        BY <2>1, <2>2, <2>3, <2>6, <4>1, <4>2 DEF VisInv, WantInv, RowsInv, Drawing
      <4> QED BY <4>1, <4>3, Uncovered DEF Vis!TraceRows
    <3>2. g.rows = [y \in Vis!Rows |-> IF Vis!Covers(t, spans, y)
                        THEN Vis!TraceRow(y, spans, Vis!ScopeSig(look)) ELSE glass[t].rows[y]]
      BY <2>4
    <3> QED BY <3>1, <3>2 DEF Vis!TraceRows
  <2> QED BY <1>2, <2>4, <2>5, <2>6 DEF GlassOk
<1> QED BY <1>1, <1>2

LEMMA ScopeStep ==
  ASSUME VisInv, step \in {"render", "hour"}, step' = "paint", force' = FALSE, UNCHANGED Vis!outer,
         NEW spans, \A t \in BarTubes : spans[t] \in Vis!Traces, Vis!RenderScope(spans)
  PROVE  VisInv'
<1>1. /\ look.style > 0 /\ style' = look.style /\ style' # 0
      /\ full' = Vis!FullAfter("scope", Vis!Heal, Vis!ScopeSig(look))
      /\ UNCHANGED <<look, shift, off, held, bars, margin>>
  BY DEF Vis!RenderScope, Vis!outer, VisInv, VisOk
<1>2. PICK heal \in BOOLEAN : heal = Vis!Heal
  BY DEF Vis!Heal, Vis!Due
<1>3. /\ full' = [r \in {"bars", "scope"} |-> full'[r]] /\ FullOk(full'["bars"]) /\ FullOk(full'["scope"])
      /\ full'["scope"].sig = Vis!ScopeSig(look)
      /\ ~heal => full["scope"].age \in Nat /\ full'["scope"].age = full["scope"].age + 1
                 /\ full["scope"].age + 1 <= HealAfter
  <2>1. full' = Vis!FullAfter("scope", heal, Vis!ScopeSig(look))
    BY <1>1, <1>2
  <2>2. ~heal => full["scope"].sig = Vis!ScopeSig(look) /\ ~(Vis!Older("scope") > HealAfter)
    BY <1>2 DEF Vis!Heal, Vis!Due
  <2> QED BY <2>1, <2>2, FullOf, Scales
<1>4. ASSUME NEW t \in held
      PROVE  /\ scope'[t] = [scope[t] EXCEPT !.valid = FALSE] /\ glass'[t] = glass[t]
             /\ intended'[t] = Vis!Blank(Vis!Held) /\ missed'[t] = 0
  BY Zenon DEF VisInv, VisOk, Vis!RenderScope, Vis!MissedAfter
<1>5. ASSUME NEW t \in BarTubes \ held
      PROVE  /\ scope'[t] = [lo |-> spans[t][1], hi |-> spans[t][2], valid |-> TRUE, ox |-> Vis!Ox(t)]
             /\ glass'[t] = Vis!TraceOn(t, spans[t])
             /\ intended'[t] = Vis!TraceRows(spans[t], Vis!ScopeSig(look))
             /\ missed'[t] = IF heal \/ t \in Vis!NewTraces \/ missed[t] = 0 THEN 0 ELSE missed[t] + 1
  BY <1>2 DEF Vis!RenderScope, Vis!MissedAfter
<1>6. ASSUME NEW t \in BarTubes \ held
      PROVE  /\ GlassOk(glass'[t]) /\ glass'[t].at = Vis!Ox(t) /\ glass'[t].edge # "old"
             /\ missed'[t] \in Nat
             /\ missed'[t] = 0 => glass'[t].rows = intended'[t]
             /\ missed'[t] <= full'["scope"].age + 1
  <2>1. missed[t] \in Nat
    BY DEF VisInv, VisOk
  <2>2. /\ GlassOk(glass'[t]) /\ glass'[t].at = Vis!Ox(t) /\ glass'[t].edge # "old"
        /\ heal \/ t \in Vis!NewTraces \/ missed[t] = 0 => glass'[t].rows = intended'[t]
    <3>1. ASSUME NEW g, g = Vis!TraceOn(t, spans[t])
          PROVE  /\ GlassOk(g) /\ g.at = Vis!Ox(t) /\ g.edge # "old"
                 /\ heal \/ t \in Vis!NewTraces \/ missed[t] = 0 =>
                      g.rows = Vis!TraceRows(spans[t], Vis!ScopeSig(look))
      BY <1>1, <1>2, <2>1, <3>1, TraceOfTube
    <3> QED BY <1>5, <3>1, Zenon
  <2>3. CASE heal \/ t \in Vis!NewTraces \/ missed[t] = 0
    <3>1. missed'[t] = 0
      BY <1>5, <2>3
    <3>2. full'["scope"].age \in Nat
      BY <1>3 DEF FullOk
    <3> QED BY <2>2, <2>3, <3>1, <3>2
  <2>4. CASE ~(heal \/ t \in Vis!NewTraces \/ missed[t] = 0)
    <3>1. style = look.style
      BY <2>4 DEF Vis!NewTraces, Vis!Again
    <3>2. style # 0
      BY <1>1, <3>1
    <3>3. missed[t] <= full["scope"].age + 1
      BY <3>2 DEF VisInv, AgeInv, Age
    <3>4. missed'[t] = missed[t] + 1
      BY <1>5, <2>4
    <3> QED BY <1>3, <2>1, <2>2, <2>4, <3>3, <3>4
  <2> QED BY <2>3, <2>4
<1>7. ASSUME NEW t \in BarTubes
      PROVE  BarOk(bars'[t]) /\ TraceOk(scope'[t]) /\ GlassOk(glass'[t]) /\ missed'[t] \in Nat
  <2>1. BarOk(bars[t]) /\ TraceOk(scope[t]) /\ GlassOk(glass[t])
    BY DEF VisInv, VisOk
  <2>2. Vis!Ox(t) \in Int
    BY DEF VisInv, VisOk, Vis!Ox
  <2>3. BarOk(bars'[t])
    BY <1>1, <2>1
  <2>4. CASE t \in held
    <3>1. scope'[t] = [lo |-> scope[t].lo, hi |-> scope[t].hi, valid |-> FALSE, ox |-> scope[t].ox]
      BY <1>4, <2>1, <2>4 DEF TraceOk
    <3>2. TraceOk(scope'[t])
      BY <2>1, <3>1 DEF TraceOk
    <3>3. GlassOk(glass'[t]) /\ missed'[t] \in Nat
      <4>1. glass'[t] = glass[t] /\ missed'[t] = 0
        BY <1>4, <2>4
      <4> QED BY <2>1, <4>1
    <3> QED BY <2>3, <3>2, <3>3
  <2>5. CASE t \notin held
    <3>1. /\ spans[t][1] \in Vis!Rows /\ spans[t][2] \in Vis!Rows
          /\ spans[t][1] <= Vis!Mid /\ Vis!Mid <= spans[t][2]
      BY DEF Vis!Traces
    <3>2. scope'[t] = [lo |-> spans[t][1], hi |-> spans[t][2], valid |-> TRUE, ox |-> Vis!Ox(t)]
      BY <1>5, <2>5
    <3>3. TraceOk(scope'[t])
      BY <2>2, <3>1, <3>2 DEF TraceOk
    <3> QED BY <1>6, <2>3, <2>5, <3>3
  <2> QED BY <2>4, <2>5
<1>8. VisOk'
  <2>1. /\ scope' = [t \in BarTubes |-> scope'[t]] /\ glass' = [t \in BarTubes |-> glass'[t]]
        /\ missed' \in [BarTubes -> Nat]
    BY <1>7 DEF Vis!RenderScope, Vis!MissedAfter
  <2>2. /\ margin = [shift |-> margin.shift, done |-> margin.done]
        /\ margin.shift \in Int /\ margin.done \subseteq BarTubes
    BY DEF VisInv, VisOk
  <2>3. /\ look.style \in 0..2 /\ shift \in 0..1 /\ off \in [BarTubes -> Int] /\ held \subseteq BarTubes
        /\ bars = [t \in BarTubes |-> bars[t]]
    BY DEF VisInv, VisOk
  <2>4. /\ look'.style \in 0..2 /\ style' \in -1..2 /\ shift' \in 0..1 /\ off' \in [BarTubes -> Int]
        /\ held' \subseteq BarTubes /\ bars' = [t \in BarTubes |-> bars'[t]]
    BY <1>1, <2>3
  <2>5. /\ margin' = [shift |-> margin'.shift, done |-> margin'.done]
        /\ margin'.shift \in Int /\ margin'.done \subseteq BarTubes
    BY <1>1, <2>2
  <2> QED BY <1>3, <1>7, <2>1, <2>4, <2>5 DEF VisOk
<1>9. \A t \in BarTubes : Vis!Ox(t)' = Vis!Ox(t)
  BY <1>1 DEF Vis!Ox
<1>10. MarginInv'
  BY <1>1 DEF MarginInv
<1>11. ASSUME NEW t \in BarTubes, Believed(t)'
       PROVE  /\ t \notin held /\ BelievedAt(t)' = Vis!Ox(t)
              /\ Drawing(t)' = Vis!TraceRows(spans[t], Vis!ScopeSig(look))
  <2>1. t \notin held
    <3>1. SUFFICES ASSUME t \in held PROVE FALSE
      OBVIOUS
    <3>2. scope'[t].valid = FALSE
      BY <1>4, <3>1 DEF VisInv, VisOk, TraceOk
    <3> QED BY <1>1, <1>11, <3>2 DEF Believed
  <2>2. scope'[t] = [lo |-> spans[t][1], hi |-> spans[t][2], valid |-> TRUE, ox |-> Vis!Ox(t)]
    BY <1>5, <2>1
  <2>3. BelievedAt(t)' = Vis!Ox(t)
    BY <1>1, <2>2 DEF BelievedAt
  <2>4. spans[t] = <<spans[t][1], spans[t][2]>>
    BY DEF Vis!Traces
  <2>5. Drawing(t)' = Vis!TraceRows(<<spans[t][1], spans[t][2]>>, Vis!ScopeSig(look))
    BY <1>1, <1>3, <2>2 DEF Drawing, Vis!TraceRows, Vis!TraceRow, Vis!Rows, Vis!Black, Vis!Mid
  <2> QED BY <2>1, <2>3, <2>4, <2>5
<1>12. EdgeInv'
  BY <1>6, <1>9, <1>11 DEF EdgeInv
<1>13. WantInv' /\ RowsInv'
  BY <1>5, <1>6, <1>11 DEF WantInv, RowsInv
<1>14. AgeInv'
  <2>1. full'["scope"].age \in Nat
    BY <1>3 DEF FullOk
  <2>2. ASSUME NEW t \in BarTubes PROVE missed'[t] <= full'["scope"].age + 1
    <3>1. CASE t \in held
      <4>1. missed'[t] = 0
        BY <1>4, <3>1
      <4> QED BY <2>1, <4>1
    <3>2. CASE t \notin held
      BY <1>6, <3>2
    <3> QED BY <3>1, <3>2
  <2> QED BY <1>1, <2>2 DEF AgeInv, Age
<1>15. Vis!TubesExact'
  <2>1. full'["scope"].age \in 0..(HealAfter + 1)
    BY <1>3 DEF FullOk
  <2>2. ASSUME NEW t \in BarTubes \ held
        PROVE  missed'[t] <= HealAfter + 1
    <3>1. CASE heal \/ t \in Vis!NewTraces \/ missed[t] = 0
      <4>1. missed'[t] = 0
        BY <1>5, <3>1
      <4> QED BY <4>1, Scales
    <3>2. CASE ~(heal \/ t \in Vis!NewTraces \/ missed[t] = 0)
      <4>1. full'["scope"].age <= HealAfter
        BY <1>3, <3>2
      <4> QED BY <1>6, <2>1, <4>1, Scales
    <3> QED BY <3>1, <3>2
  <2>3. ASSUME NEW t \in BarTubes, intended'[t] # Vis!Blank(Vis!Held)
        PROVE  t \notin held
    BY <1>4, <2>3
  <2> QED BY <1>6, <1>9, <2>2, <2>3 DEF Vis!TubesExact, Vis!Blank, Vis!Held, Vis!Rows, Vis!Ox
<1> QED BY <1>8, <1>10, <1>12, <1>13, <1>14, <1>15 DEF VisInv

LEMMA NoMemoryStep ==
  ASSUME VisInv, step' = "paint", force' = FALSE, UNCHANGED Vis!outer, Vis!NoMemory
  PROVE  VisInv'
<1>1. /\ style' = look.style /\ style' \in 1..2
      /\ full' = Vis!FullAfter("scope", FALSE, Vis!ScopeSig(look))
      /\ UNCHANGED <<look, shift, off, held, bars, scope, margin, intended>>
  BY DEF Vis!NoMemory, Vis!outer, VisInv, VisOk
<1>2. /\ full' = [r \in {"bars", "scope"} |-> full'[r]] /\ FullOk(full'["bars"]) /\ FullOk(full'["scope"])
  BY <1>1, FullOf
<1>3. ASSUME NEW t \in BarTubes
      PROVE  glass'[t].edge = "left" /\ GlassOk(glass'[t]) /\ missed'[t] = 1
  <2>1. GlassOk(glass[t]) /\ glass'[t] = [glass[t] EXCEPT !.edge = "left"] /\ missed'[t] = 1
    BY DEF VisInv, VisOk, Vis!NoMemory
  <2>2. glass'[t] = [rows |-> glass[t].rows, at |-> glass[t].at, edge |-> "left"]
    BY <2>1 DEF GlassOk
  <2> QED BY <2>1, <2>2 DEF GlassOk
<1>4. VisOk'
  <2>1. glass' = [t \in BarTubes |-> glass'[t]] /\ missed' \in [BarTubes -> Nat]
    BY <1>3 DEF Vis!NoMemory
  <2>2. style' \in -1..2
    BY <1>1
  <2> QED BY <1>1, <1>2, <1>3, <2>1, <2>2 DEF VisInv, VisOk
<1>5. MarginInv' /\ EdgeInv' /\ WantInv' /\ RowsInv'
  BY <1>1, <1>3 DEF MarginInv, EdgeInv, WantInv, RowsInv
<1>6. AgeInv'
  <2>0. style' # 0
    BY <1>1
  <2>1. full'["scope"].age \in Nat
    BY <1>2, Scales DEF FullOk
  <2>2. ASSUME NEW t \in BarTubes PROVE missed'[t] <= full'["scope"].age + 1
    BY <1>3, <2>1
  <2> QED BY <2>0, <2>2 DEF AgeInv, Age
<1>7. Vis!TubesExact'
  BY <1>3, Scales DEF Vis!TubesExact
<1> QED BY <1>4, <1>5, <1>6, <1>7 DEF VisInv

LEMMA FrameStep == ASSUME VisInv, Vis!Frame PROVE VisInv'
<1>1. step \in {"render", "hour"} /\ step' = "paint" /\ force' = FALSE /\ UNCHANGED Vis!outer
  BY DEF Vis!Frame
<1>2. ASSUME NEW e \in [BarTubes -> Levels], Vis!RenderBars(e) PROVE VisInv'
  <2> DEFINE peak == [t \in BarTubes |-> Vis!PeakAfter(peaks[t], e[t], \A u \in BarTubes : e[u] = 0)]
  <2>1. Vis!DrawBars([t \in BarTubes |-> Vis!Lit(e[t])], [t \in BarTubes |-> Vis!Dot(peak[t].at)])
    BY <1>2 DEF Vis!RenderBars
  <2>2. ASSUME NEW lit, NEW dot, lit = [t \in BarTubes |-> Vis!Lit(e[t])], Vis!DrawBars(lit, dot)
        PROVE  VisInv'
    <3>1. \A t \in BarTubes : lit[t] \in Int
      BY <2>2, Scales
    <3> QED BY <1>1, <2>2, <3>1, BarsStep
  <2> QED BY <2>1, <2>2
<1>3. ASSUME NEW e \in [BarTubes -> Vis!Traces], Vis!RenderScope(e) PROVE VisInv'
  <2>1. \A t \in BarTubes : e[t] \in Vis!Traces
    OBVIOUS
  <2> QED BY <1>1, <1>3, <2>1, ScopeStep
<1>4. ASSUME Vis!NoMemory PROVE VisInv'
  BY <1>1, <1>4, NoMemoryStep
<1> QED BY <1>2, <1>3, <1>4 DEF Vis!Frame

LEMMA SameStep ==
  ASSUME VisInv, UNCHANGED <<shift, off, held, step, style, bars, scope, full, margin, glass, intended, missed>>,
         look'.style \in 0..2, force' \in {force, TRUE}
  PROVE  VisInv'
<1>1. VisOk'
  BY DEF VisInv, VisOk, BarOk, TraceOk, FullOk, GlassOk, Vis!Rows, Vis!Mid
<1>2. \A t \in BarTubes : /\ Vis!Ox(t)' = Vis!Ox(t) /\ Believed(t)' = Believed(t)
                          /\ BelievedAt(t)' = BelievedAt(t) /\ Drawing(t)' = Drawing(t)
  BY DEF Vis!Ox, Believed, BelievedAt, Drawing, Vis!BarRows, Vis!TraceRows, Vis!Segment, Vis!TraceRow,
     Vis!Rows, Vis!Black, Vis!Mid
<1>3. ~force' => ~force
  BY DEF VisInv, VisOk
<1>4. MarginInv'
  BY <1>2, <1>3 DEF VisInv, VisOk, MarginInv, Beside, Vis!Blank, Vis!Black, Vis!Rows
<1>7. EdgeInv'
  BY <1>2, <1>3 DEF VisInv, EdgeInv, Vis!Blank, Vis!Black, Vis!Rows
<1>5. WantInv' /\ RowsInv'
  BY <1>2, <1>3 DEF VisInv, WantInv, RowsInv
<1>6. AgeInv' /\ Vis!TubesExact'
  BY <1>2 DEF VisInv, AgeInv, Age, Vis!TubesExact, Vis!Blank, Vis!Held, Vis!Rows
<1> QED BY <1>1, <1>4, <1>5, <1>6, <1>7 DEF VisInv

LEMMA VisPaintStep == ASSUME VisInv, Vis!Paint PROVE VisInv'
<1>1. /\ step = "paint" /\ step' = "render"
      /\ UNCHANGED <<look, shift, off, held, force, style, bars, scope, full, margin, intended, missed>>
  BY DEF Vis!Paint, Vis!outer
<1>2. ASSUME NEW t \in BarTubes
      PROVE  GlassOk(glass'[t]) /\ (t \in held => glass'[t].edge = "left") /\ (t \notin held => glass'[t] = glass[t])
  <2>1. glass'[t] = IF t \in held THEN [rows |-> Vis!Blank(Vis!Held), at |-> Vis!Ox(t), edge |-> "left"] ELSE glass[t]
    BY DEF Vis!Paint
  <2> QED BY <2>1 DEF GlassOk, VisInv, VisOk
<1>3. VisOk'
  <2>1. glass' = [t \in BarTubes |-> glass'[t]]
    BY DEF Vis!Paint
  <2> QED BY <1>1, <1>2, <2>1 DEF VisInv, VisOk, BarOk, TraceOk, FullOk, Vis!Rows, Vis!Mid
<1>4. \A t \in BarTubes : /\ Vis!Ox(t)' = Vis!Ox(t) /\ Believed(t)' = Believed(t)
                          /\ BelievedAt(t)' = BelievedAt(t) /\ Drawing(t)' = Drawing(t)
  BY <1>1 DEF Vis!Ox, Believed, BelievedAt, Drawing, Vis!BarRows, Vis!TraceRows, Vis!Segment, Vis!TraceRow,
     Vis!Rows, Vis!Black, Vis!Mid
<1>5. MarginInv'
  BY <1>1, <1>2, <1>4 DEF VisInv, VisOk, MarginInv, Beside, Vis!Blank, Vis!Black, Vis!Rows
<1>8. EdgeInv'
  <2>1. SUFFICES ASSUME ~force', NEW t \in BarTubes \ held, Believed(t)'
                 PROVE  \/ glass'[t].edge = "left"
                        \/ /\ glass'[t].edge # "old"
                           /\ \/ glass'[t].rows = Vis!Blank(Vis!Black)
                              \/ /\ glass'[t].at = BelievedAt(t)'
                                 /\ (step' # "hour" <=> Vis!Ox(t)' = BelievedAt(t)')
    BY <1>2 DEF EdgeInv, Vis!Blank, Vis!Black, Vis!Rows
  <2>2. glass'[t] = glass[t] /\ ~force /\ Believed(t)
    BY <1>1, <1>2, <1>4, <2>1
  <2> QED BY <1>1, <1>4, <2>2 DEF VisInv, EdgeInv
<1>6. WantInv' /\ RowsInv'
  BY <1>1, <1>2, <1>4 DEF VisInv, WantInv, RowsInv
<1>7. AgeInv' /\ Vis!TubesExact'
  BY <1>1 DEF VisInv, AgeInv, Age, Vis!TubesExact
<1> QED BY <1>3, <1>5, <1>6, <1>7, <1>8 DEF VisInv

LEMMA VisElsewhereStep == ASSUME VisInv, Vis!Elsewhere PROVE VisInv'
<1>1. /\ step = "render" /\ step' = "render" /\ force' = TRUE
      /\ UNCHANGED <<look, shift, off, held, style, bars, scope, full, margin, intended, missed>>
  BY DEF Vis!Elsewhere, Vis!drawn
<1>2. VisOk'
  <2>1. glass' = [t \in BarTubes |-> glass'[t]]
    BY DEF Vis!Elsewhere
  <2>2. ASSUME NEW t \in BarTubes PROVE GlassOk(glass'[t])
    <3>1. glass'[t] = IF t \in held THEN glass[t]
                      ELSE [rows |-> Vis!Blank(<<"mode">>), at |-> Vis!Ox(t), edge |-> "old"]
      BY DEF Vis!Elsewhere
    <3> QED BY <3>1 DEF GlassOk, VisInv, VisOk
  <2> QED BY <1>1, <2>1, <2>2 DEF VisInv, VisOk, BarOk, TraceOk, FullOk, Vis!Rows, Vis!Mid
<1>3. \A t \in BarTubes : Believed(t)' = Believed(t) /\ Drawing(t)' = Drawing(t)
  BY <1>1 DEF Believed, Drawing, Vis!BarRows, Vis!TraceRows, Vis!Segment, Vis!TraceRow,
     Vis!Rows, Vis!Black, Vis!Mid
<1>4. MarginInv' /\ EdgeInv' /\ RowsInv'
  BY <1>1 DEF VisInv, MarginInv, EdgeInv, RowsInv
<1>5. WantInv'
  BY <1>1, <1>3 DEF VisInv, WantInv
<1>6. AgeInv' /\ Vis!TubesExact'
  BY <1>1 DEF VisInv, AgeInv, Age, Vis!TubesExact
<1> QED BY <1>2, <1>4, <1>5, <1>6 DEF VisInv

LEMMA HourStep == ASSUME VisInv, Vis!Hour PROVE VisInv'
<1>1. /\ step = "render" /\ step' = "hour" /\ shift' = 1 - shift
      /\ UNCHANGED <<look, off, held, force, style, bars, scope, full, margin, glass, intended, missed>>
  BY DEF Vis!Hour, Vis!drawn
<1>2. VisOk'
  BY <1>1 DEF VisInv, VisOk, BarOk, TraceOk, FullOk, GlassOk, Vis!Rows, Vis!Mid
<1>3. \A t \in BarTubes : /\ Believed(t)' = Believed(t) /\ Drawing(t)' = Drawing(t)
                          /\ BelievedAt(t)' = BelievedAt(t)
  BY <1>1 DEF Believed, BelievedAt, Drawing, Vis!BarRows, Vis!TraceRows, Vis!Segment, Vis!TraceRow,
     Vis!Rows, Vis!Black, Vis!Mid
<1>4. shift' # shift /\ \A t \in BarTubes : Vis!Ox(t)' # Vis!Ox(t)
  BY <1>1 DEF VisInv, VisOk, Vis!Ox
<1>5. MarginInv'
  BY <1>1, <1>4 DEF VisInv, MarginInv
<1>6. EdgeInv'
  <2>1. SUFFICES ASSUME ~force', NEW t \in BarTubes, Believed(t)'
                 PROVE  \/ glass'[t].edge = "left"
                        \/ /\ glass'[t].edge # "old"
                           /\ \/ glass'[t].rows = Vis!Blank(Vis!Black)
                              \/ /\ glass'[t].at = BelievedAt(t)'
                                 /\ (step' # "hour" <=> Vis!Ox(t)' = BelievedAt(t)')
    BY DEF EdgeInv, Vis!Blank, Vis!Black, Vis!Rows
  <2>2. \/ glass[t].edge = "left"
        \/ /\ glass[t].edge # "old"
           /\ \/ glass[t].rows = Vis!Blank(Vis!Black)
              \/ glass[t].at = BelievedAt(t) /\ Vis!Ox(t) = BelievedAt(t)
    BY <1>1, <1>3, <2>1 DEF VisInv, EdgeInv
  <2> QED BY <1>1, <1>3, <1>4, <2>2
<1>7. WantInv' /\ RowsInv'
  BY <1>1, <1>3 DEF VisInv, WantInv, RowsInv
<1>8. AgeInv' /\ Vis!TubesExact'
  BY <1>1 DEF VisInv, AgeInv, Age, Vis!TubesExact
<1> QED BY <1>2, <1>5, <1>6, <1>7, <1>8 DEF VisInv

LEMMA ResetStep == ASSUME VisInv, NEW u \in BarTubes, Vis!PanelReset(u) PROVE VisInv'
<1>1. /\ step = "render" /\ step' = "render"
      /\ UNCHANGED <<look, shift, held, force, style, bars, scope, full, margin, intended>>
  BY DEF Vis!PanelReset, Vis!drawn
<1>2. off' \in [BarTubes -> Int] /\ \A t \in BarTubes \ {u} : off'[t] = off[t]
  BY DEF Vis!PanelReset, VisInv, VisOk
<1>3. PICK x : glass' = [glass EXCEPT ![u] = [rows |-> Vis!Blank(Vis!Black), at |-> x, edge |-> "black"]]
  BY DEF Vis!PanelReset
<1>4. /\ glass' = [t \in BarTubes |-> glass'[t]]
      /\ glass'[u] = [rows |-> Vis!Blank(Vis!Black), at |-> x, edge |-> "black"]
      /\ \A t \in BarTubes \ {u} : glass'[t] = glass[t]
  BY <1>3 DEF VisInv, VisOk
<1>5. /\ missed' \in [BarTubes -> Nat] /\ \A t \in BarTubes \ {u} : missed'[t] = missed[t]
      /\ IF u \in held THEN missed'[u] = missed[u] ELSE missed'[u] = 1
  BY DEF Vis!PanelReset, VisInv, VisOk
<1>6. VisOk'
  <2>1. \A t \in BarTubes : GlassOk(glass'[t])
    BY <1>4 DEF VisInv, VisOk, GlassOk
  <2> QED BY <1>1, <1>2, <1>4, <1>5, <2>1 DEF VisInv, VisOk, BarOk, TraceOk, FullOk, Vis!Rows, Vis!Mid
<1>7. \A t \in BarTubes : /\ Believed(t)' = Believed(t) /\ Drawing(t)' = Drawing(t)
                          /\ BelievedAt(t)' = BelievedAt(t)
  BY <1>1 DEF Believed, BelievedAt, Drawing, Vis!BarRows, Vis!TraceRows, Vis!Segment, Vis!TraceRow,
     Vis!Rows, Vis!Black, Vis!Mid
<1>8. \A t \in BarTubes \ {u} : Vis!Ox(t)' = Vis!Ox(t)
  BY <1>1, <1>2 DEF Vis!Ox
<1>9. MarginInv'
  <2>1. SUFFICES ASSUME style' = 0
                 PROVE  /\ step' = "hour" <=> margin'.shift # shift'
                        /\ ~force' => \A t \in margin'.done : Beside(glass'[t], Vis!Ox(t)')
    BY DEF MarginInv, Beside, Vis!Blank, Vis!Black, Vis!Rows
  <2>2. ASSUME ~force', NEW t \in margin'.done PROVE Beside(glass'[t], Vis!Ox(t)')
    <3>1. CASE t = u
      BY <1>4, <3>1 DEF Beside
    <3>2. CASE t # u
      <4>1. t \in BarTubes /\ Beside(glass[t], Vis!Ox(t))
        BY <1>1, <2>1, <2>2 DEF VisInv, VisOk, MarginInv
      <4> QED BY <1>4, <1>8, <3>2, <4>1
    <3> QED BY <3>1, <3>2
  <2> QED BY <1>1, <2>1, <2>2 DEF VisInv, MarginInv
<1>10. EdgeInv'
  <2>1. SUFFICES ASSUME ~force', NEW t \in BarTubes, Believed(t)'
                 PROVE  \/ glass'[t].edge = "left"
                        \/ /\ glass'[t].edge # "old"
                           /\ \/ glass'[t].rows = Vis!Blank(Vis!Black)
                              \/ /\ glass'[t].at = BelievedAt(t)'
                                 /\ (step' # "hour" <=> Vis!Ox(t)' = BelievedAt(t)')
    BY DEF EdgeInv, Vis!Blank, Vis!Black, Vis!Rows
  <2>2. CASE t = u
    BY <1>4, <2>2
  <2>3. CASE t # u
    <3>1. \/ glass[t].edge = "left"
          \/ /\ glass[t].edge # "old"
             /\ \/ glass[t].rows = Vis!Blank(Vis!Black)
                \/ glass[t].at = BelievedAt(t) /\ Vis!Ox(t) = BelievedAt(t)
      BY <1>1, <1>7, <2>1 DEF VisInv, EdgeInv
    <3> QED BY <1>1, <1>4, <1>7, <1>8, <2>3, <3>1
  <2> QED BY <2>2, <2>3
<1>11. WantInv' /\ RowsInv'
  BY <1>1, <1>4, <1>5, <1>7 DEF VisInv, WantInv, RowsInv
<1>12. AgeInv'
  <2>1. (Age)' = Age /\ Age \in Nat
    BY <1>1, Scales DEF Age, VisInv, VisOk, FullOk
  <2>2. ASSUME NEW t \in BarTubes PROVE missed'[t] <= Age + 1
    BY <1>5, <2>1 DEF VisInv, AgeInv
  <2> QED BY <2>1, <2>2 DEF AgeInv
<1>13. Vis!TubesExact'
  BY <1>1 DEF Vis!TubesExact
<1> QED BY <1>6, <1>9, <1>10, <1>11, <1>12, <1>13 DEF VisInv

LEMMA BeginStep == ASSUME VisInv, NEW u \in BarTubes, Vis!Begin(u) PROVE VisInv'
<1>1. /\ held' = held \union {u}
      /\ UNCHANGED <<look, shift, off, step, force, style, bars, scope, full, margin, glass, intended, missed>>
  BY DEF Vis!Begin, Vis!drawn
<1>2. VisOk'
  BY <1>1 DEF VisInv, VisOk, BarOk, TraceOk, FullOk, GlassOk, Vis!Rows, Vis!Mid
<1>3. \A t \in BarTubes : /\ Vis!Ox(t)' = Vis!Ox(t) /\ Believed(t)' = Believed(t)
                          /\ BelievedAt(t)' = BelievedAt(t) /\ Drawing(t)' = Drawing(t)
  BY <1>1 DEF Vis!Ox, Believed, BelievedAt, Drawing, Vis!BarRows, Vis!TraceRows, Vis!Segment, Vis!TraceRow,
     Vis!Rows, Vis!Black, Vis!Mid
<1>4. MarginInv'
  BY <1>1, <1>3 DEF VisInv, VisOk, MarginInv, Beside, Vis!Blank, Vis!Black, Vis!Rows
<1>5. EdgeInv'
  BY <1>1, <1>3 DEF VisInv, EdgeInv, Vis!Blank, Vis!Black, Vis!Rows
<1>6. WantInv' /\ RowsInv'
  BY <1>1, <1>3 DEF VisInv, WantInv, RowsInv
<1>7. AgeInv' /\ Vis!TubesExact'
  BY <1>1, <1>3 DEF VisInv, AgeInv, Age, Vis!TubesExact, Vis!Blank, Vis!Held, Vis!Rows
<1> QED BY <1>2, <1>4, <1>5, <1>6, <1>7 DEF VisInv

LEMMA EndStep == ASSUME VisInv, Vis!End PROVE VisInv'
<1>1. /\ held' = {}
      /\ UNCHANGED <<look, shift, off, step, force, style, bars, scope, full, margin, glass, intended>>
  BY DEF Vis!End, Vis!drawn
<1>2. /\ missed' \in [BarTubes -> Nat]
      /\ \A t \in BarTubes : missed'[t] = IF t \in held /\ Vis!Unseen(t) THEN 1 ELSE missed[t]
  BY DEF Vis!End, VisInv, VisOk
<1>3. VisOk'
  BY <1>1, <1>2 DEF VisInv, VisOk, BarOk, TraceOk, FullOk, GlassOk, Vis!Rows, Vis!Mid
<1>4. \A t \in BarTubes : /\ Vis!Ox(t)' = Vis!Ox(t) /\ Believed(t)' = Believed(t)
                          /\ BelievedAt(t)' = BelievedAt(t) /\ Drawing(t)' = Drawing(t)
  BY <1>1 DEF Vis!Ox, Believed, BelievedAt, Drawing, Vis!BarRows, Vis!TraceRows, Vis!Segment, Vis!TraceRow,
     Vis!Rows, Vis!Black, Vis!Mid
<1>5. MarginInv'
  BY <1>1, <1>4 DEF VisInv, VisOk, MarginInv, Beside, Vis!Blank, Vis!Black, Vis!Rows
<1>6. EdgeInv'
  BY <1>1, <1>4 DEF VisInv, EdgeInv, Vis!Blank, Vis!Black, Vis!Rows
<1>7. WantInv'
  BY <1>1, <1>2, <1>4 DEF VisInv, WantInv
<1>8. RowsInv'
  <2>1. SUFFICES ASSUME ~force', NEW t \in BarTubes, Believed(t)', missed'[t] = 0
                 PROVE  glass[t].rows = intended[t]
    BY <1>1 DEF RowsInv
  <2>2. ~force /\ Believed(t) /\ missed[t] = 0 /\ (t \in held => ~Vis!Unseen(t))
    BY <1>1, <1>2, <1>4, <2>1
  <2>3. CASE t \in held
    <3>1. intended[t] = Vis!Blank(Vis!Held) \/ intended[t] = glass[t].rows
      BY <2>2, <2>3 DEF Vis!Unseen
    <3>2. intended[t] = Drawing(t)
      BY <2>2 DEF VisInv, WantInv
    <3> QED BY <2>2, <3>1, <3>2, DrawingNotHeld DEF VisInv
  <2>4. CASE t \notin held
    BY <2>2, <2>4 DEF VisInv, RowsInv
  <2> QED BY <2>3, <2>4
<1>9. AgeInv'
  <2>1. (Age)' = Age /\ Age \in Nat
    BY <1>1, Scales DEF Age, VisInv, VisOk, FullOk
  <2>2. ASSUME NEW t \in BarTubes PROVE missed'[t] <= Age + 1
    BY <1>2, <2>1 DEF VisInv, AgeInv
  <2> QED BY <2>1, <2>2 DEF AgeInv
<1>10. Vis!TubesExact'
  <2>1. SUFFICES ASSUME step' = "paint", NEW t \in BarTubes, intended'[t] # Vis!Blank(Vis!Held)
                 PROVE  IF missed'[t] = 0
                        THEN glass'[t].rows = intended'[t] /\ glass'[t].at = Vis!Ox(t)' /\ glass'[t].edge # "old"
                        ELSE missed'[t] <= HealAfter + 1
    BY DEF Vis!TubesExact, Vis!Blank, Vis!Held, Vis!Rows
  <2>2. IF missed[t] = 0
        THEN glass[t].rows = intended[t] /\ glass[t].at = Vis!Ox(t) /\ glass[t].edge # "old"
        ELSE missed[t] <= HealAfter + 1
    BY <1>1, <2>1 DEF VisInv, Vis!TubesExact
  <2> QED BY <1>1, <1>2, <1>4, <2>2, Scales
<1> QED BY <1>3, <1>5, <1>6, <1>7, <1>8, <1>9, <1>10 DEF VisInv

LEMMA VisStep == VisInv /\ [Next]_vars => VisInv'
<1> SUFFICES ASSUME VisInv, [Next]_vars PROVE VisInv'
  OBVIOUS
<1>1. CASE Vis!Frame
  BY <1>1, FrameStep
<1>2. CASE Vis!Paint
  BY <1>2, VisPaintStep
<1>3. CASE Vis!Save \/ Vis!Strip
  <2>1. UNCHANGED <<shift, off, held, step, style, bars, scope, full, margin, glass, intended, missed>>
    BY <1>3 DEF Vis!Save, Vis!Strip, Vis!drawn
  <2>2. look'.style \in 0..2 /\ force' \in {force, TRUE}
    BY <1>3 DEF Vis!Save, Vis!Strip, VisInv, VisOk
  <2> QED BY <2>1, <2>2, SameStep
<1>4. CASE Vis!Elsewhere
  BY <1>4, VisElsewhereStep
<1>5. CASE Vis!Hour
  BY <1>5, HourStep
<1>6. ASSUME NEW t \in BarTubes, Vis!PanelReset(t) PROVE VisInv'
  BY <1>6, ResetStep
<1>7. ASSUME NEW t \in BarTubes, Vis!Begin(t) PROVE VisInv'
  BY <1>7, BeginStep
<1>8. CASE Vis!End
  BY <1>8, EndStep
<1>9. CASE UNCHANGED visVars
  <2>1. UNCHANGED <<shift, off, held, step, style, bars, scope, full, margin, glass, intended, missed>>
        /\ look' = look /\ force' = force
    BY <1>9 DEF visVars
  <2> QED BY <2>1, SameStep DEF VisInv, VisOk
<1>10. Vis!VisNext \/ UNCHANGED visVars
  BY DEF Next, vars, MicPart, SignalPart, TouchPart, FacePart, BarsPart, SkyPart, PanelsPart, TimersPart, AlbumPart
<1> QED BY <1>1, <1>2, <1>3, <1>4, <1>5, <1>6, <1>7, <1>8, <1>9, <1>10 DEF Vis!VisNext

-----------------------------------------------------------------------------
(* The sky *)

RowOk(p) == p = [px |-> p.px, at |-> p.at, by |-> p.by]
SkyOk ==
  /\ phase \in {"render", "paint"} /\ again \in BOOLEAN /\ kept \in BOOLEAN
  /\ bar \in BOOLEAN /\ barWas \in BOOLEAN /\ toggles \in 0..2
  /\ prev = [pic |-> prev.pic, valid |-> prev.valid, col |-> prev.col, age |-> prev.age]
  /\ prev.valid \in BOOLEAN /\ prev.age \in 0..(StaleAfter + 1) /\ idle \in 0..(StaleAfter + 1)
  /\ cache = [valid |-> cache.valid, colour |-> cache.colour] /\ cache.valid \in BOOLEAN
  /\ pixels = [r \in Sky!Rows |-> pixels[r]] /\ \A r \in Sky!Rows : RowOk(pixels[r])

\* What the renderer takes for the age of its guide is no less than it is.
IdleInv == phase = "render" \/ sent # "rows" => idle <= prev.age

\* A row sent by comparison shows the frame kept as a guide, where the window was then;
\* the row of the bar is excepted while the bar is not as it was stamped.
GuideInv ==
  prev.valid =>
    /\ "rows" \in ram
    /\ \A r \in Sky!Rows : pixels[r].by = "rows" =>
         /\ pixels[r].at = prev.col
         /\ pixels[r].px = Sky!Shown(prev.pic, r) \/ (r = "low" /\ tube = "last" /\ toggles = 1)

BarInv == tube = "last" => (toggles = 0 => bar = barWas) /\ (toggles = 1 => bar # barWas)

\* A kept colon is that of the style drawn last, and the picture around its box is too.
CacheInv ==
  cache.valid =>
    /\ tube = "colon" /\ cursor = <<"art", cache.colour>>
    /\ \/ again
       \/ /\ scene.layout = "colon"
          /\ \/ pixels["low"].by = "other" \/ (phase = "paint" /\ kept)
             \/ pixels["low"].px = <<"art", cache.colour>> /\ pixels["low"].at = col

SkyInv == SkyOk /\ IdleInv /\ GuideInv /\ BarInv /\ CacheInv /\ Sky!RowsExact

\* What a frame leaves of the tube and of its guide.
Framed ==
  /\ barWas \in BOOLEAN /\ toggles \in 0..2
  /\ prev = [pic |-> prev.pic, valid |-> prev.valid, col |-> prev.col, age |-> prev.age]
  /\ prev.valid \in BOOLEAN /\ prev.age \in 0..(StaleAfter + 1)
  /\ pixels = [r \in Sky!Rows |-> pixels[r]] /\ \A r \in Sky!Rows : RowOk(pixels[r])
  /\ sent = "rows" \/ idle <= prev.age
  /\ GuideInv /\ BarInv
Right(r) == pixels[r].px = aim[r] /\ pixels[r].at = col

LEMMA LaterOk ==
  ASSUME NEW n \in 0..(StaleAfter + 1), NEW m \in 0..(StaleAfter + 1), NEW d \in Nat
  PROVE  Sky!Later(n, d) \in 0..(StaleAfter + 1) /\ (n <= m => Sky!Later(n, d) <= Sky!Later(m, d))
BY FrontPanelAssumption DEF Sky!Later

LEMMA SkyInitial == Sky!SkyInit => SkyInv
<1> SUFFICES ASSUME Sky!SkyInit PROVE SkyInv
  OBVIOUS
<1>1. ASSUME NEW r \in Sky!Rows PROVE RowOk(pixels[r])
  BY DEF Sky!SkyInit, Sky!Painted, RowOk
<1>2. SkyOk
  <2>1. again \in BOOLEAN /\ kept \in BOOLEAN /\ bar \in BOOLEAN /\ barWas \in BOOLEAN
    BY Zenon DEF Sky!SkyInit
  <2>2. /\ prev = [pic |-> prev.pic, valid |-> prev.valid, col |-> prev.col, age |-> prev.age]
        /\ prev.valid \in BOOLEAN /\ prev.age = 0
        /\ cache = [valid |-> cache.valid, colour |-> cache.colour] /\ cache.valid \in BOOLEAN
    BY DEF Sky!SkyInit
  <2>3. pixels = [r \in Sky!Rows |-> pixels[r]]
    BY DEF Sky!SkyInit, Sky!Painted
  <2> QED BY <1>1, <2>1, <2>2, <2>3, FrontPanelAssumption DEF Sky!SkyInit, SkyOk
<1>3. IdleInv
  BY DEF Sky!SkyInit, IdleInv
<1>4. BarInv
  <2>1. bar = barWas
    BY Zenon DEF Sky!SkyInit
  <2>2. toggles # 1
    BY DEF Sky!SkyInit
  <2> QED BY <2>1, <2>2 DEF BarInv
<1>5. GuideInv /\ CacheInv /\ Sky!RowsExact
  BY DEF Sky!SkyInit, GuideInv, CacheInv, Sky!RowsExact
<1> QED BY <1>2, <1>3, <1>4, <1>5 DEF SkyInv

\* The guide of a frame that sent no rows.
LEMMA GuideLeft ==
  ASSUME SkyInv, phase = "render", UNCHANGED <<tube, col, bar>>, ram \subseteq ram', idle' = Sky!Later(idle, 1),
         prev' = Sky!PrevLeft, UNCHANGED <<barWas, toggles>>,
         pixels' = [r \in Sky!Rows |-> pixels'[r]],
         \A r \in Sky!Rows : RowOk(pixels'[r]) /\ (pixels'[r].by = "rows" => pixels'[r] = pixels[r])
  PROVE  Framed'
<1>1. prev' = [pic |-> prev.pic, valid |-> prev.valid, col |-> prev.col, age |-> Sky!Later(prev.age, 1)]
  BY DEF SkyInv, SkyOk, Sky!PrevLeft
<1>2. prev'.age \in 0..(StaleAfter + 1) /\ idle' <= prev'.age
  <2>1. idle <= prev.age /\ prev.age \in 0..(StaleAfter + 1) /\ idle \in 0..(StaleAfter + 1)
    BY DEF SkyInv, SkyOk, IdleInv
  <2> QED BY <1>1, <2>1, LaterOk
<1>3. GuideInv'
  BY <1>1 DEF SkyInv, GuideInv, Sky!Shown, Sky!Rows
<1>4. BarInv'
  BY DEF SkyInv, BarInv
<1>5. /\ barWas' \in BOOLEAN /\ toggles' \in 0..2 /\ prev'.valid \in BOOLEAN
      /\ prev' = [pic |-> prev'.pic, valid |-> prev'.valid, col |-> prev'.col, age |-> prev'.age]
  BY <1>1 DEF SkyInv, SkyOk
<1> QED BY <1>2, <1>3, <1>4, <1>5 DEF Framed, Sky!Rows, RowOk

\* A frame whose rows are compared.
LEMMA RowsSent ==
  ASSUME SkyInv, phase = "render", UNCHANGED <<tube, col, bar>>, ram \subseteq ram', idle' = Sky!Later(idle, 1),
         NEW pic, Sky!SendRows(pic)
  PROVE  /\ Framed' /\ sent' = "rows"
         /\ \A r \in Sky!Rows : Right(r)' \/ (pixels'[r].by # "rows" /\ idle' <= StaleAfter)
<1>1. /\ pixels' = Sky!PushRows(pic) /\ prev' = Sky!PrevAfter(pic) /\ sent' = "rows"
      /\ \A r \in Sky!Rows : aim'[r] = Sky!Shown(pic, r)
  BY DEF Sky!SendRows, Sky!Aim
<1>2. CASE Sky!Unguided
  <2>1. /\ pixels' = [r \in Sky!Rows |-> pixels'[r]]
        /\ \A r \in Sky!Rows : pixels'[r] = [px |-> Sky!Shown(pic, r), at |-> col, by |-> "rows"]
    BY <1>1, <1>2 DEF Sky!PushRows, Sky!PushWhole, Sky!Sent
  <2>2. UNCHANGED <<barWas, toggles>>
    BY <1>2 DEF Sky!SendRows, SkyInv, SkyOk
  <2>3. BarInv'
    BY <2>2 DEF SkyInv, BarInv
  <2>4. CASE "rows" \in ram'
    <3>1. prev' = [pic |-> pic, valid |-> TRUE, col |-> col, age |-> 0]
      BY <1>1, <2>4 DEF Sky!PrevAfter
    <3>2. GuideInv'
      BY <2>1, <2>4, <3>1 DEF GuideInv, Sky!Shown, Sky!Rows
    <3>3. barWas' \in BOOLEAN /\ toggles' \in 0..2
      BY <2>2 DEF SkyInv, SkyOk
    <3>4. Framed'
      BY <1>1, <2>1, <2>3, <3>1, <3>2, <3>3, FrontPanelAssumption DEF Framed, RowOk, Sky!Rows
    <3> QED BY <1>1, <2>1, <3>4 DEF Right
  <2>5. CASE "rows" \notin ram'
    <3>1. prev' = Sky!PrevLeft /\ ~prev.valid
      BY <1>1, <2>5 DEF Sky!PrevAfter, SkyInv, GuideInv
    <3>2. prev' = [pic |-> prev.pic, valid |-> prev.valid, col |-> prev.col, age |-> Sky!Later(prev.age, 1)]
      BY <3>1 DEF SkyInv, SkyOk, Sky!PrevLeft
    <3>3. prev'.age \in 0..(StaleAfter + 1)
      BY <3>2, LaterOk DEF SkyInv, SkyOk
    <3>4. GuideInv'
      BY <3>1, <3>2 DEF GuideInv
    <3>5. barWas' \in BOOLEAN /\ toggles' \in 0..2 /\ prev'.valid \in BOOLEAN
      BY <2>2, <3>2 DEF SkyInv, SkyOk
    <3>6. Framed'
      BY <1>1, <2>1, <2>3, <3>2, <3>3, <3>4, <3>5 DEF Framed, RowOk, Sky!Rows
    <3> QED BY <1>1, <2>1, <3>6 DEF Right
  <2> QED BY <2>4, <2>5
<1>3. CASE ~Sky!Unguided
  <2>1. "rows" \in ram' /\ prev.valid /\ prev.col = col /\ ~(Sky!Later(prev.age, 1) > StaleAfter)
    BY <1>3 DEF Sky!Unguided
  <2>2. prev' = [pic |-> pic, valid |-> TRUE, col |-> col, age |-> 0]
    BY <1>1, <2>1 DEF Sky!PrevAfter
  <2>3. toggles' = 0 /\ barWas' = IF tube = "last" THEN bar ELSE barWas
    BY <1>3 DEF Sky!SendRows
  <2>4. /\ pixels' = [r \in Sky!Rows |-> pixels'[r]]
        /\ \A r \in Sky!Rows : pixels'[r] = IF r \in Sky!Resent(pic)
                                            THEN [px |-> Sky!Shown(pic, r), at |-> col, by |-> "rows"] ELSE pixels[r]
    BY <1>1, <1>3 DEF Sky!PushRows, Sky!Sent
  <2>5. ASSUME NEW r \in Sky!Rows
        PROVE  /\ RowOk(pixels'[r])
               /\ pixels'[r].by = "rows" => pixels'[r].px = Sky!Shown(pic, r) /\ pixels'[r].at = col
    <3>1. CASE r \in Sky!Resent(pic)
      BY <2>4, <3>1 DEF RowOk
    <3>2. CASE r \notin Sky!Resent(pic)
      <4>1. pixels'[r] = pixels[r] /\ RowOk(pixels[r])
        BY <2>4, <3>2 DEF SkyInv, SkyOk
      <4>2. pic[r] = prev.pic[r] /\ (tube = "last" /\ r = "low" => bar = barWas)
        BY <3>2 DEF Sky!Resent, Sky!DirtyRows
      <4>3. tube = "last" /\ r = "low" => toggles # 1
        BY <4>2 DEF SkyInv, BarInv
      <4>4. ASSUME pixels[r].by = "rows"
            PROVE  pixels[r].at = col /\ pixels[r].px = Sky!Shown(prev.pic, r)
        BY <2>1, <4>3, <4>4 DEF SkyInv, GuideInv
      <4> QED BY <4>1, <4>2, <4>4 DEF Sky!Shown
    <3> QED BY <3>1, <3>2
  <2>6. GuideInv'
    BY <2>1, <2>2, <2>5 DEF GuideInv, Sky!Shown, Sky!Rows
  <2>7. BarInv'
    BY <2>3 DEF BarInv
  <2>8. barWas' \in BOOLEAN /\ toggles' \in 0..2
    BY <2>3 DEF SkyInv, SkyOk
  <2>9. idle' <= StaleAfter
    <3>1. idle <= prev.age /\ prev.age \in 0..(StaleAfter + 1) /\ idle \in 0..(StaleAfter + 1)
      BY DEF SkyInv, SkyOk, IdleInv
    <3>2. /\ Sky!Later(idle, 1) \in 0..(StaleAfter + 1) /\ Sky!Later(prev.age, 1) \in 0..(StaleAfter + 1)
          /\ Sky!Later(idle, 1) <= Sky!Later(prev.age, 1)
      BY <3>1, LaterOk
    <3> QED BY <2>1, <3>2, FrontPanelAssumption
  <2>10. Framed'
    BY <1>1, <2>2, <2>4, <2>5, <2>6, <2>7, <2>8, FrontPanelAssumption DEF Framed, Sky!Rows, RowOk
  <2> QED BY <1>1, <2>5, <2>9, <2>10 DEF Right
<1> QED BY <1>2, <1>3

\* A frame pushed whole.
LEMMA WholeSent ==
  ASSUME SkyInv, phase = "render", UNCHANGED <<tube, col, bar>>, ram \subseteq ram', idle' = Sky!Later(idle, 1),
         NEW pic, Sky!SendWhole(pic)
  PROVE  /\ Framed'
         /\ \A r \in Sky!Rows : pixels'[r] = [px |-> Sky!Shown(pic, r), at |-> col, by |-> "face"]
<1>1. /\ pixels' = [r \in Sky!Rows |-> pixels'[r]]
      /\ \A r \in Sky!Rows : pixels'[r] = [px |-> Sky!Shown(pic, r), at |-> col, by |-> "face"]
      /\ prev' = Sky!PrevLeft /\ UNCHANGED <<barWas, toggles>>
  BY DEF Sky!SendWhole, Sky!PushWhole, Sky!Sent
<1>2. \A r \in Sky!Rows : RowOk(pixels'[r]) /\ pixels'[r].by # "rows"
  BY <1>1 DEF RowOk
<1> QED BY <1>1, <1>2, GuideLeft

LEMMA NothingSent ==
  ASSUME SkyInv, phase = "render", UNCHANGED <<tube, col, bar>>, ram \subseteq ram', idle' = Sky!Later(idle, 1),
         Sky!SendNothing
  PROVE  Framed' /\ sent' = "none" /\ pixels' = pixels
<1>1. prev' = Sky!PrevLeft /\ UNCHANGED <<pixels, barWas, toggles>> /\ sent' = "none"
  BY DEF Sky!SendNothing, Sky!NoAim
<1>2. pixels' = [r \in Sky!Rows |-> pixels'[r]] /\ \A r \in Sky!Rows : RowOk(pixels'[r])
  BY <1>1 DEF SkyInv, SkyOk
<1> QED BY <1>1, <1>2, GuideLeft

\* What a frame keeps of a colon is drawn in the settings of today.
LEMMA CacheOf ==
  ASSUME SkyInv, cache' = Sky!CacheAfter
  PROVE  /\ cache' = [valid |-> cache'.valid, colour |-> cache'.colour] /\ cache'.valid \in BOOLEAN
         /\ cache'.valid => /\ tube = "colon" /\ scene.layout = "colon" /\ Sky!Style = <<"art", cache'.colour>>
                           /\ cache'.colour = scene.colour /\ Sky!OverArt /\ "colon" \in ram'
<1>0. cache = [valid |-> cache.valid, colour |-> cache.colour] /\ cache.valid \in BOOLEAN
  BY DEF SkyInv, SkyOk
<1>1. CASE Sky!HasColon /\ ~(Sky!OverArt /\ "colon" \in ram')
  <2>1. cache' = [cache EXCEPT !.valid = FALSE]
    BY <1>1 DEF Sky!CacheAfter
  <2>2. cache' = [valid |-> FALSE, colour |-> cache.colour]
    BY <1>0, <2>1
  <2> QED BY <2>2
<1>2. CASE ~(Sky!HasColon /\ ~(Sky!OverArt /\ "colon" \in ram')) /\ ~Sky!Restyled /\ (cache.valid \/ ~Sky!HasColon)
  <2>1. cache' = cache
    BY <1>2 DEF Sky!CacheAfter
  <2>2. ASSUME cache.valid
        PROVE  /\ tube = "colon" /\ scene.layout = "colon" /\ Sky!Style = <<"art", cache.colour>>
               /\ cache.colour = scene.colour /\ Sky!OverArt /\ "colon" \in ram'
    <3>1. ~again /\ cursor = Sky!Style
      BY <1>2 DEF Sky!Restyled
    <3>2. tube = "colon" /\ cursor = <<"art", cache.colour>> /\ scene.layout = "colon"
      BY <2>2, <3>1 DEF SkyInv, CacheInv
    <3>3. Sky!HasColon
      BY <3>2 DEF Sky!HasColon
    <3> QED BY <1>2, <3>1, <3>2, <3>3 DEF Sky!Style
  <2> QED BY <1>0, <2>1, <2>2
<1>3. CASE ~(Sky!HasColon /\ ~(Sky!OverArt /\ "colon" \in ram')) /\ ~(~Sky!Restyled /\ (cache.valid \/ ~Sky!HasColon))
  <2>1. cache' = [valid |-> Sky!HasColon, colour |-> scene.colour]
    BY <1>3 DEF Sky!CacheAfter
  <2>2. PICK b \in BOOLEAN : b = Sky!HasColon
    BY DEF Sky!HasColon
  <2>3. cache' = [valid |-> b, colour |-> scene.colour]
    BY <2>1, <2>2
  <2>4. b => tube = "colon" /\ scene.layout = "colon" /\ scene.face = "art" /\ Sky!OverArt /\ "colon" \in ram'
    BY <1>3, <2>2 DEF Sky!HasColon, Sky!OverArt
  <2> QED BY <2>3, <2>4 DEF Sky!Style
<1> QED BY <1>1, <1>2, <1>3

\* A frame ends in the phase in which nothing but the painter of a session runs.
LEMMA FrameEnds ==
  ASSUME SkyInv, phase' = "paint", again' \in BOOLEAN, kept' \in BOOLEAN, UNCHANGED bar, idle' = Sky!Later(idle, 1),
         cache' = [valid |-> cache'.valid, colour |-> cache'.colour], cache'.valid \in BOOLEAN,
         Framed', CacheInv', Sky!RowsExact'
  PROVE  SkyInv'
<1>1. idle' \in 0..(StaleAfter + 1)
  BY LaterOk DEF SkyInv, SkyOk
<1>2. bar' \in BOOLEAN
  BY DEF SkyInv, SkyOk
<1>3. SkyOk'
  BY <1>1, <1>2 DEF SkyOk, Framed
<1>4. IdleInv' /\ GuideInv' /\ BarInv'
  BY DEF IdleInv, Framed
<1> QED BY <1>3, <1>4 DEF SkyInv

\* What the compared rows, a tube pushed whole and the box of the colon leave is right.
LEMMA RowsRight ==
  ASSUME sent' = "rows", \A r \in Sky!Rows : Right(r)' \/ (pixels'[r].by # "rows" /\ idle' <= StaleAfter)
  PROVE  Sky!RowsExact'
BY DEF Sky!RowsExact, Right, Sky!Rows

LEMMA AllRight ==
  ASSUME \A r \in Sky!Rows : Right(r)'
  PROVE  Sky!RowsExact'
BY DEF Sky!RowsExact, Right, Sky!Rows

LEMMA ColonRows ==
  ASSUME NEW lit, NEW colour, tube = "colon"
  PROVE  /\ Sky!Shown(Sky!Colon(lit, colour), "low") = <<"art", colour>>
         /\ "low" \in Sky!Rows /\ "top" \in Sky!Rows /\ "low" \notin Sky!Box /\ "top" \in Sky!Box
         /\ \A r \in Sky!Rows : r = "low" \/ r = "top"
BY DEF Sky!Shown, Sky!Colon, Sky!Rows, Sky!Box

LEMMA RenderStep == ASSUME SkyInv, Sky!Render PROVE SkyInv'
<1>1. /\ phase = "render" /\ phase' = "paint" /\ again' = FALSE /\ cursor' = Sky!Style
      /\ ram \subseteq ram' /\ cache' = Sky!CacheAfter /\ idle' = Sky!Later(idle, 1)
      /\ UNCHANGED <<tube, scene, col, kept, bar>>
  BY DEF Sky!Render, Sky!Grows, Sky!Older
<1>2. /\ cache' = [valid |-> cache'.valid, colour |-> cache'.colour] /\ cache'.valid \in BOOLEAN
      /\ cache'.valid => /\ tube = "colon" /\ scene.layout = "colon" /\ Sky!Style = <<"art", cache'.colour>>
                        /\ cache'.colour = scene.colour /\ Sky!OverArt /\ "colon" \in ram'
  BY <1>1, CacheOf
<1>3. again' \in BOOLEAN /\ kept' \in BOOLEAN
  BY <1>1 DEF SkyInv, SkyOk
<1>4. SUFFICES Framed' /\ CacheInv' /\ Sky!RowsExact'
  BY <1>1, <1>2, <1>3, FrameEnds
<1>5. CASE kept
  <2>1. Framed' /\ sent' = "none"
    BY <1>1, <1>5, NothingSent DEF Sky!Render
  <2>2. CacheInv'
    BY <1>1, <1>2, <1>5 DEF CacheInv
  <2>3. Sky!RowsExact'
    BY <2>1 DEF Sky!RowsExact
  <2> QED BY <2>1, <2>2, <2>3
<1>6. CASE ~kept /\ Sky!OverArt
  <2>1. PICK lit \in BOOLEAN : Sky!RenderColon(lit)
    BY <1>6 DEF Sky!Render, Sky!RenderTube, Sky!OverArt, Sky!HasColon, Sky!Panel
  <2>2. CASE "colon" \in ram'
    <3>1. cache'.valid /\ cache'.colour = scene.colour
      <4>1. Sky!HasColon
        BY <1>6 DEF Sky!OverArt
      <4>2. CASE ~Sky!Restyled /\ cache.valid
        <5>1. cache' = cache
          BY <1>1, <1>6, <2>2, <4>2 DEF Sky!CacheAfter
        <5> QED BY <1>2, <4>2, <5>1
      <4>3. CASE ~(~Sky!Restyled /\ cache.valid)
        <5>1. cache' = [valid |-> Sky!HasColon, colour |-> scene.colour]
          BY <1>1, <1>6, <2>2, <4>1, <4>3 DEF Sky!CacheAfter
        <5> QED BY <4>1, <5>1
      <4> QED BY <4>2, <4>3
    <3>2. Sky!SendWhole(Sky!Colon(lit, cache'.colour))
          /\ aim' = [r \in Sky!Rows |-> Sky!Shown(Sky!Colon(lit, scene.colour), r)]
      BY <2>1, <2>2 DEF Sky!RenderColon, Sky!Aim
    <3>3. /\ Framed'
          /\ \A r \in Sky!Rows : pixels'[r] = [px |-> Sky!Shown(Sky!Colon(lit, scene.colour), r),
                                              at |-> col, by |-> "face"]
      BY <1>1, <3>1, <3>2, WholeSent
    <3>4. Sky!RowsExact'
      <4>1. ASSUME NEW r \in Sky!Rows PROVE Right(r)'
        <5>1. aim'[r] = Sky!Shown(Sky!Colon(lit, scene.colour), r)
          BY <3>2
        <5> QED BY <1>1, <3>3, <5>1 DEF Right, Sky!Rows
      <4> QED BY <4>1, AllRight
    <3>5. CacheInv'
      <4>1. tube = "colon"
        BY <1>6 DEF Sky!OverArt, Sky!HasColon
      <4>2. pixels'["low"].px = <<"art", cache'.colour>> /\ pixels'["low"].at = col
        <5>1. "low" \in Sky!Rows /\ Sky!Shown(Sky!Colon(lit, scene.colour), "low") = <<"art", scene.colour>>
          BY <4>1, ColonRows
        <5> QED BY <3>1, <3>3, <5>1 DEF Sky!Rows
      <4> QED BY <1>1, <1>2, <4>2 DEF CacheInv
    <3> QED BY <3>3, <3>4, <3>5
  <2>3. CASE "colon" \notin ram'
    <3>1. Sky!SendRows(Sky!Colon(lit, scene.colour))
      BY <2>1, <2>3 DEF Sky!RenderColon
    <3>2. Framed' /\ Sky!RowsExact'
      BY <1>1, <3>1, RowsSent, RowsRight
    <3>3. CacheInv'
      BY <1>2, <2>3 DEF CacheInv
    <3> QED BY <3>2, <3>3
  <2> QED BY <2>2, <2>3
<1>7. CASE ~kept /\ ~Sky!OverArt
  <2>1. CacheInv'
    BY <1>2, <1>7 DEF CacheInv
  <2>2. ASSUME NEW sky, Sky!SendWhole(sky), Sky!Aim(sky, "whole") PROVE Framed' /\ Sky!RowsExact'
    <3>1. \A r \in Sky!Rows : aim'[r] = Sky!Shown(sky, r)
      BY <2>2 DEF Sky!Aim
    <3>2. Framed' /\ \A r \in Sky!Rows : pixels'[r] = [px |-> Sky!Shown(sky, r), at |-> col, by |-> "face"]
      BY <1>1, <2>2, WholeSent
    <3>3. ASSUME NEW r \in Sky!Rows PROVE Right(r)'
      BY <1>1, <3>1, <3>2 DEF Right, Sky!Rows
    <3> QED BY <3>2, <3>3, AllRight
  <2>3. ASSUME NEW sky, Sky!SendRows(sky) PROVE Framed' /\ Sky!RowsExact'
    BY <1>1, <2>3, RowsSent, RowsRight
  <2> QED BY <1>7, <2>1, <2>2, <2>3 DEF Sky!Render, Sky!RenderTube
<1> QED BY <1>5, <1>6, <1>7

LEMMA RenderCutStep == ASSUME SkyInv, Sky!RenderCut PROVE SkyInv'
<1>1. /\ phase = "render" /\ phase' = "paint" /\ again' = FALSE /\ cursor' = Sky!Style
      /\ cache' = [cache EXCEPT !.valid = cache.valid /\ ~Sky!Restyled] /\ idle' = Sky!Later(idle, 1)
      /\ UNCHANGED <<tube, scene, col, kept, bar, ram>>
  BY DEF Sky!RenderCut, Sky!Older
<1>2. /\ cache' = [valid |-> cache'.valid, colour |-> cache'.colour] /\ cache'.valid \in BOOLEAN
      /\ cache'.valid => cache.valid /\ cache'.colour = cache.colour /\ ~Sky!Restyled
  <2>1. PICK b \in BOOLEAN : b = (cache.valid /\ ~Sky!Restyled)
    OBVIOUS
  <2>2. cache' = [valid |-> b, colour |-> cache.colour]
    BY <1>1, <2>1 DEF SkyInv, SkyOk
  <2> QED BY <2>1, <2>2
<1>3. Framed' /\ sent' = "none" /\ pixels' = pixels
  BY <1>1, NothingSent DEF Sky!RenderCut
<1>4. CacheInv'
  BY <1>1, <1>2, <1>3 DEF SkyInv, CacheInv, Sky!Restyled
<1>5. Sky!RowsExact'
  BY <1>3 DEF Sky!RowsExact
<1>6. again' \in BOOLEAN /\ kept' \in BOOLEAN
  BY <1>1 DEF SkyInv, SkyOk
<1> QED BY <1>1, <1>2, <1>3, <1>4, <1>5, <1>6, FrameEnds

LEMMA RenderSurprisedStep == ASSUME SkyInv, Sky!RenderSurprised PROVE SkyInv'
<1>1. /\ phase = "render" /\ phase' = "paint" /\ again' = FALSE /\ cursor' = Sky!Style
      /\ ram \subseteq ram' /\ cache' = Sky!CacheAfter /\ idle' = Sky!Later(idle, 1)
      /\ kept' = TRUE /\ sent' = "none"
      /\ UNCHANGED <<tube, scene, col, bar, barWas, toggles, pixels>>
  BY DEF Sky!RenderSurprised, Sky!Grows, Sky!Older, Sky!NoAim
<1>2. /\ cache' = [valid |-> cache'.valid, colour |-> cache'.colour] /\ cache'.valid \in BOOLEAN
      /\ cache'.valid => tube = "colon" /\ scene.layout = "colon" /\ Sky!Style = <<"art", cache'.colour>>
  BY <1>1, CacheOf
<1>3. \/ prev' = Sky!PrevLeft
      \/ prev' = [pic |-> prev.pic, valid |-> FALSE, col |-> prev.col, age |-> Sky!Later(prev.age, 1)]
  <2>1. prev = [pic |-> prev.pic, valid |-> prev.valid, col |-> prev.col, age |-> prev.age]
    BY DEF SkyInv, SkyOk
  <2>2. Sky!PrevLeft = [pic |-> prev.pic, valid |-> prev.valid, col |-> prev.col, age |-> Sky!Later(prev.age, 1)]
    BY <2>1 DEF Sky!PrevLeft
  <2>3. prev' = Sky!PrevLeft \/ prev' = [Sky!PrevLeft EXCEPT !.valid = FALSE]
    BY DEF Sky!RenderSurprised
  <2> QED BY <2>2, <2>3
<1>4. pixels' = [r \in Sky!Rows |-> pixels'[r]] /\ \A r \in Sky!Rows : RowOk(pixels'[r])
  BY <1>1 DEF SkyInv, SkyOk
<1>5. Framed'
  <2>1. CASE prev' = Sky!PrevLeft
    BY <1>1, <1>4, <2>1, GuideLeft
  <2>2. CASE prev' = [pic |-> prev.pic, valid |-> FALSE, col |-> prev.col, age |-> Sky!Later(prev.age, 1)]
    <3>1. prev'.age \in 0..(StaleAfter + 1) /\ idle' <= prev'.age
      <4>1. idle <= prev.age /\ prev.age \in 0..(StaleAfter + 1) /\ idle \in 0..(StaleAfter + 1)
        BY <1>1 DEF SkyInv, SkyOk, IdleInv
      <4> QED BY <1>1, <2>2, <4>1, LaterOk
    <3>2. GuideInv'
      BY <2>2 DEF GuideInv
    <3>3. BarInv'
      BY <1>1 DEF SkyInv, BarInv
    <3>4. barWas' \in BOOLEAN /\ toggles' \in 0..2
      BY <1>1 DEF SkyInv, SkyOk
    <3> QED BY <1>4, <2>2, <3>1, <3>2, <3>3, <3>4 DEF Framed, Sky!Rows, RowOk
  <2> QED BY <1>3, <2>1, <2>2
<1>6. CacheInv'
  BY <1>1, <1>2 DEF CacheInv
<1>7. Sky!RowsExact'
  BY <1>1 DEF Sky!RowsExact
<1>8. again' \in BOOLEAN /\ kept' \in BOOLEAN
  BY <1>1
<1> QED BY <1>1, <1>2, <1>5, <1>6, <1>7, <1>8, FrameEnds

LEMMA RenderNothingStep == ASSUME SkyInv, Sky!RenderNothing PROVE SkyInv'
<1>1. /\ phase = "render" /\ phase' = "paint" /\ again' = FALSE /\ idle' = Sky!Later(idle, 1)
      /\ prev' = Sky!PrevLeft /\ UNCHANGED <<tube, scene, col, kept, bar, ram, barWas, toggles>>
      /\ cache' = [cache EXCEPT !.valid = FALSE]
  BY DEF Sky!RenderNothing, Sky!Older
<1>2. cache' = [valid |-> FALSE, colour |-> cache.colour]
  BY <1>1 DEF SkyInv, SkyOk
<1>3. CASE kept
  <2>1. pixels' = pixels /\ sent' = "none"
    BY <1>3 DEF Sky!RenderNothing, Sky!NoAim
  <2>2. pixels' = [r \in Sky!Rows |-> pixels'[r]] /\ \A r \in Sky!Rows : RowOk(pixels'[r])
    BY <2>1 DEF SkyInv, SkyOk
  <2>3. Framed'
    BY <1>1, <2>1, <2>2, GuideLeft
  <2>4. CacheInv' /\ Sky!RowsExact'
    BY <1>2, <2>1 DEF CacheInv, Sky!RowsExact
  <2>5. again' \in BOOLEAN /\ kept' \in BOOLEAN
    BY <1>1 DEF SkyInv, SkyOk
  <2> QED BY <1>1, <1>2, <2>3, <2>4, <2>5, FrameEnds
<1>4. CASE ~kept
  <2>1. /\ pixels' = [r \in Sky!Rows |-> pixels'[r]]
        /\ \A r \in Sky!Rows : pixels'[r] = [px |-> <<"fill", 0>>, at |-> col, by |-> "face"]
        /\ \A r \in Sky!Rows : aim'[r] = <<"fill", 0>>
    BY <1>4 DEF Sky!RenderNothing, Sky!Plain
  <2>2. \A r \in Sky!Rows : RowOk(pixels'[r]) /\ pixels'[r].by # "rows"
    BY <2>1 DEF RowOk
  <2>3. Framed'
    BY <1>1, <2>1, <2>2, GuideLeft
  <2>4. ASSUME NEW r \in Sky!Rows PROVE Right(r)'
    BY <1>1, <2>1 DEF Right
  <2>5. CacheInv' /\ Sky!RowsExact'
    BY <1>2, <2>4, AllRight DEF CacheInv
  <2>6. again' \in BOOLEAN /\ kept' \in BOOLEAN
    BY <1>1 DEF SkyInv, SkyOk
  <2> QED BY <1>1, <1>2, <2>3, <2>5, <2>6, FrameEnds
<1> QED BY <1>3, <1>4

\* What is known of a colon that is kept.
LEMMA CacheRow ==
  ASSUME SkyInv, phase = "render", ~again, cache.valid
  PROVE  /\ tube = "colon" /\ scene.layout = "colon" /\ cursor = <<"art", cache.colour>>
         /\ \/ pixels["low"].by = "other"
            \/ pixels["low"].px = <<"art", cache.colour>> /\ pixels["low"].at = col
BY DEF SkyInv, CacheInv

\* The box of a colon that is kept fits the picture around it.
LEMMA BoxSent ==
  ASSUME SkyInv, phase = "render", ~kept, ~again, cache.valid, cursor = Sky!Style, phase' = "paint",
         UNCHANGED <<tube, scene, again, cursor, col, kept, bar>>, idle' = Sky!Later(idle, 1),
         NEW lit, Sky!PushBox(lit)
  PROVE  /\ Framed' /\ Sky!RowsExact'
         /\ pixels'["low"] = pixels["low"]
<1>1. /\ prev' = Sky!PrevLeft /\ UNCHANGED <<ram, barWas, toggles>> /\ sent' = "box"
      /\ pixels' = [r \in Sky!Rows |-> IF r \in Sky!Box THEN Sky!Sent(Sky!Colon(lit, cache.colour), r, "face")
                                      ELSE pixels[r]]
      /\ aim' = [r \in Sky!Rows |-> Sky!Shown(Sky!Colon(lit, scene.colour), r)]
  BY DEF Sky!PushBox, Sky!Aim
<1>2. tube = "colon" /\ cache.colour = scene.colour /\ scene.layout = "colon"
      /\ (pixels["low"].by = "other" \/ (pixels["low"].px = <<"art", cache.colour>> /\ pixels["low"].at = col))
  <2>1. /\ tube = "colon" /\ scene.layout = "colon" /\ cursor = <<"art", cache.colour>>
        /\ (pixels["low"].by = "other" \/ (pixels["low"].px = <<"art", cache.colour>> /\ pixels["low"].at = col))
    BY CacheRow
  <2>2. <<"art", cache.colour>> = <<scene.face, scene.colour>>
    BY <2>1 DEF Sky!Style
  <2> QED BY <2>1, <2>2
<1>3. /\ pixels' = [r \in Sky!Rows |-> pixels'[r]] /\ pixels'["low"] = pixels["low"]
      /\ pixels'["top"] = [px |-> Sky!Shown(Sky!Colon(lit, cache.colour), "top"), at |-> col, by |-> "face"]
  BY <1>1 DEF Sky!Rows, Sky!Box, Sky!Sent
<1>4. \A r \in Sky!Rows : RowOk(pixels'[r]) /\ (pixels'[r].by = "rows" => pixels'[r] = pixels[r])
  <2>1. RowOk(pixels["low"])
    BY DEF SkyInv, SkyOk, Sky!Rows
  <2>2. RowOk(pixels'["top"]) /\ pixels'["top"].by = "face"
    BY <1>3 DEF RowOk
  <2> QED BY <1>3, <2>1, <2>2 DEF Sky!Rows
<1>5. Framed'
  BY <1>1, <1>3, <1>4, GuideLeft
<1>6. pixels'["top"].px = aim'["top"] /\ pixels'["top"].at = col
  BY <1>1, <1>2, <1>3 DEF Sky!Rows
<1>7. \/ pixels'["low"].by = "other"
      \/ pixels'["low"].px = aim'["low"] /\ pixels'["low"].at = col
  <2>1. aim'["low"] = <<"art", cache.colour>>
    BY <1>1, <1>2, ColonRows
  <2> QED BY <1>2, <1>3, <2>1
<1>8. Sky!RowsExact'
  BY <1>1, <1>6, <1>7 DEF Sky!RowsExact, Sky!Rows, Sky!Box
<1> QED BY <1>3, <1>5, <1>8

LEMMA BlinkStep == ASSUME SkyInv, Sky!Blink PROVE SkyInv'
<1>1. /\ phase = "render" /\ phase' = "paint" /\ ~again /\ cursor = Sky!Style /\ ~kept
      /\ idle' = Sky!Later(idle, 1) /\ UNCHANGED <<tube, scene, again, cursor, col, kept, cache, bar>>
  BY DEF Sky!Blink, Sky!Restyled, Sky!Older
<1>2. /\ cache' = [valid |-> cache'.valid, colour |-> cache'.colour] /\ cache'.valid \in BOOLEAN
      /\ again' \in BOOLEAN /\ kept' \in BOOLEAN
  BY <1>1 DEF SkyInv, SkyOk
<1>3. ASSUME cache.valid, NEW lit, Sky!PushBox(lit) PROVE SkyInv'
  <2>1. Framed' /\ Sky!RowsExact' /\ pixels'["low"] = pixels["low"]
    BY <1>1, <1>3, BoxSent
  <2>2. CacheInv'
    BY <1>1, <2>1 DEF SkyInv, CacheInv
  <2> QED BY <1>1, <1>2, <2>1, <2>2, FrameEnds
<1>4. ASSUME ~cache.valid, Sky!Grows, NEW pic, Sky!SendRows(pic) PROVE SkyInv'
  <2>1. ram \subseteq ram'
    BY <1>4 DEF Sky!Grows
  <2>2. Framed' /\ Sky!RowsExact'
    BY <1>1, <1>4, <2>1, RowsSent, RowsRight
  <2>3. CacheInv'
    BY <1>1, <1>4 DEF CacheInv
  <2> QED BY <1>1, <1>2, <2>2, <2>3, FrameEnds
<1> QED BY <1>3, <1>4 DEF Sky!Blink

LEMMA BackoffStep == ASSUME SkyInv, Sky!Backoff PROVE SkyInv'
<1>1. /\ phase = "render" /\ phase' = "paint" /\ again' = FALSE
      /\ cache' = [cache EXCEPT !.valid = cache.valid /\ ~Sky!Restyled]
      /\ idle' = Sky!Later(idle, 1) /\ UNCHANGED <<tube, scene, cursor, col, kept, bar>>
  BY DEF Sky!Backoff, Sky!Older
<1>2. /\ cache' = [valid |-> cache'.valid, colour |-> cache'.colour] /\ cache'.valid \in BOOLEAN
      /\ cache'.valid => cache.valid /\ cache'.colour = cache.colour /\ ~again /\ cursor = Sky!Style
  <2>1. PICK b \in BOOLEAN : b = (cache.valid /\ ~Sky!Restyled)
    OBVIOUS
  <2>2. cache' = [valid |-> b, colour |-> cache.colour]
    BY <1>1, <2>1 DEF SkyInv, SkyOk
  <2> QED BY <2>1, <2>2 DEF Sky!Restyled
<1>3. again' \in BOOLEAN /\ kept' \in BOOLEAN
  BY <1>1 DEF SkyInv, SkyOk
<1>4. ASSUME cache'.valid, ~kept, NEW lit, Sky!PushBox(lit) PROVE SkyInv'
  <2>1. again' = again
    BY <1>1, <1>2, <1>4 DEF SkyInv, SkyOk
  <2>2. Framed' /\ Sky!RowsExact' /\ pixels'["low"] = pixels["low"]
    BY <1>1, <1>2, <1>4, <2>1, BoxSent
  <2>3. CacheInv'
    BY <1>1, <1>2, <1>4, <2>2 DEF SkyInv, CacheInv
  <2> QED BY <1>1, <1>2, <1>3, <2>2, <2>3, FrameEnds
<1>5. ASSUME ~cache'.valid \/ kept, Sky!SendNothing, ram' = ram PROVE SkyInv'
  <2>1. Framed' /\ sent' = "none" /\ pixels' = pixels
    BY <1>1, <1>5, NothingSent
  <2>2. Sky!RowsExact'
    BY <2>1 DEF Sky!RowsExact
  <2>3. CacheInv'
    BY <1>1, <1>2, <2>1 DEF SkyInv, CacheInv
  <2> QED BY <1>1, <1>2, <1>3, <2>1, <2>2, <2>3, FrameEnds
<1> QED BY <1>4, <1>5 DEF Sky!Backoff

LEMMA SkyPaintStep == ASSUME SkyInv, Sky!Paint PROVE SkyInv'
<1>1. /\ phase = "paint" /\ phase' = "render" /\ sent' = "none" /\ idle' = (IF sent = "rows" THEN 0 ELSE idle)
      /\ UNCHANGED <<tube, scene, again, cursor, col, kept, ram, prev, cache, bar, barWas, toggles>>
  BY DEF Sky!Paint
<1>2. /\ pixels' = [r \in Sky!Rows |-> pixels'[r]] /\ \A r \in Sky!Rows : RowOk(pixels'[r])
      /\ IF kept THEN \A r \in Sky!Rows : pixels'[r].by = "other" ELSE pixels' = pixels
  <2>1. CASE kept
    <3>1. pixels' = [r \in Sky!Rows |-> [px |-> <<"burn", 0>>, at |-> col, by |-> "other"]]
      BY <2>1 DEF Sky!Paint, Sky!Painted
    <3> QED BY <2>1, <3>1 DEF RowOk
  <2>2. CASE ~kept
    BY <2>2 DEF Sky!Paint, SkyInv, SkyOk
  <2> QED BY <2>1, <2>2
<1>3. idle' \in 0..(StaleAfter + 1) /\ IdleInv'
  <2>1. idle \in 0..(StaleAfter + 1) /\ prev.age \in 0..(StaleAfter + 1) /\ (sent # "rows" => idle <= prev.age)
    BY DEF SkyInv, SkyOk, IdleInv
  <2> QED BY <1>1, <2>1, FrontPanelAssumption DEF IdleInv
<1>4. SkyOk'
  BY <1>1, <1>2, <1>3 DEF SkyInv, SkyOk, Sky!Rows, RowOk
<1>5. GuideInv'
  BY <1>1, <1>2 DEF SkyInv, GuideInv, Sky!Shown, Sky!Rows
<1>6. BarInv'
  BY <1>1 DEF SkyInv, BarInv
<1>7. CacheInv'
  BY <1>1, <1>2 DEF SkyInv, CacheInv, Sky!Rows
<1>8. Sky!RowsExact'
  BY <1>1 DEF Sky!RowsExact
<1> QED BY <1>3, <1>4, <1>5, <1>6, <1>7, <1>8 DEF SkyInv

\* Between two frames nothing is drawn but by others.
LEMMA EditStep ==
  ASSUME SkyInv, phase = "render", UNCHANGED <<tube, phase, ram, cache, barWas, sent, cursor>>,
         again' \in BOOLEAN, kept' \in BOOLEAN, bar' \in BOOLEAN, toggles' \in 0..2,
         prev' = [pic |-> prev.pic, valid |-> prev.valid, col |-> prev.col, age |-> prev'.age],
         prev'.age \in 0..(StaleAfter + 1), idle' \in 0..(StaleAfter + 1), idle' <= prev'.age,
         pixels' = [r \in Sky!Rows |-> pixels'[r]],
         \A r \in Sky!Rows : RowOk(pixels'[r]) /\ (pixels'[r].by = "other" \/ pixels'[r] = pixels[r]),
         ~again' => ~again /\ scene'.layout = scene.layout /\ col' = col,
         \/ bar' = bar /\ toggles' = toggles
         \/ /\ tube = "last" /\ bar' = ~bar
            /\ toggles' = IF toggles = 0 THEN 1 ELSE 2
            /\ toggles # 0 => pixels'["low"].by = "other"
  PROVE  SkyInv'
<1>1. SkyOk'
  BY DEF SkyInv, SkyOk
<1>2. IdleInv'
  BY DEF IdleInv
<1>3. BarInv'
  BY DEF SkyInv, SkyOk, BarInv
<1>4. CacheInv'
  <2>1. SUFFICES ASSUME cache.valid, ~again'
                 PROVE  /\ tube = "colon" /\ cursor = <<"art", cache.colour>> /\ scene'.layout = "colon"
                        /\ \/ pixels'["low"].by = "other"
                           \/ pixels'["low"].px = <<"art", cache.colour>> /\ pixels'["low"].at = col'
    BY DEF SkyInv, CacheInv
  <2>2. /\ tube = "colon" /\ cursor = <<"art", cache.colour>> /\ scene.layout = "colon"
        /\ \/ pixels["low"].by = "other"
           \/ pixels["low"].px = <<"art", cache.colour>> /\ pixels["low"].at = col
    BY <2>1 DEF SkyInv, CacheInv
  <2>3. pixels'["low"].by = "other" \/ pixels'["low"] = pixels["low"]
    BY DEF Sky!Rows
  <2> QED BY <2>1, <2>2, <2>3
<1>5. GuideInv'
  <2>1. SUFFICES ASSUME prev.valid, NEW r \in Sky!Rows, pixels'[r].by = "rows"
                 PROVE  /\ pixels'[r].at = prev.col
                        /\ \/ pixels'[r].px = Sky!Shown(prev.pic, r)'
                           \/ r = "low" /\ tube = "last" /\ toggles' = 1
    BY DEF SkyInv, GuideInv, Sky!Shown, Sky!Rows
  <2>2. pixels'[r] = pixels[r] /\ pixels[r].by = "rows"
    BY <2>1
  <2>3. /\ pixels[r].at = prev.col
        /\ pixels[r].px = Sky!Shown(prev.pic, r) \/ (r = "low" /\ tube = "last" /\ toggles = 1)
    BY <2>1, <2>2 DEF SkyInv, GuideInv
  <2>4. CASE bar' = bar /\ toggles' = toggles
    BY <2>2, <2>3, <2>4 DEF Sky!Shown
  <2>5. CASE /\ tube = "last" /\ bar' = ~bar
             /\ toggles' = IF toggles = 0 THEN 1 ELSE 2
             /\ toggles # 0 => pixels'["low"].by = "other"
    <3>1. CASE r = "low"
      BY <2>1, <2>2, <2>3, <2>5, <3>1
    <3>2. CASE r # "low"
      BY <2>1, <2>2, <2>3, <3>2 DEF Sky!Shown
    <3> QED BY <3>1, <3>2
  <2> QED BY <2>4, <2>5
<1>6. Sky!RowsExact'
  BY DEF Sky!RowsExact
<1> QED BY <1>1, <1>2, <1>3, <1>4, <1>5, <1>6 DEF SkyInv

LEMMA SkyStep == SkyInv /\ [Next]_vars => SkyInv'
<1> SUFFICES ASSUME SkyInv, [Next]_vars PROVE SkyInv'
  OBVIOUS
<1>0. /\ prev = [pic |-> prev.pic, valid |-> prev.valid, col |-> prev.col, age |-> prev.age]
      /\ prev.age \in 0..(StaleAfter + 1) /\ idle \in 0..(StaleAfter + 1) /\ (phase = "render" => idle <= prev.age)
      /\ pixels = [r \in Sky!Rows |-> pixels[r]] /\ \A r \in Sky!Rows : RowOk(pixels[r])
      /\ again \in BOOLEAN /\ kept \in BOOLEAN /\ bar \in BOOLEAN /\ toggles \in 0..2
  BY DEF SkyInv, SkyOk, IdleInv
<1>1. CASE Sky!Render \/ Sky!RenderCut \/ Sky!RenderSurprised \/ Sky!RenderNothing
  BY <1>1, RenderStep, RenderCutStep, RenderSurprisedStep, RenderNothingStep
<1>2. CASE Sky!Blink \/ Sky!Backoff \/ Sky!Paint
  BY <1>2, BlinkStep, BackoffStep, SkyPaintStep
<1>3. CASE Sky!Pause
  <2>1. /\ prev' = [pic |-> prev.pic, valid |-> prev.valid, col |-> prev.col, age |-> StaleAfter + 1]
        /\ idle' = StaleAfter + 1 /\ phase = "render"
        /\ UNCHANGED <<scene, again, cursor, col, kept, bar, pixels, toggles, Sky!drawing>>
    BY <1>0, <1>3 DEF Sky!Pause
  <2> QED BY <1>0, <2>1, EditStep, FrontPanelAssumption DEF Sky!drawing
<1>4. CASE Sky!Elsewhere
  <2>1. PICK n \in 0..StaleAfter : prev' = [prev EXCEPT !.age = Sky!Later(prev.age, n)] /\ idle' = Sky!Later(idle, n)
    BY <1>4 DEF Sky!Elsewhere
  <2>2. prev' = [pic |-> prev.pic, valid |-> prev.valid, col |-> prev.col, age |-> Sky!Later(prev.age, n)]
    BY <1>0, <2>1
  <2>3. phase = "render" /\ again' = TRUE /\ UNCHANGED <<scene, cursor, col, kept, bar, toggles, Sky!drawing>>
    BY <1>4 DEF Sky!Elsewhere, Sky!Edit
  <2>4. pixels' = IF kept THEN pixels ELSE [r \in Sky!Rows |-> [px |-> <<"other", 0>>, at |-> col, by |-> "other"]]
    BY <1>4 DEF Sky!Elsewhere, Sky!Painted
  <2>5. /\ pixels' = [r \in Sky!Rows |-> pixels'[r]]
        /\ \A r \in Sky!Rows : RowOk(pixels'[r]) /\ (pixels'[r].by = "other" \/ pixels'[r] = pixels[r])
    BY <1>0, <2>4 DEF RowOk
  <2>6. prev'.age \in 0..(StaleAfter + 1) /\ idle' \in 0..(StaleAfter + 1) /\ idle' <= prev'.age
    BY <1>0, <2>1, <2>2, <2>3, LaterOk
  <2> QED BY <1>0, <2>2, <2>3, <2>5, <2>6, EditStep DEF Sky!drawing
<1>5. CASE Sky!PanelReset
  <2>1. /\ phase = "render"
        /\ UNCHANGED <<scene, again, cursor, col, kept, prev, bar, idle, toggles, Sky!drawing>>
    BY <1>5 DEF Sky!PanelReset, Sky!Edit
  <2>2. pixels' = [r \in Sky!Rows |-> [px |-> <<"other", 0>>, at |-> col, by |-> "other"]]
    BY <1>5 DEF Sky!PanelReset, Sky!Painted
  <2>3. /\ pixels' = [r \in Sky!Rows |-> pixels'[r]]
        /\ \A r \in Sky!Rows : RowOk(pixels'[r]) /\ pixels'[r].by = "other"
    BY <2>2 DEF RowOk
  <2> QED BY <1>0, <2>1, <2>3, EditStep DEF Sky!drawing
<1>6. CASE Sky!Notice
  <2>1. /\ phase = "render" /\ tube = "last" /\ bar' = ~bar
        /\ toggles' = (IF toggles = 2 THEN 2 ELSE toggles + 1)
        /\ UNCHANGED <<scene, again, cursor, col, kept, prev, idle, Sky!drawing>>
    BY <1>6 DEF Sky!Notice, Sky!Edit
  <2>2. /\ pixels' = [r \in Sky!Rows |-> pixels'[r]]
        /\ \A r \in Sky!Rows : RowOk(pixels'[r]) /\ (pixels'[r].by = "other" \/ pixels'[r] = pixels[r])
        /\ toggles # 0 => pixels'["low"].by = "other"
    <3>1. CASE toggles = 0
      BY <1>0, <1>6, <3>1 DEF Sky!Notice
    <3>2. CASE toggles # 0
      <4>1. pixels' = [pixels EXCEPT !["low"] = [px |-> pixels["low"].px, at |-> pixels["low"].at, by |-> "other"]]
        <5>1. pixels["low"] = [px |-> pixels["low"].px, at |-> pixels["low"].at, by |-> pixels["low"].by]
          BY <1>0 DEF RowOk, Sky!Rows
        <5>2. pixels' = [pixels EXCEPT !["low"] = [pixels["low"] EXCEPT !.by = "other"]]
          BY <1>6, <3>2 DEF Sky!Notice
        <5>3. [pixels["low"] EXCEPT !.by = "other"]
                = [px |-> pixels["low"].px, at |-> pixels["low"].at, by |-> "other"]
          BY <5>1
        <5> QED BY <5>2, <5>3
      <4> QED BY <1>0, <4>1 DEF RowOk, Sky!Rows
    <3> QED BY <3>1, <3>2
  <2>3. toggles' = (IF toggles = 0 THEN 1 ELSE 2) /\ toggles' \in 0..2
    BY <1>0, <2>1
  <2>4. bar' \in BOOLEAN
    BY <2>1
  <2> QED BY <1>0, <2>1, <2>2, <2>3, <2>4, EditStep DEF Sky!drawing
<1>7. CASE Sky!Save \/ Sky!Hint \/ Sky!HintOver \/ Sky!Hour \/ Sky!Begin \/ Sky!End
  <2>1. /\ phase = "render" /\ UNCHANGED <<cursor, prev, bar, pixels, idle, toggles, Sky!drawing>>
        /\ kept' \in BOOLEAN
    BY <1>0, <1>7 DEF Sky!Save, Sky!Hint, Sky!HintOver, Sky!Hour, Sky!Begin, Sky!End, Sky!Edit
  <2>2. again' \in BOOLEAN /\ (~again' => ~again /\ scene'.layout = scene.layout /\ col' = col)
    <3>1. CASE Sky!Save
      BY <1>0, <3>1 DEF Sky!Save
    <3>2. CASE Sky!Hint \/ Sky!HintOver \/ Sky!Hour \/ Sky!Begin \/ Sky!End
      BY <1>0, <3>2 DEF Sky!Hint, Sky!HintOver, Sky!Hour, Sky!Begin, Sky!End
    <3> QED BY <1>7, <3>1, <3>2
  <2> QED BY <1>0, <2>1, <2>2, EditStep DEF Sky!drawing
<1>8. CASE UNCHANGED skyVars
  BY <1>8 DEF skyVars, SkyInv, SkyOk, IdleInv, GuideInv, BarInv, CacheInv, Sky!RowsExact, RowOk, Sky!Shown, Sky!Rows,
     Sky!Box
<1>9. Sky!SkyNext \/ UNCHANGED skyVars
  BY DEF Next, vars, MicPart, SignalPart, TouchPart, FacePart, BarsPart, SkyPart, PanelsPart, TimersPart, AlbumPart
<1> QED BY <1>1, <1>2, <1>3, <1>4, <1>5, <1>6, <1>7, <1>8, <1>9 DEF Sky!SkyNext

\* display.c:8747-8750, 9161-9167, 5902-5905: for any tubes, segments, levels and times of
\* a full repaint, drawing only the segments and the rows that differ shows what drawing
\* all of them would, in its place and with nothing of another mode beside it; what was
\* painted behind the renderer's back is whole again when the next full repaint is due.
THEOREM TubesAreExact == Spec => []TubesExact
<1>1. Init => VisInv /\ SkyInv
  BY VisInitial, SkyInitial DEF Init
<1>2. VisInv /\ SkyInv /\ [Next]_vars => VisInv' /\ SkyInv'
  BY VisStep, SkyStep
<1>3. VisInv /\ SkyInv => TubesExact
  BY DEF VisInv, SkyInv, TubesExact
<1> QED BY <1>1, <1>2, <1>3, PTL DEF Spec

-----------------------------------------------------------------------------
(* The signal path *)

Level == 0..Signal!Top

SignalOk ==
  /\ floor \in [at : Nat, ref : Nat, n : 0..Phase1]
  /\ smooth \in [gate : Level, disp : Level]
  /\ spike \in [prev : Level, pend : BOOLEAN, psum : Nat]
  /\ burst \in 0..BurstMax
  /\ levels \in [peak : Level, lit : BOOLEAN]
  /\ heard \in [sound : BOOLEAN, held : 0..1, drops : 0..BurstMax, quiet : 0..QuietMax]

\* What a level takes to fall to 1, frame by frame.
Falls(frames) ==
  /\ frames \in [Level -> 0..QuietMax]
  /\ \A x \in 2..Signal!Top : frames[x] >= frames[x \div 2] + BurstMax + 1
  /\ \A x \in Level : frames[x] <= frames[Signal!Top]
  /\ QuietMax >= frames[Signal!Top] + Signal!Top - 1

\* Silence first brings the level down to 1, then the peak falls; a bar is lit until then.
Fading(frames, q, disp, peak, n) ==
  /\ disp >= 2 => q + frames[disp] - n <= frames[Signal!Top]
  /\ disp <= 1 /\ q > 0 =>
       /\ q > frames[Signal!Top] => disp = 0 /\ (peak = 0 \/ q - frames[Signal!Top] + peak <= Signal!Top - 1)
       /\ peak <= Signal!Top - 1

SignalInv(frames) ==
  /\ SignalOk
  /\ floor.n = Phase1 => floor.at <= 2 * floor.ref
  /\ spike.prev >= smooth.gate
  /\ heard.held = 1 => spike.pend
  /\ heard.drops <= burst
  /\ Fading(frames, heard.quiet, smooth.disp, levels.peak, burst)
  /\ heard.quiet >= frames[Signal!Top] + Signal!Top - 1 => ~levels.lit

\* The highest energy.
LEMMA TopOk == Signal!Top \in Raws /\ Signal!Top \in Nat /\ \A r \in Raws : r \in Nat /\ r <= Signal!Top
<1>1. PICK k \in Raws : \A r \in Raws : r <= k
  BY FrontPanelAssumption
<1>2. \A r \in Raws : k >= r
  BY <1>1, FrontPanelAssumption
<1> QED BY <1>2, FrontPanelAssumption DEF Signal!Top, Signal!Max

\* An average stays between what it was and what it moves to; towards 0 it is halved.
LEMMA Average ==
  ASSUME NEW x \in Nat, NEW goal \in Nat
  PROVE  /\ Signal!Towards(x, goal) \in Nat
         /\ Signal!Towards(x, goal) <= x \/ Signal!Towards(x, goal) <= goal
         /\ Signal!Towards(x, 0) = x \div 2
BY DEF Signal!Towards

LEMMA FloorOk ==
  ASSUME NEW raw \in Raws, NEW f \in Signal!Floors(raw), SignalOk,
         floor.n = Phase1 => floor.at <= 2 * floor.ref
  PROVE  f \in [at : Nat, ref : Nat, n : 0..Phase1] /\ (f.n = Phase1 => f.at <= 2 * f.ref)
<1>0. /\ floor.at \in Nat /\ floor.ref \in Nat /\ floor.n \in 0..Phase1 /\ raw \in Nat /\ Phase1 \in Nat
      /\ Signal!Towards(floor.at, raw) \in Nat
  BY TopOk, Average, FrontPanelAssumption DEF SignalOk
<1>1. CASE floor.n < Phase1
  <2>1. PICK a \in Nat : a = Signal!Towards(floor.at, raw)
    BY <1>0
  <2>2. f = [at |-> a, ref |-> IF floor.n = Phase1 - 1 THEN a ELSE floor.ref, n |-> floor.n + 1]
    BY <1>1, <2>1 DEF Signal!Floors
  <2> QED BY <1>0, <1>1, <2>2
<1>2. CASE ~(floor.n < Phase1)
  <2>1. PICK m \in {floor.at, Signal!Towards(floor.at, raw)} :
          LET a == Signal!Capped(m, floor.ref) IN
          f = [at |-> a, n |-> Phase1,
               ref |-> IF a < floor.ref THEN (IF a > Signal!RefMin THEN a ELSE Signal!RefMin) ELSE floor.ref]
    BY <1>2 DEF Signal!Floors
  <2>2. PICK a \in Nat : a = Signal!Capped(m, floor.ref) /\ a <= 2 * floor.ref
    BY <1>0, <2>1 DEF Signal!Capped, Signal!AtMost
  <2>3. f = [at |-> a, n |-> Phase1, ref |-> IF a < floor.ref THEN (IF a > 1 THEN a ELSE 1) ELSE floor.ref]
    BY <2>1, <2>2 DEF Signal!RefMin
  <2> QED BY <1>0, <2>2, <2>3
<1> QED BY <1>1, <1>2

\* A frame of silence.
LEMMA Fade ==
  ASSUME NEW frames, Falls(frames), NEW q \in 0..QuietMax, NEW disp \in Level, NEW disp2 \in Level,
         NEW peak \in Level, NEW peak2 \in Level, NEW n \in 0..BurstMax, NEW n2 \in 0..BurstMax,
         Fading(frames, q, disp, peak, n),
         \/ disp2 = disp /\ n2 = n + 1 /\ disp >= 2
         \/ disp2 \in {disp \div 2, 0} /\ n2 \in {0, n},
         peak2 \in {Signal!Less(peak, 1), IF disp2 > peak THEN disp2 ELSE Signal!Less(peak, 1)}
  PROVE  LET q2 == Signal!AtMost(q + 1, QuietMax) IN
         /\ Fading(frames, q2, disp2, peak2, n2)
         /\ q2 >= frames[Signal!Top] + Signal!Top - 1 => peak2 = 0
<1> DEFINE F == frames[Signal!Top]
           q2 == Signal!AtMost(q + 1, QuietMax)
<1>0. /\ Signal!Top \in Nat /\ Signal!Top >= 2 /\ BurstMax \in Nat /\ QuietMax \in Nat
      /\ disp \div 2 \in Level /\ frames[disp] \in Nat /\ frames[disp2] \in Nat /\ frames[disp \div 2] \in Nat
      /\ F \in Nat /\ F >= BurstMax + 1 /\ QuietMax >= F + Signal!Top - 1
  <2>1. Signal!Top \in Nat /\ Signal!Top >= 2 /\ BurstMax \in Nat /\ QuietMax \in Nat
    BY TopOk, SilenceAssumption, FrontPanelAssumption
  <2>2. disp \div 2 \in Level /\ Signal!Top \div 2 \in Level /\ Signal!Top \in Level /\ Signal!Top \in 2..Signal!Top
    BY <2>1 DEF Level
  <2>3. \A x \in Level : frames[x] \in Nat
    BY DEF Falls
  <2>4. F >= frames[Signal!Top \div 2] + BurstMax + 1 /\ QuietMax >= F + Signal!Top - 1
    BY <2>2 DEF Falls
  <2> QED BY <2>1, <2>2, <2>3, <2>4
<1>1. peak2 <= Signal!Top /\ (peak2 > disp2 => peak2 <= peak - 1)
  BY <1>0 DEF Signal!Less, Level
<1>2. /\ disp2 <= disp /\ (disp <= 1 => disp2 = 0)
      /\ disp2 = 0 => (peak = 0 => peak2 = 0) /\ (peak > 0 => peak2 = peak - 1)
  BY <1>0 DEF Signal!Less, Level
<1>a. disp >= 2 => frames[disp] >= frames[disp \div 2] + BurstMax + 1
  <2>1. disp >= 2 => disp \in 2..Signal!Top
    BY <1>0 DEF Level
  <2> QED BY <2>1 DEF Falls
<1>3. disp >= 2 => q < F
  BY <1>0, <1>a DEF Fading, Level
<1>4. CASE q2 = q + 1
  <2>1. disp2 >= 2 => q2 + frames[disp2] - n2 <= F
    <3>1. disp2 >= 2 => disp >= 2 /\ disp2 \in {disp, disp \div 2}
      BY <1>0, <1>2 DEF Level
    <3> QED BY <1>0, <1>a, <1>4, <3>1 DEF Fading, Level
  <2>2. disp2 <= 1 => peak2 <= Signal!Top - 1
    BY <1>0, <1>1, <1>2 DEF Level
  <2>3. ASSUME q2 > F PROVE disp2 = 0 /\ (peak2 = 0 \/ q2 - F + peak2 <= Signal!Top - 1)
    <3>1. disp <= 1 /\ disp2 = 0
      BY <1>0, <1>2, <1>3, <1>4, <2>3 DEF Level
    <3>2. q > 0
      BY <1>0, <1>4, <2>3
    <3> QED BY <1>0, <1>2, <1>4, <2>3, <3>1, <3>2 DEF Fading, Level
  <2>4. q2 \in Nat
    BY <1>4
  <2>5. q2 >= F + Signal!Top - 1 => peak2 = 0
    BY <1>0, <2>3, <2>4 DEF Level
  <2> QED BY <2>1, <2>2, <2>3, <2>5 DEF Fading
<1>5. CASE q2 # q + 1
  <2>1. q = QuietMax /\ q2 = q
    BY <1>0, <1>5 DEF Signal!AtMost
  <2>2. disp <= 1 /\ disp2 = 0 /\ q > F /\ q > 0
    BY <1>0, <1>2, <1>3, <2>1 DEF Level
  <2>3. peak = 0
    BY <1>0, <2>1, <2>2 DEF Fading, Level
  <2>4. peak2 = 0
    BY <1>2, <2>2, <2>3
  <2> QED BY <1>0, <2>1, <2>2, <2>4 DEF Fading
<1> QED BY <1>4, <1>5

\* A frame with sound begins the count anew.
LEMMA Loud ==
  ASSUME NEW frames, Falls(frames), NEW disp \in Level, NEW peak \in Level, NEW n \in 0..BurstMax
  PROVE  Fading(frames, 0, disp, peak, n) /\ 0 < frames[Signal!Top] + Signal!Top - 1
<1>1. /\ frames[disp] \in Nat /\ frames[Signal!Top] \in Nat /\ frames[disp] <= frames[Signal!Top]
      /\ Signal!Top \in Nat /\ Signal!Top >= 2 /\ BurstMax \in Nat
  BY TopOk, SilenceAssumption, FrontPanelAssumption DEF Falls, Level
<1> QED BY <1>1 DEF Fading, Level

LEMMA SignalInitial ==
  ASSUME NEW frames, Falls(frames), Signal!Init
  PROVE  SignalInv(frames)
<1>1. Signal!Top \in Nat /\ BurstMax \in Nat /\ Phase1 \in Nat /\ QuietMax \in Nat
  BY TopOk, FrontPanelAssumption
<1>2. SignalOk
  BY <1>1 DEF SignalOk, Signal!Init, Level
<1>3. 0 \in Level /\ 0 \in 0..BurstMax
  BY <1>1 DEF Level
<1>4. Fading(frames, 0, 0, 0, 0)
  BY <1>3, Loud
<1> QED BY <1>2, <1>4 DEF SignalInv, Signal!Init

\* What all three ends of a frame have in common.
Heard(frames, raw, f, g, d) ==
  /\ f \in [at : Nat, ref : Nat, n : 0..Phase1] /\ (f.n = Phase1 => f.at <= 2 * f.ref)
  /\ g \in Level /\ d \in Level
  /\ raw = 0 => g <= smooth.gate /\ d \in {smooth.disp \div 2, 0}
  /\ Signal!QuietAfter(raw) \in 0..QuietMax

LEMMA FrameOk ==
  ASSUME NEW frames, SignalInv(frames), NEW raw \in Raws, NEW f \in Signal!Floors(raw),
         NEW g, g = IF Signal!Vanished(raw, f) THEN 0
                      ELSE Signal!Towards(smooth.gate, Signal!Power(raw, f)),
         NEW d, d = IF Signal!Vanished(raw, f) THEN 0
                      ELSE Signal!Towards(smooth.disp, Signal!DispPower(raw, f))
  PROVE  Heard(frames, raw, f, g, d)
<1>1. f \in [at : Nat, ref : Nat, n : 0..Phase1] /\ (f.n = Phase1 => f.at <= 2 * f.ref)
  BY FloorOk DEF SignalInv
<1>2. /\ raw \in Nat /\ raw <= Signal!Top /\ Signal!Top \in Nat /\ smooth.gate \in Level /\ smooth.disp \in Level
      /\ f.at \in Nat /\ heard.quiet \in 0..QuietMax /\ QuietMax \in Nat
  BY <1>1, TopOk, FrontPanelAssumption DEF SignalInv, SignalOk
<1>3. PICK p \in Nat : p = Signal!Power(raw, f) /\ p <= raw
  BY <1>2 DEF Signal!Power, Signal!Less
<1>4. PICK dp \in Nat : dp = Signal!DispPower(raw, f) /\ dp <= raw
  BY <1>2 DEF Signal!DispPower, Signal!Less
<1>5. g \in Level /\ (raw = 0 => g <= smooth.gate)
  <2>1. CASE g = 0
    BY <1>2, <2>1 DEF Level
  <2>2. CASE g = Signal!Towards(smooth.gate, p)
    <3>1. smooth.gate \in Nat
      BY <1>2 DEF Level
    <3>2. /\ Signal!Towards(smooth.gate, p) \in Nat
          /\ Signal!Towards(smooth.gate, p) <= smooth.gate \/ Signal!Towards(smooth.gate, p) <= p
          /\ Signal!Towards(smooth.gate, 0) = smooth.gate \div 2
      BY <1>3, <3>1, Average
    <3> QED BY <1>2, <1>3, <2>2, <3>1, <3>2 DEF Level
  <2> QED BY <1>3, <2>1, <2>2
<1>6. d \in Level /\ (raw = 0 => d \in {smooth.disp \div 2, 0})
  <2>1. CASE d = 0
    BY <1>2, <2>1 DEF Level
  <2>2. CASE d = Signal!Towards(smooth.disp, dp)
    <3>1. smooth.disp \in Nat
      BY <1>2 DEF Level
    <3>2. /\ Signal!Towards(smooth.disp, dp) \in Nat
          /\ Signal!Towards(smooth.disp, dp) <= smooth.disp \/ Signal!Towards(smooth.disp, dp) <= dp
          /\ Signal!Towards(smooth.disp, 0) = smooth.disp \div 2
      BY <1>4, <3>1, Average
    <3> QED BY <1>2, <1>4, <2>2, <3>1, <3>2 DEF Level
  <2> QED BY <1>4, <2>1, <2>2
<1>7. Signal!QuietAfter(raw) \in 0..QuietMax
  BY <1>2 DEF Signal!QuietAfter, Signal!AtMost
<1> QED BY <1>1, <1>5, <1>6, <1>7 DEF Heard

LEMMA HoldBackStep ==
  ASSUME NEW frames, Falls(frames), SignalInv(frames), NEW raw \in Raws, NEW f, NEW g, NEW d,
         Heard(frames, raw, f, g, d), Signal!HoldBack(raw, f, g, d)
  PROVE  SignalInv(frames)'
<1>0. /\ Signal!Jump(g) /\ floor' = f /\ smooth' = [gate |-> g, disp |-> d]
      /\ spike' = [prev |-> g, pend |-> TRUE, psum |-> Signal!Power(raw, f)]
      /\ heard' = [heard EXCEPT !.quiet = Signal!QuietAfter(raw), !.sound = @ \/ raw > f.at,
                                !.held = Signal!AtMost(@ + 1, 2)]
      /\ burst' = burst /\ levels' = levels
  BY DEF Signal!HoldBack
<1>1. raw # 0
  <2>1. /\ spike.prev >= smooth.gate /\ spike.prev \in Level /\ smooth.gate \in Level /\ g \in Level
        /\ Signal!Top \in Nat /\ SpikeLo \in Nat /\ SpikeHi \in Nat /\ SpikeLo <= SpikeHi
        /\ (raw = 0 => g <= smooth.gate) /\ spike.prev < SpikeLo /\ g > SpikeHi
    BY <1>0, TopOk, FrontPanelAssumption DEF SignalInv, SignalOk, Heard, Signal!Jump
  <2> QED BY <2>1 DEF Level
<1>2. heard.held = 0
  <2>1. ~spike.pend
    BY <1>0 DEF Signal!Jump
  <2>2. heard.held \in 0..1 /\ heard.held # 1
    BY <2>1 DEF SignalInv, SignalOk
  <2> QED BY <2>2
<1>3. PICK sound \in BOOLEAN : heard' = [sound |-> sound, held |-> 1, drops |-> heard.drops, quiet |-> 0]
  <2>1. PICK sound \in BOOLEAN : sound = (heard.sound \/ raw > f.at)
    <3> WITNESS (heard.sound \/ raw > f.at) \in BOOLEAN
    <3> QED OBVIOUS
  <2>2. heard = [sound |-> heard.sound, held |-> 0, drops |-> heard.drops, quiet |-> heard.quiet]
    BY <1>2 DEF SignalInv, SignalOk
  <2>3. Signal!QuietAfter(raw) = 0 /\ Signal!AtMost(heard.held + 1, 2) = 1
    BY <1>1, <1>2 DEF Signal!QuietAfter, Signal!AtMost
  <2> QED BY <1>0, <2>1, <2>2, <2>3
<1>4. /\ Signal!Power(raw, f) \in Nat /\ QuietMax \in Nat
      /\ spike' \in [prev : Level, pend : BOOLEAN, psum : Nat] /\ smooth' \in [gate : Level, disp : Level]
  BY <1>0, TopOk, FrontPanelAssumption DEF Heard, Signal!Power, Signal!Less, SignalInv, SignalOk
<1>5. SignalOk'
  BY <1>0, <1>3, <1>4 DEF SignalInv, SignalOk, Heard
<1>6. smooth'.disp \in Level /\ levels'.peak \in Level /\ burst' \in 0..BurstMax
  BY <1>5 DEF SignalOk
<1>7. Fading(frames, heard'.quiet, smooth'.disp, levels'.peak, burst')
  BY <1>3, <1>6, Loud
<1>8. heard'.quiet < frames[Signal!Top] + Signal!Top - 1
  BY <1>3, <1>6, Loud
<1>9. frames[Signal!Top] \in Nat /\ Signal!Top \in Nat
  BY TopOk DEF Falls, Level
<1> QED BY <1>0, <1>3, <1>5, <1>7, <1>8, <1>9 DEF SignalInv, SignalOk, Heard, Level

\* What a frame that is not held back leaves, given what it makes of level, peak and burst.
LEMMA ShownOrBlank ==
  ASSUME NEW frames, Falls(frames), SignalInv(frames), NEW raw \in Raws, NEW f, NEW g, NEW d,
         Heard(frames, raw, f, g, d),
         NEW disp \in Level, NEW peak \in Level, NEW n \in 0..BurstMax, NEW lit \in BOOLEAN,
         NEW drops \in 0..BurstMax, drops <= n, lit => peak > 0,
         \/ disp = smooth.disp /\ n = burst + 1 /\ d > 0
         \/ disp = d /\ n \in {0, burst},
         peak \in {Signal!Less(levels.peak, 1), IF disp > levels.peak THEN disp ELSE Signal!Less(levels.peak, 1)},
         floor' \in [at : Nat, ref : Nat, n : 0..Phase1], floor'.n = Phase1 => floor'.at <= 2 * floor'.ref,
         smooth' = [gate |-> g, disp |-> disp], spike' = [prev |-> g, pend |-> FALSE, psum |-> 0],
         burst' = n, levels' = [peak |-> peak, lit |-> lit],
         heard' = [heard EXCEPT !.quiet = Signal!QuietAfter(raw), !.sound = @ \/ raw > f.at, !.held = 0,
                                !.drops = drops]
  PROVE  SignalInv(frames)'
<1>1. PICK sound \in BOOLEAN : sound = (heard.sound \/ raw > f.at)
  <2> WITNESS (heard.sound \/ raw > f.at) \in BOOLEAN
  <2> QED OBVIOUS
<1>2. heard' = [sound |-> sound, held |-> 0, drops |-> drops, quiet |-> Signal!QuietAfter(raw)]
  <2>1. heard = [sound |-> heard.sound, held |-> heard.held, drops |-> heard.drops, quiet |-> heard.quiet]
    BY DEF SignalInv, SignalOk
  <2> QED BY <1>1, <2>1
<1>3. SignalOk'
  BY <1>2 DEF SignalInv, SignalOk, Heard
<1>4. /\ Signal!Top \in Nat /\ smooth.disp \in Level /\ levels.peak \in Level /\ burst \in 0..BurstMax
      /\ heard.quiet \in 0..QuietMax /\ Fading(frames, heard.quiet, smooth.disp, levels.peak, burst)
  BY TopOk DEF SignalInv, SignalOk
<1>5. /\ Fading(frames, Signal!QuietAfter(raw), disp, peak, n)
      /\ Signal!QuietAfter(raw) >= frames[Signal!Top] + Signal!Top - 1 => ~lit
  <2>1. CASE raw = 0
    <3>1. /\ d \in {smooth.disp \div 2, 0} /\ Signal!QuietAfter(raw) = Signal!AtMost(heard.quiet + 1, QuietMax)
          /\ d > 0 => smooth.disp >= 2
      BY <1>4, <2>1 DEF Heard, Signal!QuietAfter, Level
    <3>2. \/ disp = smooth.disp /\ n = burst + 1 /\ smooth.disp >= 2
          \/ disp \in {smooth.disp \div 2, 0} /\ n \in {0, burst}
      BY <3>1
    <3>3. LET q2 == Signal!AtMost(heard.quiet + 1, QuietMax) IN
          /\ Fading(frames, q2, disp, peak, n)
          /\ q2 >= frames[Signal!Top] + Signal!Top - 1 => peak = 0
      BY <1>4, <3>2, Fade
    <3> QED BY <3>1, <3>3
  <2>2. CASE raw # 0
    <3>1. Signal!QuietAfter(raw) = 0
      BY <2>2 DEF Signal!QuietAfter
    <3>2. Fading(frames, 0, disp, peak, n) /\ 0 < frames[Signal!Top] + Signal!Top - 1
      BY Loud
    <3>3. frames[Signal!Top] \in Nat
      BY <1>4 DEF Falls, Level
    <3> QED BY <1>4, <3>1, <3>2, <3>3
  <2> QED BY <2>1, <2>2
<1> QED BY <1>2, <1>3, <1>5 DEF SignalInv, Heard, Level

LEMMA BlankStep ==
  ASSUME NEW frames, Falls(frames), SignalInv(frames), NEW raw \in Raws, NEW f, NEW g, NEW d, NEW after,
         Heard(frames, raw, f, g, d), Signal!Blank(raw, f, g, d, after)
  PROVE  SignalInv(frames)'
<1>1. /\ floor' = f /\ smooth' = [gate |-> g, disp |-> d] /\ burst' = burst
      /\ levels' = [peak |-> Signal!Fallen(levels.peak), lit |-> FALSE]
      /\ spike' = [spike EXCEPT !.prev = g, !.pend = FALSE, !.psum = 0]
      /\ heard' = [heard EXCEPT !.quiet = Signal!QuietAfter(raw), !.sound = @ \/ raw > f.at, !.held = 0]
  BY DEF Signal!Blank
<1>2. /\ Signal!Top \in Nat /\ levels.peak \in Level /\ burst \in 0..BurstMax /\ heard.drops \in 0..BurstMax
      /\ heard.drops <= burst
      /\ heard = [sound |-> heard.sound, held |-> heard.held, drops |-> heard.drops, quiet |-> heard.quiet]
      /\ spike = [prev |-> spike.prev, pend |-> spike.pend, psum |-> spike.psum]
  BY TopOk DEF SignalInv, SignalOk
<1>3. Signal!Less(levels.peak, 1) \in Level /\ Signal!Fallen(levels.peak) = Signal!Less(levels.peak, 1)
  BY <1>2 DEF Signal!Less, Signal!Fallen, Level
<1>4. heard' = [heard EXCEPT !.quiet = Signal!QuietAfter(raw), !.sound = @ \/ raw > f.at, !.held = 0,
                             !.drops = heard.drops]
  BY <1>1, <1>2
<1>5. spike' = [prev |-> g, pend |-> FALSE, psum |-> 0]
  BY <1>1, <1>2
<1>6. d \in Level /\ f \in [at : Nat, ref : Nat, n : 0..Phase1] /\ (f.n = Phase1 => f.at <= 2 * f.ref)
  BY DEF Heard
<1>7. PICK disp \in Level, peak \in Level, n \in 0..BurstMax, lit \in BOOLEAN, drops \in 0..BurstMax :
        disp = d /\ peak = Signal!Less(levels.peak, 1) /\ n = burst /\ lit = FALSE /\ drops = heard.drops
  BY <1>2, <1>3, <1>6
<1>8. /\ disp = d /\ n \in {0, burst} /\ drops <= n /\ (lit => peak > 0)
      /\ peak \in {Signal!Less(levels.peak, 1), IF disp > levels.peak THEN disp ELSE Signal!Less(levels.peak, 1)}
      /\ floor' \in [at : Nat, ref : Nat, n : 0..Phase1] /\ (floor'.n = Phase1 => floor'.at <= 2 * floor'.ref)
  BY <1>1, <1>2, <1>6, <1>7
<1>9. /\ smooth' = [gate |-> g, disp |-> disp] /\ burst' = n /\ levels' = [peak |-> peak, lit |-> lit]
      /\ heard' = [heard EXCEPT !.quiet = Signal!QuietAfter(raw), !.sound = @ \/ raw > f.at, !.held = 0,
                                !.drops = drops]
  BY <1>1, <1>3, <1>4, <1>7
<1> QED BY <1>5, <1>8, <1>9, ShownOrBlank

LEMMA ShowStep ==
  ASSUME NEW frames, Falls(frames), SignalInv(frames), NEW raw \in Raws, NEW f, NEW g, NEW d, NEW after,
         Heard(frames, raw, f, g, d), Signal!Show(raw, f, g, d, after)
  PROVE  SignalInv(frames)'
<1>0. /\ Signal!Top \in Nat /\ levels.peak \in Level /\ burst \in 0..BurstMax /\ heard.drops \in 0..BurstMax
      /\ heard.drops <= burst /\ smooth.disp \in Level /\ BurstMax \in Nat /\ d \in Level
  BY TopOk, FrontPanelAssumption DEF SignalInv, SignalOk, Heard
<1>1. PICK drop \in {FALSE, d > 0 /\ Signal!Dropped} :
        LET disp == IF drop THEN smooth.disp ELSE d
            peak == IF disp > levels.peak THEN disp ELSE Signal!Fallen(levels.peak)
        IN /\ smooth' = [gate |-> g, disp |-> disp]
           /\ burst' = IF drop THEN burst + 1 ELSE 0
           /\ levels' = [peak |-> peak, lit |-> peak > 0]
           /\ heard' = [heard EXCEPT !.quiet = Signal!QuietAfter(raw), !.sound = @ \/ raw > f.at, !.held = 0,
                                     !.drops = IF drop THEN Signal!AtMost(@ + 1, BurstMax + 1) ELSE 0]
  BY DEF Signal!Show
<1>2. PICK disp \in Level : disp = IF drop THEN smooth.disp ELSE d
  BY <1>0
<1>3. PICK peak \in Level : peak = IF disp > levels.peak THEN disp ELSE Signal!Less(levels.peak, 1)
  BY <1>0, <1>2 DEF Signal!Less, Level
<1>4. PICK lit \in BOOLEAN : lit = (peak > 0)
  <2> WITNESS (peak > 0) \in BOOLEAN
  <2> QED OBVIOUS
<1>5. drop => d > 0 /\ burst < BurstMax
  BY <1>1 DEF Signal!Dropped
<1>6. PICK n \in 0..BurstMax : n = IF drop THEN burst + 1 ELSE 0
  BY <1>0, <1>5
<1>7. PICK drops \in 0..BurstMax : /\ drops = (IF drop THEN Signal!AtMost(heard.drops + 1, BurstMax + 1) ELSE 0)
                                   /\ drops <= n
  BY <1>0, <1>5, <1>6 DEF Signal!AtMost
<1>8. /\ smooth' = [gate |-> g, disp |-> disp] /\ burst' = n /\ levels' = [peak |-> peak, lit |-> lit]
      /\ heard' = [heard EXCEPT !.quiet = Signal!QuietAfter(raw), !.sound = @ \/ raw > f.at, !.held = 0,
                                !.drops = drops]
  BY <1>1, <1>2, <1>3, <1>4, <1>6, <1>7 DEF Signal!Fallen
<1>9. /\ spike' = [prev |-> g, pend |-> FALSE, psum |-> 0]
      /\ floor' \in [at : Nat, ref : Nat, n : 0..Phase1] /\ (floor'.n = Phase1 => floor'.at <= 2 * floor'.ref)
  <2>1. spike' = [prev |-> g, pend |-> FALSE, psum |-> 0] /\ (floor' = f \/ floor' \in Signal!Baselines)
    BY DEF Signal!Show
  <2>2. CASE floor' = f
    BY <2>1, <2>2 DEF Heard
  <2>3. CASE floor' \in Signal!Baselines
    <3>1. PICK a \in Raws : floor' = [at |-> a, ref |-> a, n |-> Phase1]
      BY <2>3 DEF Signal!Baselines
    <3> QED BY <2>1, <3>1, TopOk, FrontPanelAssumption
  <2> QED BY <2>1, <2>2, <2>3
<1>10. \/ disp = smooth.disp /\ n = burst + 1 /\ d > 0
       \/ disp = d /\ n \in {0, burst}
  BY <1>2, <1>5, <1>6
<1>11. /\ drops <= n /\ (lit => peak > 0)
       /\ peak \in {Signal!Less(levels.peak, 1), IF disp > levels.peak THEN disp ELSE Signal!Less(levels.peak, 1)}
  BY <1>3, <1>4, <1>7
<1> QED BY <1>8, <1>9, <1>10, <1>11, ShownOrBlank

LEMMA FrameStepOk ==
  ASSUME NEW frames, Falls(frames), SignalInv(frames), Signal!Frame
  PROVE  SignalInv(frames)'
<1>1. PICK raw \in Raws : Signal!FrameOf(raw)
  BY DEF Signal!Frame
<1>a. PICK f \in Signal!Floors(raw) :
        LET gg == IF Signal!Vanished(raw, f) THEN 0 ELSE Signal!Towards(smooth.gate, Signal!Power(raw, f))
            dd == IF Signal!Vanished(raw, f) THEN 0 ELSE Signal!Towards(smooth.disp, Signal!DispPower(raw, f))
            after == Signal!GateAfter(gg, f)
        IN \/ Signal!HoldBack(raw, f, gg, dd)
           \/ Signal!Blank(raw, f, gg, dd, after)
           \/ Signal!Show(raw, f, gg, dd, after)
  BY <1>1, Zenon DEF Signal!FrameOf
<1>2. PICK g : g = IF Signal!Vanished(raw, f) THEN 0 ELSE Signal!Towards(smooth.gate, Signal!Power(raw, f))
  OBVIOUS
<1>3. PICK d : d = IF Signal!Vanished(raw, f) THEN 0 ELSE Signal!Towards(smooth.disp, Signal!DispPower(raw, f))
  OBVIOUS
<1>4. PICK after : after = Signal!GateAfter(g, f)
  OBVIOUS
<1>5. Heard(frames, raw, f, g, d)
  BY <1>2, <1>3, FrameOk
<1>6. \/ Signal!HoldBack(raw, f, g, d)
      \/ Signal!Blank(raw, f, g, d, after)
      \/ Signal!Show(raw, f, g, d, after)
  BY <1>a, <1>2, <1>3, <1>4
<1> QED BY <1>5, <1>6, HoldBackStep, BlankStep, ShowStep

LEMMA SignalStep ==
  ASSUME NEW frames, Falls(frames)
  PROVE  SignalInv(frames) /\ [Next]_vars => SignalInv(frames)'
<1> SUFFICES ASSUME SignalInv(frames), [Next]_vars PROVE SignalInv(frames)'
  OBVIOUS
<1>0. /\ Signal!Top \in Nat /\ Phase1 \in Nat /\ BurstMax \in Nat /\ SignalOk
      /\ floor = [at |-> floor.at, ref |-> floor.ref, n |-> floor.n]
      /\ levels = [peak |-> levels.peak, lit |-> levels.lit]
      /\ heard = [sound |-> heard.sound, held |-> heard.held, drops |-> heard.drops, quiet |-> heard.quiet]
  BY TopOk, FrontPanelAssumption DEF SignalInv, SignalOk
<1>f. frames[Signal!Top] \in Nat
  BY <1>0 DEF Falls, Level
<1>1. CASE Signal!Frame
  BY <1>1, FrameStepOk
<1>2. CASE Signal!StopCapture
  <2>1. /\ levels' = [peak |-> 0, lit |-> FALSE] /\ UNCHANGED <<floor, smooth, spike, burst>>
        /\ heard' = [sound |-> FALSE, held |-> heard.held, drops |-> heard.drops, quiet |-> heard.quiet]
    BY <1>0, <1>2 DEF Signal!StopCapture
  <2>2. SignalOk'
    BY <1>0, <2>1 DEF SignalOk, Level
  <2>3. Fading(frames, heard'.quiet, smooth'.disp, levels'.peak, burst')
    BY <1>0, <1>f, <2>1, SilenceAssumption DEF SignalInv, SignalOk, Fading, Level
  <2> QED BY <2>1, <2>2, <2>3 DEF SignalInv
<1>3. CASE Signal!NewLayout
  <2>1. /\ floor' = [at |-> 0, ref |-> floor.ref, n |-> 0] /\ smooth' = [gate |-> 0, disp |-> 0]
        /\ levels' = [peak |-> 0, lit |-> levels.lit] /\ UNCHANGED <<spike, burst, heard>>
    BY <1>0, <1>3 DEF Signal!NewLayout
  <2>2. SignalOk'
    BY <1>0, <2>1 DEF SignalOk, Level
  <2>3. Fading(frames, heard'.quiet, smooth'.disp, levels'.peak, burst')
    BY <1>0, <1>f, <2>1, SilenceAssumption DEF SignalInv, SignalOk, Fading, Level
  <2> QED BY <1>0, <2>1, <2>2, <2>3 DEF SignalInv, SignalOk, Level
<1>4. CASE Signal!ResetCalibration
  <2>1. floor' = [at |-> 0, ref |-> floor.ref, n |-> 0] /\ UNCHANGED <<smooth, levels, spike, burst, heard>>
    BY <1>0, <1>4 DEF Signal!ResetCalibration
  <2> QED BY <1>0, <2>1 DEF SignalInv, SignalOk, Fading
<1>5. CASE Signal!ApplyCalibration
  <2>1. PICK a \in Raws : floor' = [at |-> a, ref |-> a, n |-> Phase1]
    BY <1>5 DEF Signal!ApplyCalibration
  <2>2. a \in Nat /\ UNCHANGED <<smooth, levels, spike, burst, heard>>
    BY <1>5, TopOk DEF Signal!ApplyCalibration
  <2> QED BY <1>0, <2>1, <2>2 DEF SignalInv, SignalOk, Fading
<1>6. CASE Signal!Calibrate \/ UNCHANGED signalVars
  <2>1. UNCHANGED <<floor, smooth, levels, spike, burst, heard>>
    BY <1>6 DEF Signal!Calibrate, signalVars
  <2> QED BY <2>1 DEF SignalInv, SignalOk, Fading
<1>7. Signal!Next \/ UNCHANGED signalVars
  BY DEF Next, vars, MicPart, SignalPart, TouchPart, FacePart, BarsPart, SkyPart, PanelsPart, TimersPart, AlbumPart
<1> QED BY <1>1, <1>2, <1>3, <1>4, <1>5, <1>6, <1>7 DEF Signal!Next

LEMMA SignalHonest ==
  ASSUME NEW frames, Falls(frames), SignalInv(frames)
  PROVE  Signal!GuardsBounded /\ Signal!SilenceDarkens
<1>1. QuietMax >= frames[Signal!Top] + Signal!Top - 1
  BY DEF Falls
<1> QED BY <1>1, FrontPanelAssumption DEF SignalInv, SignalOk, Signal!GuardsBounded, Signal!SilenceDarkens

-----------------------------------------------------------------------------
(* The capture and its two requests *)

Places == {"none", "top", "expired", "dump", "dumpdec", "dumpgive", "bands", "judge", "clear", "give"}
Waits == {"idle", "calwait", "calread", "framewait", "copydec", "frame", "newtrace", "notrace"}

Tasks == [pc : Places, frame : {0, 1}, tr : BOOLEAN]
Callers == [pc : Waits, raw : {0, 1}, dec : {0, 1}]
Converters == [run : BOOLEAN, ch : Mic!Channels, conv : Mic!Channels, stuck : BOOLEAN]
Dumps == [req : BOOLEAN, raw : {0, 1}, dec : {0, 1}, sem : {0, 1}, mine : BOOLEAN]
Traces == [buf : BOOLEAN, n : Nat, on : BOOLEAN]
Counts == [req : BOOLEAN, cnt : 0..CalFrames, sum : Nat, odd : Nat, sem : {0, 1}]
Bases == [on : BOOLEAN, sum : Nat, odd : 0..1, mine : BOOLEAN]
Files == [on : BOOLEAN, top : Mic!Layouts, odd : 0..1]

CaptureOk ==
  /\ task \in Tasks /\ http \in Callers /\ want \in Mic!Settings /\ acq \in Converters
  /\ dump \in Dumps /\ trace \in Traces /\ cal \in Counts /\ base \in Bases /\ stored \in Files

TracedOk == task.tr => trace.buf

\* The task writes the frame asked for only while the caller waits for it.
FrameInv ==
  /\ dump.req => http.pc = "framewait" /\ dump.sem = 0
  /\ task.pc = "dumpdec" => /\ http.pc = "framewait" /\ dump.sem = 0
                            /\ dump.raw = task.frame /\ dump.mine
  /\ task.pc = "dumpgive" => /\ http.pc = "framewait" /\ dump.sem = 0 /\ ~dump.req
                             /\ dump.raw = dump.dec /\ dump.mine
  /\ dump.sem = 1 => http.pc = "framewait" /\ dump.raw = dump.dec /\ dump.mine
  /\ http.pc = "copydec" => http.raw = dump.dec /\ dump.mine
  /\ http.pc = "frame" => http.raw = http.dec /\ dump.mine

\* The baseline of a request, from the last of its frames on.
Averaged == base.mine /\ base.sum >= CalFrames - 1 /\ layout = want.top

\* A request counts at most one frame more than it sums, the one that was half analysed
\* when it was made; and only that one can be of an old layout.
BaselineInv ==
  /\ cal.req => /\ http.pc = "calwait" /\ cal.sem = 0
                /\ cal.odd <= 1
                /\ task.pc # "clear" => cal.cnt < CalFrames
                /\ cal.cnt <= cal.sum + 1 /\ (task.pc = "judge" => cal.cnt <= cal.sum)
                /\ layout # want.top =>
                     /\ cal.cnt <= IF task.pc \in {"top", "expired"} THEN 1 ELSE 0
                     /\ task.pc \in {"dump", "dumpdec", "dumpgive", "bands"} => cal.odd = 0
  /\ task.pc \in {"clear", "give"} => http.pc = "calwait" /\ cal.sem = 0 /\ Averaged
  /\ task.pc = "clear" => cal.req
  /\ task.pc = "give" => ~cal.req
  /\ cal.sem = 1 => http.pc = "calwait" /\ ~cal.req /\ Averaged
  /\ http.pc = "calread" => ~cal.req /\ Averaged

MicInv == CaptureOk /\ TracedOk /\ FrameInv /\ BaselineInv /\ Mic!ChannelConverted

LEMMA CaptureInitial == Init => MicInv
BY FrontPanelAssumption DEF Init, Mic!Init, Mic!Uses, MicInv, CaptureOk, TracedOk, FrameInv, BaselineInv,
   Mic!ChannelConverted, Mic!Settings, Mic!Channels, Mic!Layouts, Mic!NoBase, Mic!NotSaved, Places, Waits,
   Tasks, Callers, Converters, Dumps, Traces, Counts, Bases, Files

\* What the converter can be after it was stopped and perhaps started.
Converted(a) == a.run /\ ~a.stuck => a.conv = a.ch

LEMMA StopOk ==
  ASSUME NEW a \in Converters, Converted(a), NEW b \in Mic!AcqStop(a)
  PROVE  b \in Converters /\ Converted(b) /\ (b.run => b.stuck \/ b = a)
<1>1. /\ a = [run |-> a.run, ch |-> a.ch, conv |-> a.conv, stuck |-> a.stuck]
      /\ b = a \/ b = [run |-> FALSE, ch |-> a.ch, conv |-> a.conv, stuck |-> a.stuck]
         \/ b = [run |-> a.run, ch |-> a.ch, conv |-> a.conv, stuck |-> TRUE]
  BY DEF Converters, Mic!AcqStop
<1>2. CASE b = a
  BY <1>2
<1>3. CASE b = [run |-> FALSE, ch |-> a.ch, conv |-> a.conv, stuck |-> a.stuck]
  BY <1>3 DEF Converters, Converted
<1>4. CASE b = [run |-> a.run, ch |-> a.ch, conv |-> a.conv, stuck |-> TRUE]
  BY <1>4 DEF Converters, Converted
<1> QED BY <1>1, <1>2, <1>3, <1>4

LEMMA ReconfiguredOk ==
  ASSUME NEW a \in Converters, Converted(a), NEW ch \in Mic!Channels, NEW b \in Mic!Reconfigured(a, ch)
  PROVE  b \in Converters /\ Converted(b)
<1>1. CASE ch = a.ch
  BY <1>1 DEF Mic!Reconfigured
<1>2. CASE ch # a.ch
  <2>1. PICK c \in Mic!AcqStop(a) : b \in {c, [c EXCEPT !.ch = ch]}
    BY <1>2 DEF Mic!Reconfigured
  <2>2. c \in Converters /\ Converted(c)
    BY StopOk
  <2>3. ~c.run \/ c.stuck
    <3>1. CASE a.run
      BY <3>1, <2>1 DEF Mic!AcqStop, Converters
    <3>2. CASE ~a.run
      BY <3>2, <2>1 DEF Mic!AcqStop
    <3> QED BY <3>1, <3>2
  <2> QED BY <2>1, <2>2, <2>3 DEF Converters, Converted
<1> QED BY <1>1, <1>2

LEMMA StartOk ==
  ASSUME NEW a \in Converters, Converted(a)
  PROVE  Mic!AcqStart(a) \in Converters /\ Converted(Mic!AcqStart(a))
BY DEF Mic!AcqStart, Converters, Converted

\* A pass of the task: the layout, then perhaps a frame.
Passed ==
  /\ task.pc \in {"top", "expired"} /\ task'.pc \in {"top", "dump"} /\ task'.tr = task.tr
  /\ task' \in Tasks
  /\ layout' = want.top /\ base' = (IF layout = want.top THEN base ELSE Mic!NoBase)
  /\ acq' \in Converters /\ Converted(acq')
  /\ UNCHANGED <<want, cal, stored, dump, trace, http>>

LEMMA PassOk == ASSUME MicInv, Mic!Gated \/ Mic!ReadFrame PROVE Passed
<1>0. /\ acq \in Converters /\ Converted(acq) /\ want.ch \in Mic!Channels
      /\ task = [pc |-> task.pc, frame |-> task.frame, tr |-> task.tr]
      /\ task.frame \in {0, 1} /\ task.tr \in BOOLEAN
  BY DEF MicInv, CaptureOk, Tasks, Converted, Mic!ChannelConverted, Mic!Settings
<1>1. /\ task.pc \in {"top", "expired"}
      /\ layout' = want.top /\ base' = (IF layout = want.top THEN base ELSE Mic!NoBase)
      /\ UNCHANGED <<want, cal, stored, dump, trace, http>>
  BY DEF Mic!Gated, Mic!ReadFrame, Mic!Passing, Mic!Rebuilt
<1>2. /\ task' \in Tasks
      /\ task'.pc \in {"top", "dump"} /\ task'.tr = task.tr
  <2>1. \/ task' = [pc |-> "top", frame |-> task.frame, tr |-> task.tr]
        \/ task' = [pc |-> "dump", frame |-> 1 - task.frame, tr |-> task.tr]
    <3>1. task' = [task EXCEPT !.pc = "top"] \/ task' = [task EXCEPT !.pc = "dump", !.frame = 1 - @]
      BY DEF Mic!Gated, Mic!ReadFrame
    <3> QED BY <1>0, <3>1
  <2>2. 1 - task.frame \in {0, 1}
    BY <1>0
  <2> QED BY <1>0, <2>1, <2>2 DEF Tasks, Places
<1>3. acq' \in Converters /\ Converted(acq')
  <2>1. CASE Mic!Gated
    BY <1>0, <2>1, StopOk DEF Mic!Gated
  <2>2. CASE Mic!ReadFrame
    <3>1. PICK a \in Mic!Reconfigured(acq, want.ch) : acq' \in {a, Mic!AcqStart(a)}
      BY <2>2 DEF Mic!ReadFrame
    <3>2. a \in Converters /\ Converted(a)
      BY <1>0, ReconfiguredOk
    <3> QED BY <3>1, <3>2, StartOk
  <2> QED BY <2>1, <2>2
<1> QED BY <1>1, <1>2, <1>3 DEF Passed

\* The task's own steps that leave the converter and the layout alone.
LEMMA TaskTypes ==
  ASSUME MicInv,
         \/ Mic!EndTest \/ Mic!NoDump \/ Mic!DumpRaw \/ Mic!DumpDec \/ Mic!DumpGive
         \/ Mic!SumBands \/ Mic!Uncounted \/ Mic!Judged \/ Mic!ClearRequest \/ Mic!GiveDone
  PROVE  task' \in Tasks
<1>0. /\ task = [pc |-> task.pc, frame |-> task.frame, tr |-> task.tr]
      /\ task.frame \in {0, 1} /\ task.tr \in BOOLEAN
  BY DEF MicInv, CaptureOk, Tasks
<1>1. CASE Mic!NoDump \/ Mic!DumpGive
  <2>1. PICK tr \in BOOLEAN : tr = Mic!Tracing
    <3>1. Mic!Tracing \in BOOLEAN
      BY Zenon DEF Mic!Tracing
    <3> QED BY <3>1
  <2>2. task' = [pc |-> "bands", frame |-> task.frame, tr |-> tr]
    BY <1>0, <1>1, <2>1 DEF Mic!NoDump, Mic!DumpGive, Mic!Analyse
  <2> QED BY <1>0, <2>2 DEF Tasks, Places
<1>2. CASE Mic!EndTest \/ Mic!DumpRaw \/ Mic!DumpDec \/ Mic!Uncounted \/ Mic!Judged \/ Mic!ClearRequest
           \/ Mic!GiveDone
  <2>1. PICK place \in Places : task' = [pc |-> place, frame |-> task.frame, tr |-> task.tr]
    BY <1>0, <1>2 DEF Mic!EndTest, Mic!DumpRaw, Mic!DumpDec, Mic!Uncounted, Mic!Judged, Mic!ClearRequest,
       Mic!GiveDone, Mic!Task, Places
  <2> QED BY <1>0, <2>1 DEF Tasks
<1>3. CASE Mic!SumBands
  <2>1. task' = [pc |-> "judge", frame |-> task.frame, tr |-> FALSE]
    BY <1>0, <1>3 DEF Mic!SumBands
  <2> QED BY <1>0, <2>1 DEF Tasks, Places
<1> QED BY <1>1, <1>2, <1>3

\* Requests, counts, baselines and buffers that are set as a whole.
LEMMA Made ==
  /\ Mic!NoBase \in Bases /\ Mic!NotSaved \in Files
  /\ [buf |-> FALSE, n |-> 0, on |-> FALSE] \in Traces /\ [buf |-> TRUE, n |-> 0, on |-> TRUE] \in Traces
  /\ [pc |-> "idle", raw |-> 0, dec |-> 0] \in Callers
BY DEF Mic!NoBase, Mic!NotSaved, Mic!Layouts, Bases, Files, Traces, Callers, Waits

LEMMA Emptied ==
  ASSUME NEW c \in Counts
  PROVE  Mic!Left(c) \in Counts /\ [req |-> TRUE, cnt |-> 0, sum |-> 0, odd |-> 0, sem |-> c.sem] \in Counts
<1>1. CalFrames \in Nat /\ c.sem \in {0, 1}
  BY FrontPanelAssumption DEF Counts
<1> QED BY <1>1 DEF Mic!Left, Counts

LEMMA CaptureStep == ASSUME MicInv, ~Late, Mic!Next PROVE CaptureOk'
<1>0. CaptureOk /\ CalFrames \in Nat /\ task.frame \in {0, 1}
  BY FrontPanelAssumption DEF MicInv, CaptureOk, Tasks
<1>1. CASE Mic!Gated \/ Mic!ReadFrame
  <2>1. Passed
    BY <1>1, PassOk
  <2>2. Mic!NoBase \in Bases
    BY DEF Mic!NoBase, Bases
  <2> QED BY <1>0, <2>1, <2>2 DEF Passed, CaptureOk
<1>2. CASE \/ Mic!EndTest \/ Mic!NoDump \/ Mic!DumpRaw \/ Mic!DumpDec \/ Mic!DumpGive
           \/ Mic!SumBands \/ Mic!Uncounted \/ Mic!Judged \/ Mic!ClearRequest \/ Mic!GiveDone
  <2>1. task' \in Tasks
    BY <1>2, TaskTypes
  <2>2. UNCHANGED <<want, acq, stored, http>>
    BY <1>2 DEF Mic!EndTest, Mic!NoDump, Mic!DumpRaw, Mic!DumpDec, Mic!DumpGive, Mic!SumBands, Mic!Uncounted,
       Mic!Judged, Mic!ClearRequest, Mic!GiveDone
  <2>3. dump' \in Dumps
    <3>1. \/ dump' = dump
          \/ dump' = [dump EXCEPT !.raw = task.frame, !.mine = TRUE]
          \/ dump' = [dump EXCEPT !.dec = task.frame, !.req = FALSE]
          \/ dump' = [dump EXCEPT !.sem = 1]
      BY <1>2 DEF Mic!EndTest, Mic!NoDump, Mic!DumpRaw, Mic!DumpDec, Mic!DumpGive, Mic!SumBands, Mic!Uncounted,
         Mic!Judged, Mic!ClearRequest, Mic!GiveDone
    <3> QED BY <1>0, <3>1 DEF CaptureOk, Dumps
  <2>4. trace' \in Traces
    <3>1. trace' = trace \/ trace' = [trace EXCEPT !.n = @ + 1, !.on = @ /\ trace.n + 1 < TraceFrames]
      BY <1>2 DEF Mic!EndTest, Mic!NoDump, Mic!DumpRaw, Mic!DumpDec, Mic!DumpGive, Mic!SumBands, Mic!Uncounted,
         Mic!Judged, Mic!ClearRequest, Mic!GiveDone
    <3>2. CASE trace' = [trace EXCEPT !.n = @ + 1, !.on = @ /\ trace.n + 1 < TraceFrames]
      <4>1. trace.n + 1 \in Nat /\ (trace.on /\ trace.n + 1 < TraceFrames) \in BOOLEAN
        <5>1. (trace.on /\ trace.n + 1 < TraceFrames) \in BOOLEAN
          BY Zenon
        <5> QED BY <1>0, <5>1 DEF CaptureOk, Traces
      <4> QED BY <1>0, <3>2, <4>1, Zenon DEF CaptureOk, Traces
    <3> QED BY <1>0, <3>1, <3>2 DEF CaptureOk
  <2>5. cal' \in Counts
    <3>1. CASE Mic!Judged
      <4>1. PICK n \in 0..CalFrames : n = (IF cal.cnt + 1 < CalFrames THEN cal.cnt + 1 ELSE CalFrames)
        BY <1>0 DEF CaptureOk, Counts
      <4>2. cal' = [cal EXCEPT !.cnt = n]
        BY <3>1, <4>1 DEF Mic!Judged, Mic!Counted
      <4> QED BY <1>0, <4>2 DEF CaptureOk, Counts
    <3>2. CASE Mic!SumBands
      <4>1. cal' = cal \/ cal' = [cal EXCEPT !.sum = @ + 1, !.odd = @ + Mic!Odd]
        BY <3>2 DEF Mic!SumBands
      <4>2. PICK odd \in Nat : odd = Mic!Odd
        BY DEF Mic!Odd
      <4>3. [cal EXCEPT !.sum = @ + 1, !.odd = @ + odd] \in Counts
        <5>1. PICK n \in Nat, m \in Nat : n = cal.sum + 1 /\ m = cal.odd + odd
          BY <1>0, <4>2 DEF CaptureOk, Counts
        <5>2. [cal EXCEPT !.sum = n, !.odd = m] \in Counts
          BY <1>0 DEF CaptureOk, Counts
        <5> QED BY <5>1, <5>2
      <4> QED BY <1>0, <4>1, <4>2, <4>3 DEF CaptureOk
    <3>3. CASE ~Mic!Judged /\ ~Mic!SumBands
      <4>1. cal' = cal \/ cal' = [cal EXCEPT !.sem = 1] \/ cal' = Mic!Left(cal)
        BY <1>2, <3>3 DEF Mic!EndTest, Mic!NoDump, Mic!DumpRaw, Mic!DumpDec, Mic!DumpGive, Mic!Uncounted,
           Mic!ClearRequest, Mic!GiveDone
      <4>2. [cal EXCEPT !.sem = 1] \in Counts /\ Mic!Left(cal) \in Counts
        BY <1>0, Emptied DEF CaptureOk, Counts
      <4> QED BY <1>0, <4>1, <4>2 DEF CaptureOk
    <3> QED BY <3>1, <3>2, <3>3
  <2>6. base' \in Bases
    <3>1. CASE Mic!Judged
      <4>1. cal.odd \in 0..1
        BY <1>0, <3>1 DEF Mic!Judged, MicInv, BaselineInv, CaptureOk, Counts
      <4> QED BY <1>0, <3>1, <4>1 DEF Mic!Judged, CaptureOk, Counts, Bases
    <3>2. CASE ~Mic!Judged
      <4>1. base' = base
        BY <1>2, <3>2 DEF Mic!EndTest, Mic!NoDump, Mic!DumpRaw, Mic!DumpDec, Mic!DumpGive, Mic!SumBands,
           Mic!Uncounted, Mic!ClearRequest, Mic!GiveDone
      <4> QED BY <1>0, <4>1 DEF CaptureOk
    <3> QED BY <3>1, <3>2
  <2> QED BY <1>0, <2>1, <2>2, <2>3, <2>4, <2>5, <2>6 DEF CaptureOk
<1>3. CASE Mic!Calibrate \/ Mic!TakeDone \/ Mic!CalTimeout
  <2>1. UNCHANGED <<want, task, acq, stored, dump, trace>>
    BY <1>3 DEF Mic!Calibrate, Mic!TakeDone, Mic!CalTimeout
  <2>2. PICK place \in {"calwait", "calread", "idle"} : http' = [http EXCEPT !.pc = place]
    BY <1>3 DEF Mic!Calibrate, Mic!TakeDone, Mic!CalTimeout, Mic!Http
  <2>3. http' \in Callers
    BY <1>0, <2>2 DEF CaptureOk, Callers, Waits
  <2>4. \/ cal' = [req |-> TRUE, cnt |-> 0, sum |-> 0, odd |-> 0, sem |-> cal.sem]
        \/ cal' = [cal EXCEPT !.sem = 0] \/ cal' = Mic!Left(cal)
    BY <1>3 DEF Mic!Calibrate, Mic!TakeDone, Mic!CalTimeout
  <2>5. cal' \in Counts
    <3>1. [cal EXCEPT !.sem = 0] \in Counts
      BY <1>0 DEF CaptureOk, Counts
    <3> QED BY <1>0, <2>4, <3>1, Emptied DEF CaptureOk
  <2>6. base' = base \/ base' = [base EXCEPT !.mine = FALSE]
    BY <1>3 DEF Mic!Calibrate, Mic!TakeDone, Mic!CalTimeout
  <2> QED BY <1>0, <2>1, <2>3, <2>5, <2>6 DEF CaptureOk, Bases
<1>5. CASE Mic!KeepBaseline \/ Mic!ResetCalibration
  <2>1. UNCHANGED <<want, task, acq, cal, dump, trace>>
    BY <1>5 DEF Mic!KeepBaseline, Mic!ResetCalibration
  <2>2. http' = http \/ http' = [http EXCEPT !.pc = "idle"]
    BY <1>5 DEF Mic!KeepBaseline, Mic!ResetCalibration, Mic!Http
  <2>3. http' \in Callers
    BY <1>0, <2>2 DEF CaptureOk, Callers, Waits
  <2>4. base' = base \/ base' = Mic!NoBase
    BY <1>5 DEF Mic!KeepBaseline, Mic!ResetCalibration
  <2>5. stored' = Mic!NotSaved \/ stored' = [on |-> TRUE, top |-> want.top, odd |-> base.odd]
    BY <1>5 DEF Mic!KeepBaseline, Mic!ResetCalibration, Mic!Label
  <2>6. base' \in Bases /\ stored' \in Files
    <3>1. [on |-> TRUE, top |-> want.top, odd |-> base.odd] \in Files
      BY <1>0 DEF CaptureOk, Bases, Files, Mic!Settings
    <3> QED BY <1>0, <2>4, <2>5, <3>1, Made DEF CaptureOk
  <2> QED BY <1>0, <2>1, <2>3, <2>6 DEF CaptureOk
<1>6. CASE Mic!AskFrame \/ Mic!FrameTimeout
  <2>1. UNCHANGED <<want, task, acq, cal, base, stored, trace>>
    BY <1>6 DEF Mic!AskFrame, Mic!FrameTimeout
  <2>2. PICK place \in {"framewait", "idle"} : http' = [http EXCEPT !.pc = place]
    BY <1>6 DEF Mic!AskFrame, Mic!FrameTimeout, Mic!Http
  <2>3. http' \in Callers
    BY <1>0, <2>2 DEF CaptureOk, Callers, Waits
  <2>4. dump' = [Mic!Drain EXCEPT !.req = TRUE, !.mine = FALSE] \/ dump' = [dump EXCEPT !.req = FALSE]
    BY <1>6 DEF Mic!AskFrame, Mic!FrameTimeout
  <2>5. dump' \in Dumps
    BY <1>0, <2>4 DEF CaptureOk, Dumps, Mic!Drain
  <2> QED BY <1>0, <2>1, <2>3, <2>5 DEF CaptureOk
<1>7. CASE Mic!TakeFrame \/ Mic!CopyDec \/ Mic!SendFrame
  <2>1. UNCHANGED <<want, task, acq, cal, base, stored, trace>>
    BY <1>7 DEF Mic!TakeFrame, Mic!CopyDec, Mic!SendFrame
  <2>2. \/ http' = [http EXCEPT !.pc = "copydec", !.raw = dump.raw]
        \/ http' = [http EXCEPT !.pc = "frame", !.dec = dump.dec]
        \/ http' = [pc |-> "idle", raw |-> 0, dec |-> 0]
    BY <1>7 DEF Mic!TakeFrame, Mic!CopyDec, Mic!SendFrame
  <2>3. http' \in Callers
    <3>1. /\ [http EXCEPT !.pc = "copydec", !.raw = dump.raw] \in Callers
          /\ [http EXCEPT !.pc = "frame", !.dec = dump.dec] \in Callers
      BY <1>0 DEF CaptureOk, Callers, Dumps, Waits
    <3> QED BY <2>2, <3>1, Made
  <2>4. dump' = dump \/ dump' = [dump EXCEPT !.sem = 0]
    BY <1>7 DEF Mic!TakeFrame, Mic!CopyDec, Mic!SendFrame
  <2> QED BY <1>0, <2>1, <2>3, <2>4 DEF CaptureOk, Dumps
<1>8. CASE Mic!StopTrace \/ Mic!FreeTrace
  <2>1. UNCHANGED <<want, task, acq, cal, base, stored, dump>>
    BY <1>8 DEF Mic!StopTrace, Mic!FreeTrace
  <2>2. PICK place \in {"newtrace", "notrace", "idle"} : http' = [http EXCEPT !.pc = place]
    BY <1>8 DEF Mic!StopTrace, Mic!FreeTrace, Mic!Http
  <2>3. http' \in Callers
    BY <1>0, <2>2 DEF CaptureOk, Callers, Waits
  <2>4. \/ trace' = [trace EXCEPT !.on = FALSE]
        \/ trace' = [buf |-> FALSE, n |-> 0, on |-> FALSE] \/ trace' = [buf |-> TRUE, n |-> 0, on |-> TRUE]
    BY <1>8 DEF Mic!StopTrace, Mic!FreeTrace
  <2>5. [trace EXCEPT !.on = FALSE] \in Traces
    BY <1>0 DEF CaptureOk, Traces
  <2> QED BY <1>0, <2>1, <2>3, <2>4, <2>5, Made DEF CaptureOk
<1>9. CASE Mic!SetTest \/ Mic!SaveSettings \/ Mic!ShowMode \/ Mic!HoldCapture \/ Mic!Deadline
  <2>1. UNCHANGED <<task, acq, cal, base, stored, dump, trace, http>>
    BY <1>9 DEF Mic!SetTest, Mic!SaveSettings, Mic!ShowMode, Mic!HoldCapture, Mic!Deadline
  <2>2. want' = want \/ want' \in Mic!Settings \/ want' = [want EXCEPT !.spec = ~@]
    BY <1>9 DEF Mic!SetTest, Mic!SaveSettings, Mic!ShowMode, Mic!HoldCapture, Mic!Deadline
  <2>3. want' \in Mic!Settings
    BY <1>0, <2>2 DEF CaptureOk, Mic!Settings
  <2> QED BY <1>0, <2>1, <2>3 DEF CaptureOk
<1>4. CASE Mic!Boot
  BY <1>0, <1>4 DEF Mic!Boot, Mic!Started, Mic!Fits, Mic!NoBase, CaptureOk, Mic!Settings, Places, Waits,
     Tasks, Callers, Converters, Dumps, Traces, Counts, Bases, Files, Mic!Channels
<1> QED BY <1>1, <1>2, <1>3, <1>4, <1>5, <1>6, <1>7, <1>8, <1>9 DEF Mic!Next, Mic!MicTask, Mic!WebServer

LEMMA ChannelStep == ASSUME MicInv, Mic!Next PROVE Mic!ChannelConverted'
<1>1. CASE Mic!Gated \/ Mic!ReadFrame
  BY <1>1, PassOk DEF Passed, Converted, Mic!ChannelConverted
<1>2. CASE Mic!Boot
  BY <1>2 DEF Mic!Boot, Mic!Started, Mic!ChannelConverted
<1>3. CASE ~Mic!Gated /\ ~Mic!ReadFrame /\ ~Mic!Boot
  <2>1. acq' = acq
    BY <1>3 DEF Mic!Next, Mic!MicTask, Mic!WebServer, Mic!EndTest, Mic!NoDump, Mic!DumpRaw, Mic!DumpDec, Mic!DumpGive,
       Mic!SumBands, Mic!Uncounted, Mic!Judged, Mic!ClearRequest, Mic!GiveDone, Mic!Calibrate, Mic!TakeDone,
       Mic!CalTimeout, Mic!KeepBaseline, Mic!ResetCalibration, Mic!SetTest, Mic!AskFrame, Mic!FrameTimeout,
       Mic!TakeFrame, Mic!CopyDec, Mic!SendFrame, Mic!StopTrace, Mic!FreeTrace, Mic!SaveSettings, Mic!ShowMode,
       Mic!HoldCapture, Mic!Deadline
  <2> QED BY <2>1 DEF MicInv, Mic!ChannelConverted
<1> QED BY <1>1, <1>2, <1>3

\* The requests of the one kind leave the other's state alone.
FrameSame == UNCHANGED <<dump, http>> /\ task'.pc \notin {"dumpdec", "dumpgive"}

LEMMA TraceStep == ASSUME MicInv, Mic!Next PROVE TracedOk'
<1>0. task \in Tasks /\ trace \in Traces
  BY DEF MicInv, CaptureOk
<1>1. CASE Mic!Gated \/ Mic!ReadFrame
  BY <1>1, PassOk DEF Passed, MicInv, TracedOk
<1>2. CASE Mic!NoDump \/ Mic!DumpGive
  BY <1>0, <1>2 DEF Mic!NoDump, Mic!DumpGive, Mic!Analyse, Mic!Tracing, TracedOk, Tasks
<1>3. CASE Mic!SumBands
  BY <1>0, <1>3 DEF Mic!SumBands, TracedOk, Tasks
<1>4. CASE Mic!StopTrace \/ Mic!FreeTrace
  BY <1>0, <1>4 DEF Mic!StopTrace, Mic!FreeTrace, Mic!FrameOver, TracedOk, Traces, MicInv
<1>5. CASE Mic!Boot
  BY <1>5 DEF Mic!Boot, Mic!Started, TracedOk
<1>6. CASE Mic!EndTest \/ Mic!DumpRaw \/ Mic!DumpDec \/ Mic!Uncounted \/ Mic!Judged \/ Mic!ClearRequest
           \/ Mic!GiveDone
  <2>1. trace' = trace /\ \E place \in Places : task' = [task EXCEPT !.pc = place]
    BY <1>6 DEF Mic!EndTest, Mic!DumpRaw, Mic!DumpDec, Mic!Uncounted, Mic!Judged, Mic!ClearRequest, Mic!GiveDone,
       Mic!Task, Places
  <2> QED BY <1>0, <2>1 DEF MicInv, TracedOk, Tasks
<1>7. CASE \/ Mic!Calibrate \/ Mic!TakeDone \/ Mic!CalTimeout \/ Mic!KeepBaseline \/ Mic!ResetCalibration
           \/ Mic!SetTest \/ Mic!AskFrame \/ Mic!FrameTimeout \/ Mic!TakeFrame \/ Mic!CopyDec \/ Mic!SendFrame
           \/ Mic!SaveSettings \/ Mic!ShowMode \/ Mic!HoldCapture \/ Mic!Deadline
  <2>1. trace' = trace /\ task' = task
    BY <1>7 DEF Mic!Calibrate, Mic!TakeDone, Mic!CalTimeout, Mic!KeepBaseline, Mic!ResetCalibration, Mic!SetTest,
       Mic!AskFrame, Mic!FrameTimeout, Mic!TakeFrame, Mic!CopyDec, Mic!SendFrame, Mic!SaveSettings, Mic!ShowMode,
       Mic!HoldCapture, Mic!Deadline
  <2> QED BY <2>1 DEF MicInv, TracedOk
<1> QED BY <1>1, <1>2, <1>3, <1>4, <1>5, <1>6, <1>7 DEF Mic!Next, Mic!MicTask, Mic!WebServer

LEMMA FrameAsked == ASSUME MicInv, ~Late, Mic!Next PROVE FrameInv'
<1>0. FrameInv /\ task \in Tasks /\ http \in Callers /\ dump \in Dumps
  BY DEF MicInv, CaptureOk
<1>1. CASE Mic!Gated \/ Mic!ReadFrame
  BY <1>0, <1>1, PassOk DEF Passed, FrameInv
<1>2. CASE Mic!DumpRaw
  BY <1>0, <1>2 DEF FrameInv, Tasks, Dumps, Mic!DumpRaw, Mic!Task
<1>3. CASE Mic!DumpDec
  BY <1>0, <1>3 DEF FrameInv, Tasks, Dumps, Mic!DumpDec, Mic!Task
<1>4. CASE Mic!DumpGive
  BY <1>0, <1>4 DEF FrameInv, Tasks, Dumps, Mic!DumpGive, Mic!Analyse
<1>5. CASE Mic!EndTest \/ Mic!NoDump \/ Mic!SumBands \/ Mic!Uncounted \/ Mic!Judged \/ Mic!ClearRequest
           \/ Mic!GiveDone
  <2>1. FrameSame
    BY <1>0, <1>5 DEF FrameSame, Tasks, Mic!EndTest, Mic!NoDump, Mic!SumBands, Mic!Uncounted, Mic!Judged, Mic!ClearRequest,
       Mic!GiveDone, Mic!Task, Mic!Analyse
  <2> QED BY <1>0, <2>1 DEF FrameSame, FrameInv
<1>6. CASE Mic!AskFrame
  BY <1>0, <1>6 DEF FrameInv, Callers, Dumps, Mic!AskFrame, Mic!Drain, Mic!Http
<1>7. CASE Mic!FrameTimeout
  BY <1>0, <1>7 DEF FrameInv, Callers, Dumps, Mic!FrameTimeout, Mic!Dumping, Mic!Http
<1>8. CASE Mic!TakeFrame
  BY <1>0, <1>8 DEF FrameInv, Callers, Dumps, Mic!TakeFrame
<1>9. CASE Mic!CopyDec
  BY <1>0, <1>9 DEF FrameInv, Callers, Dumps, Mic!CopyDec
<1>10. CASE Mic!SendFrame
  BY <1>0, <1>10 DEF FrameInv, Callers, Dumps, Mic!SendFrame
<1>11. CASE Mic!Boot
  BY <1>11 DEF FrameInv, Mic!Boot, Mic!Started
<1>12. CASE \/ Mic!Calibrate \/ Mic!TakeDone \/ Mic!CalTimeout \/ Mic!KeepBaseline \/ Mic!StopTrace
            \/ Mic!FreeTrace
  <2>1. UNCHANGED <<task, dump>> /\ http.pc \notin {"framewait", "copydec", "frame"}
        /\ \E place \in Waits \ {"framewait", "copydec", "frame"} : http' = [http EXCEPT !.pc = place]
    BY <1>12 DEF Mic!Calibrate, Mic!TakeDone, Mic!CalTimeout, Mic!KeepBaseline, Mic!StopTrace, Mic!FreeTrace,
       Mic!Http, Waits
  <2> QED BY <1>0, <2>1 DEF FrameInv, Callers
<1>13. CASE \/ Mic!ResetCalibration \/ Mic!SetTest \/ Mic!SaveSettings \/ Mic!ShowMode \/ Mic!HoldCapture
            \/ Mic!Deadline
  <2>1. UNCHANGED <<task, dump, http>>
    BY <1>13 DEF Mic!ResetCalibration, Mic!SetTest, Mic!SaveSettings, Mic!ShowMode, Mic!HoldCapture, Mic!Deadline
  <2> QED BY <1>0, <2>1 DEF FrameInv
<1> QED BY <1>1, <1>2, <1>3, <1>4, <1>5, <1>6, <1>7, <1>8, <1>9, <1>10, <1>11, <1>12, <1>13
        DEF Mic!Next, Mic!MicTask, Mic!WebServer

LEMMA BaselineStep == ASSUME MicInv, ~Late, Mic!Next PROVE BaselineInv'
<1>0. /\ BaselineInv /\ task \in Tasks /\ http \in Callers /\ cal \in Counts /\ base \in Bases
      /\ CalFrames \in Nat /\ CalFrames >= 2
  BY FrontPanelAssumption DEF MicInv, CaptureOk
<1>1. CASE Mic!Gated \/ Mic!ReadFrame
  BY <1>0, <1>1, PassOk DEF Passed, BaselineInv, Averaged, Counts
<1>2. CASE Mic!EndTest \/ Mic!NoDump \/ Mic!DumpRaw \/ Mic!DumpDec \/ Mic!DumpGive
  BY <1>0, <1>2 DEF BaselineInv, Averaged, Tasks, Mic!EndTest, Mic!NoDump, Mic!DumpRaw, Mic!DumpDec, Mic!DumpGive,
     Mic!Task, Mic!Analyse
<1>3. CASE Mic!SumBands
  BY <1>0, <1>3 DEF BaselineInv, Averaged, Tasks, Counts, Mic!SumBands, Mic!Odd
<1>4. CASE Mic!Uncounted
  BY <1>0, <1>4 DEF BaselineInv, Averaged, Tasks, Counts, Mic!Uncounted, Mic!Task
<1>5. CASE Mic!Judged
  BY <1>0, <1>5 DEF BaselineInv, Averaged, Tasks, Counts, Bases, Mic!Judged, Mic!Task, Mic!Counted
<1>6. CASE Mic!ClearRequest
  BY <1>0, <1>6 DEF BaselineInv, Averaged, Tasks, Counts, Mic!ClearRequest, Mic!Task, Mic!Left
<1>7. CASE Mic!GiveDone
  BY <1>0, <1>7 DEF BaselineInv, Averaged, Tasks, Counts, Mic!GiveDone, Mic!Task
<1>8. CASE Mic!Calibrate
  BY <1>0, <1>8 DEF BaselineInv, Averaged, Callers, Counts, Bases, Mic!Calibrate, Mic!Http
<1>9. CASE Mic!TakeDone
  BY <1>0, <1>9 DEF BaselineInv, Averaged, Callers, Counts, Mic!TakeDone, Mic!Http
<1>10. CASE Mic!CalTimeout
  BY <1>0, <1>10 DEF BaselineInv, Averaged, Callers, Counts, Mic!CalTimeout, Mic!Http, Mic!Left, Mic!Finishing
<1>11. CASE Mic!KeepBaseline \/ Mic!ResetCalibration
  BY <1>0, <1>11 DEF BaselineInv, Averaged, Callers, Counts, Mic!KeepBaseline, Mic!ResetCalibration, Mic!Http
<1>12. CASE Mic!AskFrame \/ Mic!FrameTimeout \/ Mic!TakeFrame \/ Mic!CopyDec \/ Mic!SendFrame \/ Mic!StopTrace
            \/ Mic!FreeTrace
  <2>1. UNCHANGED <<want, task, layout, cal, base>> /\ http.pc \notin {"calwait", "calread"}
    BY <1>12 DEF Mic!AskFrame, Mic!FrameTimeout, Mic!TakeFrame, Mic!CopyDec, Mic!SendFrame, Mic!StopTrace,
       Mic!FreeTrace, Mic!Http
  <2>2. http'.pc \notin {"calwait", "calread"}
    <3>1. CASE Mic!AskFrame \/ Mic!FrameTimeout \/ Mic!StopTrace \/ Mic!FreeTrace
      <4>1. PICK place \in {"framewait", "idle", "newtrace", "notrace"} : http' = [http EXCEPT !.pc = place]
        BY <3>1 DEF Mic!AskFrame, Mic!FrameTimeout, Mic!StopTrace, Mic!FreeTrace, Mic!Http
      <4> QED BY <1>0, <4>1 DEF Callers
    <3>2. CASE Mic!TakeFrame \/ Mic!CopyDec \/ Mic!SendFrame
      <4>1. /\ Mic!TakeFrame => http' = [http EXCEPT !.pc = "copydec", !.raw = dump.raw]
            /\ Mic!CopyDec => http' = [http EXCEPT !.pc = "frame", !.dec = dump.dec]
            /\ Mic!SendFrame => http'.pc = "idle"
        BY DEF Mic!TakeFrame, Mic!CopyDec, Mic!SendFrame
      <4>2. CASE Mic!TakeFrame
        BY <1>0, <4>1, <4>2 DEF Callers
      <4>3. CASE Mic!CopyDec
        BY <1>0, <4>1, <4>3 DEF Callers
      <4> QED BY <3>2, <4>1, <4>2, <4>3
    <3> QED BY <1>12, <3>1, <3>2
  <2> QED BY <1>0, <2>1, <2>2 DEF BaselineInv
<1>13. CASE Mic!SaveSettings \/ Mic!ShowMode
  <2>1. /\ UNCHANGED <<task, layout, cal, base, http>>
        /\ http.pc = "idle" \/ want'.top = want.top
    BY <1>13 DEF Mic!SaveSettings, Mic!ShowMode, MicInv, CaptureOk, Mic!Settings
  <2> QED BY <1>0, <2>1 DEF BaselineInv, Averaged, Counts
<1>14. CASE Mic!SetTest \/ Mic!HoldCapture \/ Mic!Deadline
  <2>1. UNCHANGED <<want, task, layout, cal, base, http>>
    BY <1>14 DEF Mic!SetTest, Mic!HoldCapture, Mic!Deadline
  <2> QED BY <1>0, <2>1 DEF BaselineInv, Averaged
<1>15. CASE Mic!Boot
  BY <1>0, <1>15 DEF BaselineInv, Averaged, Mic!Boot, Mic!Started
<1> QED BY <1>1, <1>2, <1>3, <1>4, <1>5, <1>6, <1>7, <1>8, <1>9, <1>10, <1>11, <1>12, <1>13, <1>14, <1>15
        DEF Mic!Next, Mic!MicTask, Mic!WebServer

LEMMA MicStep == ~Late /\ MicInv /\ [Next]_vars => MicInv'
<1> SUFFICES ASSUME ~Late, MicInv, [Next]_vars PROVE MicInv'
  OBVIOUS
<1>1. CASE Mic!Next
  BY <1>1, CaptureStep, ChannelStep, TraceStep, FrameAsked, BaselineStep DEF MicInv
<1>2. CASE UNCHANGED micVars
  BY <1>2 DEF micVars, MicInv, CaptureOk, TracedOk, FrameInv, BaselineInv, Averaged, Mic!ChannelConverted
<1>3. Mic!Next \/ UNCHANGED micVars
  BY DEF Next, vars, MicPart, SignalPart, TouchPart, FacePart, BarsPart, SkyPart, PanelsPart, TimersPart, AlbumPart
<1> QED BY <1>1, <1>2, <1>3

LEMMA MicIsOk == MicInv => Mic!BaselineHonest /\ Mic!ChannelConverted /\ Mic!ExportsWhole
BY DEF MicInv, CaptureOk, Files, Bases, TracedOk, FrameInv, BaselineInv, Averaged, Mic!BaselineHonest,
   Mic!ExportsWhole

\* microphone.h:104, microphone.c:431-439, 837-849, 334-339, 984-988: for any number of
\* frames in a baseline and a trace, any energies and guards, a calibration that reports
\* success averaged frames of its own request, what is exported is one frame of the chosen
\* channel, the noise floor is bounded, no guard keeps sound out and a silent room is dark
\* in time.  No wait may time out while the task is doing what it was asked for (~Late).
THEOREM MicIsHonest == ASSUME ~Late PROVE Spec => []MicHonest
<1>1. PICK frames \in [Level -> 0..QuietMax] : Falls(frames)
  BY SilenceAssumption DEF Falls, Level
<1>2. Init => MicInv /\ SignalInv(frames)
  BY <1>1, CaptureInitial, SignalInitial DEF Init
<1>3. MicInv /\ SignalInv(frames) /\ [Next]_vars => MicInv' /\ SignalInv(frames)'
  BY <1>1, MicStep, SignalStep
<1>4. MicInv /\ SignalInv(frames) => MicHonest
  BY <1>1, MicIsOk, SignalHonest DEF MicHonest
<1> QED BY <1>2, <1>3, <1>4, PTL DEF Spec
=============================================================================
