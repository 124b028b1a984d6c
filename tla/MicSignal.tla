------------------------------ MODULE MicSignal ------------------------------
(***************************************************************************)
(* What one frame does in mic_task: the adaptive noise floor, the Wi-Fi    *)
(* spike guard, the silence gate, the burst guard and the bars.  When the  *)
(* task captures at all is in MicCapture.                                  *)
(*                                                                         *)
(* The 24 bands are alike and one stands for them.  Powers are small       *)
(* numbers: a moving average goes half the way towards what it averages,   *)
(* at least by one, so it arrives.  The dead zone is 1 (a band counts      *)
(* above twice its floor); the tuning table has its defaults but for the   *)
(* gate's mode.  The beat detector only looks on and is left out.          *)
(***************************************************************************)
EXTENDS Integers, FiniteSetsExt

CONSTANTS
  Modes,    \* the gate's modes: "sum", "units", "twoOfThree", "persist", and "off"
            \* for a mic_silence_gate of 0
  Raws,     \* the energies a frame can have
  Phase1,   \* PHASE1_FRAMES
  SpikeLo, SpikeHi,   \* MT_SPIKE_LO, MT_SPIKE_HI
  GRun,     \* MT_GRUN
  HoldMax,  \* MT_GHM: the gate stays open at most so many frames
  BurstMax, \* BURST_MAX_RUN
  QuietMax  \* frames of silence after which the bars must be dark

Top == Max(Raws)
RefMin == 1     \* FLOOR_REF_MIN

VARIABLES
  gmode,    \* MT_GMODE
  cal,      \* s_cal_requested
  floor,    \* s_noise_floor, s_noise_ref, s_noise_cal
  smooth,   \* s_gate_smooth and s_disp_smooth
  spike,    \* s_prev_total, s_spike_pend, s_spike_psum
  gate,     \* s_run, s_g3_open, s_g3_since, s_g3_openrun, s_hist_active
  burst,    \* s_burst_run
  bars,     \* peak[], and whether s_bands shows any
  seen      \* history: the frames of silence in a row, whether this capture has met sound, how many
            \* frames in a row were held back, or lost their attack

signalVars == <<gmode, cal, floor, smooth, spike, gate, burst, bars, seen>>

Less(a, b) == IF a > b THEN a - b ELSE 0
AtMost(a, b) == IF a > b THEN b ELSE a

\* An exponential average: it moves, and never past its goal.
Towards(x, goal) ==
  IF x < goal THEN x + ((goal - x + 1) \div 2) ELSE x - ((x - goal + 1) \div 2)

Init ==
  /\ gmode \in Modes /\ cal = FALSE
  /\ floor = [at |-> 0, ref |-> 0, n |-> 0]
  /\ smooth = [gate |-> 0, disp |-> 0]
  /\ spike = [prev |-> 0, pend |-> FALSE, psum |-> 0]
  /\ gate = [run |-> 0, open |-> FALSE, since |-> 0, openrun |-> 0, hist |-> <<FALSE, FALSE>>]
  /\ burst = 0
  /\ bars = [peak |-> 0, lit |-> FALSE]
  /\ seen = [sound |-> FALSE, held |-> 0, drops |-> 0, quiet |-> 0]

-----------------------------------------------------------------------------
\* The floor after a frame of this energy: learned fast and without a guard in phase 1,
\* then only from what is not clearly a signal, and never above twice the reference,
\* which follows a quieter room down.
Capped(at, ref)     == AtMost(at, 2 * ref)

Floors(raw) ==
  IF floor.n < Phase1
    THEN LET a == Towards(floor.at, raw)
         IN {[at |-> a, ref |-> IF floor.n = Phase1 - 1 THEN a ELSE floor.ref, n |-> floor.n + 1]}
    ELSE LET moves == {floor.at} \cup (IF raw < 4 * floor.at THEN {Towards(floor.at, raw)} ELSE {})
         IN {[at |-> a, n |-> Phase1,
              ref |-> IF a < floor.ref THEN (IF a > RefMin THEN a ELSE RefMin) ELSE floor.ref] :
                a \in {Capped(m, floor.ref) : m \in moves}}

Power(raw, f) == Less(raw, 2 * f.at)
DispPower(raw, f) == Less(raw, f.at)

\* The spike guard's verdict on a jump: hold it back for one frame, then look whether
\* the power has gone.
Jump(total) == ~spike.pend /\ spike.prev < SpikeLo /\ total > SpikeHi
Vanished(raw, f) == spike.pend /\ 4 * Power(raw, f) < spike.psum

\* The gate: a band above its threshold for GRun frames in a row opens it; it then stays
\* open for a part of the time it was open, and no longer than HoldMax frames.
Fallen(p) == Less(p, 1)

Threshold(f) == IF f.at > 0 THEN 2 * f.at ELSE 1
RunAfter(g, f) == IF 2 * g >= 3 * Threshold(f) THEN AtMost(gate.run + 1, GRun) ELSE 0
Since(n) == n + 1

Persist(run) ==
  LET hold == AtMost(gate.openrun \div 2, HoldMax)
      open == run >= GRun \/ (gate.open /\ Since(gate.since) <= hold)
  IN [gate EXCEPT !.run = run, !.open = open,
        !.since = IF run >= GRun \/ ~gate.open THEN 0 ELSE AtMost(Since(@), HoldMax + 1),
        !.openrun = IF open THEN AtMost(@ + 1, 2 * HoldMax) ELSE 0]

GateAfter(g, f) ==
  LET run == RunAfter(g, f)
      passes == g >= Threshold(f)
      last3 == <<passes, gate.hist[1], gate.hist[2]>>
  IN CASE gmode = "persist" -> Persist(run)
      [] gmode = "off" -> [gate EXCEPT !.run = run, !.open = TRUE]
      [] gmode = "sum" -> [gate EXCEPT !.run = run, !.open = g > 0]
      [] gmode = "units" -> [gate EXCEPT !.run = run, !.open = passes]
      [] gmode = "twoOfThree" ->
           [gate EXCEPT !.run = run, !.hist = <<passes, gate.hist[1]>>,
              !.open = Cardinality({i \in 1..3 : last3[i]}) >= 2]

QuietAfter(raw) == IF raw = 0 THEN AtMost(seen.quiet + 1, QuietMax) ELSE 0

\* A frame the guard holds back leaves everything but the averages as it was.
HoldBack(raw, f, g, d) ==
  /\ Jump(g)
  /\ floor' = f /\ smooth' = [gate |-> g, disp |-> d]
  /\ spike' = [prev |-> g, pend |-> TRUE, psum |-> Power(raw, f)]
  /\ seen' = [seen EXCEPT !.quiet = QuietAfter(raw), !.sound = @ \/ raw > f.at, !.held = AtMost(@ + 1, 2)]
  /\ UNCHANGED <<gmode, cal, gate, burst, bars>>

\* Silence: the bars go dark at once, unless a baseline is being captured.
Blank(raw, f, g, d, after) ==
  /\ ~Jump(g) /\ ~after.open /\ ~cal
  /\ floor' = f /\ smooth' = [gate |-> g, disp |-> d]
  /\ spike' = [spike EXCEPT !.prev = g, !.pend = FALSE, !.psum = 0]
  /\ gate' = after
  /\ bars' = [peak |-> Fallen(bars.peak), lit |-> FALSE]
  /\ seen' = [seen EXCEPT !.quiet = QuietAfter(raw), !.sound = @ \/ raw > f.at, !.held = 0]
  /\ UNCHANGED <<gmode, cal, burst>>

\* Bars, beats and bursts.  Whether most bars jump to their top at once is free; a
\* baseline that is complete replaces the floor for the next frames.
Dropped == burst < BurstMax

Baselines == {[at |-> a, ref |-> a, n |-> Phase1] : a \in Raws}

Show(raw, f, g, d, after) ==
  /\ ~Jump(g) /\ (after.open \/ cal)
  /\ \/ floor' = f /\ UNCHANGED cal
     \/ cal /\ floor' \in Baselines /\ cal' = FALSE
  /\ \E drop \in {FALSE, d > 0 /\ Dropped} :
       LET disp == IF drop THEN smooth.disp ELSE d
           peak == IF disp > bars.peak THEN disp ELSE Fallen(bars.peak)
       IN /\ smooth' = [gate |-> g, disp |-> disp]
          /\ burst' = IF drop THEN burst + 1 ELSE 0
          /\ bars' = [peak |-> peak, lit |-> peak > 0]
          /\ seen' = [seen EXCEPT !.quiet = QuietAfter(raw), !.sound = @ \/ raw > f.at, !.held = 0,
                                  !.drops = IF drop THEN AtMost(@ + 1, BurstMax + 1) ELSE 0]
  /\ spike' = [prev |-> g, pend |-> FALSE, psum |-> 0]
  /\ gate' = after
  /\ UNCHANGED gmode

\* A confirmed spike empties both averages before the gate looks at them.
FrameOf(raw) ==
  \E f \in Floors(raw) :
    LET gg == IF Vanished(raw, f) THEN 0 ELSE Towards(smooth.gate, Power(raw, f))
        dd == IF Vanished(raw, f) THEN 0 ELSE Towards(smooth.disp, DispPower(raw, f))
        after == GateAfter(gg, f)
    IN \/ HoldBack(raw, f, gg, dd)
       \/ Blank(raw, f, gg, dd, after)
       \/ Show(raw, f, gg, dd, after)

Frame == \E raw \in Raws : FrameOf(raw)

\* The capture is not wanted: bars and peaks are emptied, the averages are not.
StopCapture ==
  /\ bars' = [peak |-> 0, lit |-> FALSE] /\ seen' = [seen EXCEPT !.sound = FALSE]
  /\ UNCHANGED <<gmode, cal, floor, smooth, spike, gate, burst>>

\* A new band layout.
NewLayout ==
  /\ floor' = [floor EXCEPT !.at = 0, !.n = 0]
  /\ smooth' = [gate |-> 0, disp |-> 0] /\ bars' = [bars EXCEPT !.peak = 0]
  /\ UNCHANGED <<gmode, cal, spike, gate, burst, seen>>

\* mic_reset_calibration; mic_apply_calibration, at boot; mic_calibrate and its time-out.
ResetCalibration ==
  /\ floor' = [floor EXCEPT !.at = 0, !.n = 0]
  /\ UNCHANGED <<gmode, cal, smooth, spike, gate, burst, bars, seen>>

ApplyCalibration ==
  /\ floor.n = 0 /\ \E a \in Raws : floor' = [at |-> a, ref |-> a, n |-> Phase1]
  /\ UNCHANGED <<gmode, cal, smooth, spike, gate, burst, bars, seen>>

Calibrate ==
  /\ cal' = ~cal
  /\ UNCHANGED <<gmode, floor, smooth, spike, gate, burst, bars, seen>>

Next == Frame \/ StopCapture \/ NewLayout \/ ResetCalibration \/ ApplyCalibration \/ Calibrate

Spec == Init /\ [][Next]_signalVars

-----------------------------------------------------------------------------
TypeOk ==
  /\ gmode \in Modes /\ cal \in BOOLEAN
  /\ floor.at \in 0..Top /\ floor.ref \in 0..Top /\ floor.n \in 0..Phase1
  /\ smooth.gate \in 0..Top /\ smooth.disp \in 0..Top /\ bars.peak \in 0..Top
  /\ gate.run \in 0..GRun /\ burst \in 0..BurstMax 

\* microphone.c:334-339: sustained loud sound never drags the floor above twice what
\* the room was when it was learned or captured; and (984-988, 320-324) a guard never
\* keeps sound out for good: one frame is held back, never two in a row, and a burst
\* loses its attack for at most BURST_MAX_RUN shown frames.
GuardsBounded ==
  /\ floor.n = Phase1 => floor.at <= 2 * floor.ref
  /\ seen.held <= 1 /\ seen.drops <= BurstMax

\* Once the room is silent the bars go dark within a bounded number of frames, whatever
\* the gate's mode and whichever guard was at work, and stay dark.
SilenceDarkens == seen.quiet = QuietMax => ~bars.lit

\* microphone.c:742-744: re-entering Spectrum starts from a clean state, so a lit bar
\* is of sound this capture has heard.
EntryClean == bars.lit => seen.sound
=============================================================================
