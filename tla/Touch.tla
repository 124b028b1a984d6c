-------------------------------- MODULE Touch --------------------------------
(***************************************************************************)
(* The touch pads: the poll task of touch_input.c, which reads every pad   *)
(* once in 50 ms, its queue, the handler task that runs on_touch of        *)
(* main.c, and the other tasks that change the mode and the backlight      *)
(* between its reading of the settings and its answer.                     *)
(*                                                                         *)
(* A reading fails, is not below the threshold ("idle") or is ("touch");   *)
(* the baseline is told apart only by whether it has been seeded.          *)
(* A definition named Slip... is a plausible wrong version of the one that *)
(* follows it.                                                             *)
(***************************************************************************)
EXTENDS Integers, Sequences, FiniteSets

CONSTANTS
  Debounce,   \* PRESS_DEBOUNCE
  StuckMax,   \* samples after which a press counts as stuck, 20
  ComboHold,  \* COMBO_HOLD_SAMPLES
  ComboMiss,  \* COMBO_MISS_TOL
  Depth,      \* of s_touch_queue
  ModeCount   \* APP_MODE_MAX

Pads == {"left", "middle", "right"}
Modes == 0..ModeCount - 1

VARIABLES
  fingers,  \* the pads somebody touches in this behaviour: two, or one beside
            \* changes of the settings
  pad,      \* per pad: s_baseline seeded, was_pressed, stuck_count, debounce_count,
            \* armed, raw_now; and the samples and events of the touch in progress
  combo,    \* combo_count, combo_miss, combo_fired; and the calls of the touch in progress
  queue,    \* s_touch_queue
  hand,     \* what touch_handler_task is doing, with its copy of the settings
  shown     \* current_mode, enabled_modes and backlight_on

touchVars == <<fingers, pad, combo, queue, hand, shown>>

NoHand == [pc |-> "idle", id |-> "left", mode |-> 0, mask |-> {0}, lit |-> TRUE]

Init ==
  /\ fingers \in {{"left", "right"}, {"middle"}}
  /\ pad = [i \in Pads |-> [seeded |-> FALSE, was |-> FALSE, stuck |-> 0, deb |-> 0, armed |-> TRUE,
                             raw |-> FALSE, run |-> 0, sent |-> 0]]
  /\ combo = [n |-> 0, miss |-> 0, fired |-> FALSE, calls |-> 0]
  /\ queue = <<>> /\ hand = NoHand
  /\ shown = [mode |-> 0, mask |-> Modes, lit |-> TRUE]

-----------------------------------------------------------------------------
\* One sample of one pad.
Cap(n, m) == IF n > m THEN m ELSE n

\* After 20 samples the press is forgotten and the pad stays disarmed until it is let go.
Stuck(p) == p.stuck + 1 > StuckMax
SlipDisarmed == TRUE
Disarmed == FALSE

\* What the sample makes of the pad, and whether it is an event.
Pressed(p) ==
  LET deb == Cap(p.deb + 1, Debounce) IN
    IF Stuck(p)
      THEN [p EXCEPT !.raw = TRUE, !.was = deb >= Debounce, !.stuck = 0, !.deb = 0, !.armed = Disarmed,
                     !.run = Cap(p.run + 1, Debounce), !.sent = p.sent + (IF deb >= Debounce /\ Disarmed THEN 1 ELSE 0)]
      ELSE [p EXCEPT !.raw = TRUE, !.was = deb >= Debounce, !.stuck = p.stuck + 1, !.deb = deb,
                     !.run = Cap(p.run + 1, Debounce),
                     !.sent = p.sent + (IF deb >= Debounce /\ ~p.was /\ p.armed THEN 1 ELSE 0)]

Released(p) ==
  [p EXCEPT !.raw = FALSE, !.was = FALSE, !.stuck = 0, !.deb = 0, !.armed = TRUE, !.run = 0, !.sent = 0]

Sampled(p, reading) ==
  CASE reading = "fail"  -> [p EXCEPT !.raw = FALSE]
    [] reading = "idle"  -> [Released(p) EXCEPT !.seeded = TRUE]
    [] reading = "touch" -> IF p.seeded THEN Pressed(p) ELSE [Released(p) EXCEPT !.seeded = TRUE]

Fires(p, q) == q.sent > p.sent

\* The pads are read left, middle, right; an event that finds the queue full is lost.
Order == <<"left", "middle", "right">>
Enqueued(now) ==
  LET new == SelectSeq(Order, LAMBDA i : Fires(pad[i], now[i]))
      all == queue \o new
  IN SubSeq(all, 1, Cap(Len(all), Depth))

\* LEFT and RIGHT held together, with gaps of a few samples.
Missed(c) ==
  IF c.n = 0 THEN c
  ELSE IF c.miss + 1 > ComboMiss THEN [n |-> 0, miss |-> 0, fired |-> FALSE, calls |-> 0]
  ELSE [c EXCEPT !.miss = @ + 1]

OnceFired(c) == c.fired
Together(c) ==
  LET n == Cap(c.n + 1, ComboHold)
      call == n >= ComboHold /\ ~OnceFired(c)
  IN [n |-> n, miss |-> 0, fired |-> c.fired \/ call, calls |-> Cap(c.calls + (IF call THEN 1 ELSE 0), 2)]

Poll ==
  /\ \E reading \in [fingers -> {"fail", "idle", "touch"}] :
       pad' = [i \in Pads |-> IF i \in fingers THEN Sampled(pad[i], reading[i]) ELSE pad[i]]
  /\ queue' = Enqueued(pad')
  /\ combo' = IF pad'["left"].raw /\ pad'["right"].raw THEN Together(combo) ELSE Missed(combo)
  /\ UNCHANGED <<fingers, hand, shown>>

-----------------------------------------------------------------------------
\* touch_handler_task and on_touch: the settings are copied, then answered.
Receive ==
  /\ hand.pc = "idle" /\ queue # <<>>
  /\ queue' = Tail(queue)
  /\ hand' = [pc |-> "answer", id |-> Head(queue), mode |-> shown.mode, mask |-> shown.mask,
              lit |-> shown.lit]
  /\ UNCHANGED <<fingers, pad, combo, shown>>

\* The next enabled mode in one direction, the present one if there is no other.
Step(m, mask, by) ==
  LET at(k) == (m + by * k + ModeCount * ModeCount) % ModeCount
      hits == {k \in 1..ModeCount : at(k) \in mask}
  IN IF hits = {} THEN m ELSE at(CHOOSE k \in hits : \A j \in hits : k <= j)

Answer ==
  /\ hand.pc = "answer" /\ hand' = NoHand
  /\ shown' = CASE hand.id = "left"   -> [shown EXCEPT !.mode = Step(hand.mode, hand.mask, -1)]
                [] hand.id = "right"  -> [shown EXCEPT !.mode = Step(hand.mode, hand.mask, 1)]
                [] hand.id = "middle" -> [shown EXCEPT !.lit = ~hand.lit]
  /\ UNCHANGED <<fingers, pad, combo, queue>>

\* Settings saved by another task.  A mode that is turned off is left.
Save ==
  /\ fingers = {"middle"}
  /\ \E mask \in SUBSET Modes, mode \in Modes, lit \in BOOLEAN :
       /\ mask # {} /\ mode \in mask
       /\ shown' = [mode |-> mode, mask |-> mask, lit |-> lit]
  /\ UNCHANGED <<fingers, pad, combo, queue, hand>>

Next == Poll \/ Receive \/ Answer \/ Save
Spec == Init /\ [][Next]_touchVars
FairSpec == Spec /\ WF_touchVars(Receive) /\ WF_touchVars(Answer)

-----------------------------------------------------------------------------
TypeOk ==
  /\ \A i \in Pads : pad[i].stuck \in 0..StuckMax /\ pad[i].deb \in 0..Debounce
  /\ combo.n \in 0..ComboHold /\ combo.miss \in 0..ComboMiss
  /\ Len(queue) \in 0..Depth /\ shown.mode \in Modes

\* touch_input.c:149: exactly one event per physical press, however long the pad is
\* held, through readings that fail and the recovery of a stuck pad; and (184) exactly
\* one call per sustained hold of LEFT and RIGHT.
OncePerTouch ==
  /\ \A i \in Pads : pad[i].sent = (IF pad[i].run >= Debounce THEN 1 ELSE 0)
  /\ combo.calls = (IF combo.n >= ComboHold THEN 1 ELSE 0)
=============================================================================
