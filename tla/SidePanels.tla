----------------------------- MODULE SidePanels -----------------------------
(***************************************************************************)
(* The panels beside the 24-hour custom face (display.c): tube 6, and in   *)
(* the dual layout tube 5, each rotating through the panels enabled for    *)
(* it, one of which shows a picture pushed over HTTP.  They are drawn only *)
(* when a rotation, a minute, a layout, a picture or the end of a burn-in  *)
(* session calls for it.                                                   *)
(***************************************************************************)
EXTENDS Integers, FiniteSetsExt

CONSTANTS
  Kinds,        \* panel kinds that can be enabled
  ChangeMax     \* bound: changes from outside

VARIABLES
  on,       \* tube6_panel_*, tube5_panel_*: the panels enabled for each tube
  dual,     \* cx_dual_panel
  have,     \* [weather, indoor]: readings there are
  image,    \* [valid, version, seq]: s_cx_push_valid and what s_cx_push_buf holds, s_cx_push_seq
  minute,   \* of the clock, cyclic
  kick,     \* mode_changed is to be set at the next iteration
  masked,   \* s_burnin_mask, of the two tubes
  pc,       \* "turn", "draw" or "paint": what the display task does next
  turn,     \* its locals: [started, index, on, dual, seq, minute, mask, drawnMinute]
  kindWas,  \* s_cx_last_kind, s_cx_last_kind5
  pane,     \* what is on each tube
  fresh,    \* history: tubes that nothing but what the loop looks for has overtaken
  moved

panelVars == <<on, dual, have, image, minute, kick, masked, pc, turn, kindWas, pane, fresh, moved>>

Sides == {5, 6}
Weather == 0        \* the icon: needs a reading
Weekdate == 1       \* needs nothing, and stands in for what is missing
Indoor == 2         \* needs the sensor
Pushed == 5
None == -1
Black == <<"black">>
Held == <<"held">>
Digit == <<"digit">>

\* The tubes that show panels (the other shows a digit of the time).
Shows(d) == IF d THEN Sides ELSE {6}

\* config_cx_panels, and the walk of render_cx_panel to the panel of that number.
Nth(set, n) == IF \E k \in set : Cardinality({j \in set : j < k}) = n
               THEN CHOOSE k \in set : Cardinality({j \in set : j < k}) = n ELSE Weekdate

\* What can be shown of a panel now.
Shown(kind, side) ==
  IF \/ kind = Weather /\ ~have.weather
     \/ kind = Indoor /\ ~have.indoor
     \/ kind = Pushed /\ ~image[side].valid
  THEN Weekdate ELSE kind
KindOf(side) == Shown(Nth(turn.on[side], turn.index[side]), side)

\* A panel is what it was drawn from: the pushed picture, or the minute.
Drawn(side) ==
  LET kind == KindOf(side)
  IN IF kind = Pushed THEN <<kind, image[side].version>> ELSE <<kind, turn.minute>>

\* Guarded by config_parse: no tube is without a panel.
Enabled == (SUBSET Kinds) \ {{}}

PanelsInit ==
  /\ on = [s \in Sides |-> {Weekdate, Pushed}] /\ dual \in BOOLEAN
  /\ have = [weather |-> FALSE, indoor |-> TRUE]
  /\ image = [s \in Sides |-> [valid |-> FALSE, version |-> 0, seq |-> 0]]
  /\ minute = 0 /\ kick = FALSE /\ masked = {} /\ pc = "turn"
  /\ turn = [started |-> FALSE, index |-> [s \in Sides |-> 0], on |-> on, dual |-> FALSE,
             seq |-> 0, minute |-> 0, mask |-> {}, drawnMinute |-> 0]
  /\ kindWas = [s \in Sides |-> None]
  /\ pane = [s \in Sides |-> Black]
  /\ fresh = {} /\ moved = 0

Seq == image[5].seq + image[6].seq       \* the tubes share s_cx_push_seq

-----------------------------------------------------------------------------
(* The display task *)

\* One side's index after the timer fired.
After(side) == (turn.index[side] + 1) % Cardinality(on[side])

SlipReleased == FALSE

\* The end of a session of all tubes, seen at the top of an iteration.
Released == turn.mask # {} /\ masked = {}

\* The rotation begins again, or goes on when its time has come.
Anew == ~turn.started \/ kick \/ dual # turn.dual
IndexAfter(due) ==
  IF Anew THEN [s \in Sides |-> 0]
  ELSE [s \in Sides |-> IF due /\ s \in Shows(dual) THEN After(s) ELSE turn.index[s]]

\* Whether anything calls for a drawing.
Draws(index) ==
  \/ Anew \/ index # turn.index \/ Released
  \/ Seq # turn.seq \/ minute # turn.drawnMinute

\* The top of an iteration.  The number of pictures pushed is read before the drawing.
Turn ==
  /\ pc = "turn"
  /\ \E due \in BOOLEAN :
       /\ turn' = [turn EXCEPT !.started = TRUE, !.index = IndexAfter(due), !.on = on, !.dual = dual,
                               !.seq = Seq, !.minute = minute, !.mask = masked]
       /\ pc' = IF Draws(IndexAfter(due)) THEN "draw" ELSE "paint"
  /\ kindWas' = IF Anew THEN [s \in Sides |-> None] ELSE kindWas
  \* A session that is over is seen as one only if no other goes on.
  /\ fresh' = IF masked = {} THEN fresh ELSE fresh \ (turn.mask \ masked)
  /\ kick' = FALSE
  /\ UNCHANGED <<on, dual, have, image, minute, masked, pane, moved>>

\* render_cx_panel, for each side that shows panels and is not held.  Without a
\* framebuffer the old panel stays, or black if it was another kind; files and pushed
\* pictures need none.
NeedsBuffer(kind) == kind \notin {Weather, Pushed}
Draw ==
  /\ pc = "draw" /\ pc' = "paint"
  /\ \E buffer \in BOOLEAN :
       LET sides == Shows(turn.dual) \ masked
           done == {s \in sides : buffer \/ ~NeedsBuffer(KindOf(s))}
           Failed(s) == IF KindOf(s) = kindWas[s] THEN pane[s] ELSE Black
       IN /\ pane' = [s \in Sides |->
                        IF s \in masked THEN pane[s]
                        ELSE IF s \notin sides THEN Digit
                        ELSE IF s \in done THEN Drawn(s) ELSE Failed(s)]
          /\ kindWas' = [s \in Sides |-> IF s \in done THEN KindOf(s) ELSE kindWas[s]]
          /\ fresh' = IF turn.on = on THEN done \union masked ELSE {}
  /\ turn' = [turn EXCEPT !.drawnMinute = turn.minute]
  /\ UNCHANGED <<on, dual, have, image, minute, kick, masked, moved>>

\* The painter of a session.
Paint ==
  /\ pc = "paint" /\ pc' = "turn"
  /\ pane' = [s \in Sides |-> IF s \in masked THEN Held ELSE pane[s]]
  /\ UNCHANGED <<on, dual, have, image, minute, kick, masked, turn, kindWas, fresh, moved>>

-----------------------------------------------------------------------------
(* What changes under it *)

Moves == moved < ChangeMax /\ moved' = moved + 1
task == <<pc, turn, kindWas, pane>>

\* display_cx_push_image: a picture that does not decode leaves the buffer unusable and
\* is not announced.
Push(side, ok) ==
  /\ Moves
  /\ image' = [image EXCEPT ![side] =
                 [valid |-> ok, version |-> IF ok THEN 1 + @.version ELSE @.version,
                  seq |-> IF ok THEN @.seq + 1 ELSE @.seq]]
  /\ fresh' = IF ok THEN fresh ELSE fresh \ {side}
  /\ UNCHANGED <<on, dual, have, minute, kick, masked, task>>

\* Readings come and go; panels follow at the next drawing.
Reading ==
  /\ Moves /\ have' \in [weather : BOOLEAN, indoor : BOOLEAN] \ {have}
  /\ fresh' = {}
  /\ UNCHANGED <<on, dual, image, minute, kick, masked, task>>

\* A save of the settings; its mark may be lost (display.c:11691), which leaves the
\* numbers of the panels as they were.
Save ==
  /\ Moves /\ kick' \in {TRUE, kick}
  /\ \/ \E side \in Sides, set \in Enabled : on' = [on EXCEPT ![side] = set] /\ UNCHANGED dual
     \/ dual' = ~dual /\ UNCHANGED on
  /\ fresh' = {}
  /\ UNCHANGED <<have, image, minute, masked, task>>

NextMinute ==
  /\ Moves /\ minute' = 1 - minute
  /\ UNCHANGED <<on, dual, have, image, kick, masked, fresh, task>>

\* A session that no iteration has seen leaves its colour.
Mask ==
  /\ Moves /\ masked' \in (SUBSET Sides) \ {masked}
  /\ fresh' = fresh \ ((masked \ masked') \ turn.mask)
  /\ UNCHANGED <<on, dual, have, image, minute, kick, task>>

PanelsNext ==
  \/ Turn \/ Draw \/ Paint
  \/ \E side \in Sides, ok \in BOOLEAN : Push(side, ok)
  \/ Reading \/ Save \/ NextMinute \/ Mask

-----------------------------------------------------------------------------
\* display.c:12490-12517: drawing only what the comparisons call for shows what drawing
\* everything at every iteration would: before an iteration that has nothing to notice,
\* each side that nothing overtook shows its panel, with the last picture accepted for
\* it and the minute of the clock.
PanelsShown ==
  pc = "turn" /\ ~kick /\ turn.dual = dual /\ turn.seq = Seq /\ turn.drawnMinute = minute =>
    /\ turn.minute = minute
    /\ \A s \in (fresh \intersect Shows(dual)) \ (masked \union turn.mask) : pane[s] = Drawn(s)
=============================================================================
