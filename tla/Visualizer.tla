----------------------------- MODULE Visualizer -----------------------------
(***************************************************************************)
(* The spectrum mode (display.c): bars or an oscilloscope trace, redrawn   *)
(* at every frame by painting only what differs from what was painted      *)
(* before.  What each tube is believed to show (s_spec_drawn_lit,          *)
(* s_scope_row_lo...) can be overtaken by other modes, settings, the       *)
(* strip's colour, the hourly pixel shift, panel resets and burn-in        *)
(* sessions, which repaint tubes behind it.  Rows of pixels stand for      *)
(* segments; tubes share the colours, the shift and the time of the last   *)
(* full repaint, and one bar stands for a tube's four.                     *)
(***************************************************************************)
EXTENDS Integers, TLC

CONSTANTS
  BarTubes,     \* the tubes
  Segs,         \* SPEC_SEGS
  Levels,       \* levels a band may have, of Top
  HealAfter,    \* SPEC_FULL_REFRESH_MS, in frames
  ChangeMax     \* bound: changes from outside

VARIABLES
  look,     \* the settings: [style, follow, peak]
  strip,    \* the WLED strip has a colour worth following
  shift,    \* s_burnin_shift_x
  off,      \* s_profile_col_off of each tube
  held,     \* s_burnin_mask
  step,     \* "render", "hour" or "paint": what the display task does next
  force,    \* first || mode_changed
  style,    \* s_prev_style
  peaks,    \* s_spec_peak and s_spec_peak_hold: [at, hold] of each bar
  bars,     \* [lit, dot, valid, ox] of each tube, as the bars believe it to be
  scope,    \* [lo, hi, valid, ox], as the trace believes it to be
  memory,   \* the blocks of samples allocated so far
  full,     \* [bars, scope]: [sig, age] of the last full repaint of each style
  margin,   \* [shift, done]: s_spec_margin_shift, s_spec_margin_done
  glass,    \* [rows, at, edge]: what is on each tube
  want,     \* history: what the last frame is to show; Held where it left the tube alone
  missed,   \* history: frames since a tube was painted behind the renderer's back
  changes

visVars == <<look, strip, shift, off, held, step, force, style, peaks, bars, scope, memory, full, margin,
             glass, want, missed, changes>>

Top == CHOOSE k \in Levels : \A l \in Levels : l <= k
Rows == 0..Segs          \* the segments, and the rows above them
Mid == Segs \div 2       \* SCOPE_MID
Black == <<"black">>
Held == <<"held">>
Blank(pixel) == [y \in Rows |-> pixel]
NoDot == -1
HoldTicks == 1           \* spectrum_peak_hold_ms
Fall == 1                \* of Levels, in a frame; five times as fast in silence

\* Traces, by the rows between which they lie; all of them cross the axis.
Traces == {tr \in Rows \X Rows : tr[1] <= Mid /\ Mid <= tr[2]}

\* The strip's colour, if it is to be followed and there is one (wled_sync_get, ws.on
\* and not nearly black); the peaks keep their own.
Colour(c) == IF c.follow /\ strip THEN "strip" ELSE "own"
BarSig(c) == <<Colour(c), c.peak>>
ScopeSig(c) == <<Colour(c), 0>>

\* spec_seg_565: the colour of a segment.
Segment(s, lit, dot, sig) ==
  IF s = Segs THEN Black
  ELSE IF s = dot THEN <<"peak", sig[2]>>
  ELSE IF s < lit THEN <<"lit", sig[1]>>
  ELSE <<"ghost", sig[1]>>
BarRows(lit, dot, sig) == [s \in Rows |-> Segment(s, lit, dot, sig)]

TraceRow(y, trace, sig) ==
  IF trace[1] <= y /\ y <= trace[2] THEN <<"trace", sig[1], trace>>
  ELSE IF y = Mid THEN <<"axis", sig[1]>>
  ELSE Black
TraceRows(trace, sig) == [y \in Rows |-> TraceRow(y, trace, sig)]

Lit(e) == (2 * e * Segs + Top) \div (2 * Top)
Dot(p) == IF p = 0 THEN NoDot ELSE (2 * p * (Segs - 1) + Top) \div (2 * Top)

\* A dot is carried up by its bar, held, and falls.
PeakAfter(p, e, silent) ==
  IF e >= p.at THEN [at |-> e, hold |-> HoldTicks]
  ELSE IF p.hold > 0 THEN [p EXCEPT !.hold = p.hold - 1]
  ELSE LET drop == IF silent THEN 5 * Fall ELSE Fall
       IN [p EXCEPT !.at = IF p.at < drop THEN 0 ELSE p.at - drop]

VisTypeOk ==
  /\ look \in [style : 0..2, follow : BOOLEAN, peak : 0..1] /\ held \subseteq BarTubes
  /\ \A t \in BarTubes : bars[t].lit \in 0..Segs /\ bars[t].dot \in NoDot..(Segs - 1)
  /\ \A t \in BarTubes : glass[t].edge \in {"black", "old", "left"} /\ DOMAIN glass[t].rows = Rows

\* The statics of display.c; another mode has the tubes.
VisInit ==
  /\ look \in [style : 0..2, follow : {TRUE}, peak : {0}] /\ strip = FALSE
  /\ shift = 0 /\ off = [t \in BarTubes |-> 0] /\ held = {}
  /\ step = "render" /\ force = TRUE /\ style = -1
  /\ peaks = [t \in BarTubes |-> [at |-> 0, hold |-> 0]]
  /\ bars = [t \in BarTubes |-> [lit |-> 0, dot |-> 0, valid |-> FALSE, ox |-> 0]]
  /\ scope = [t \in BarTubes |-> [lo |-> 0, hi |-> 0, valid |-> FALSE, ox |-> 0]]
  /\ memory = {}
  /\ full = [s \in {"bars", "scope"} |-> [sig |-> <<"none", 0>>, age |-> HealAfter + 1]]
  /\ margin = [shift |-> 1000, done |-> {}]
  /\ glass = [t \in BarTubes |-> [rows |-> Blank(<<"mode">>), at |-> 0, edge |-> "old"]]
  /\ want = [t \in BarTubes |-> Blank(Black)]
  /\ missed = [t \in BarTubes |-> 0]
  /\ changes = 0

Ox(t) == shift + off[t]

\* The signature and the time of the last full repaint, one frame on.
Older(s) == IF full[s].age > HealAfter THEN full[s].age ELSE full[s].age + 1
Due(s, sig) == sig # full[s].sig \/ Older(s) > HealAfter
FullAfter(s, again, sig) ==
  [r \in DOMAIN full |->
     IF r = s /\ again THEN [sig |-> sig, age |-> 0] ELSE [full[r] EXCEPT !.age = Older(r)]]

\* A tube is painted where it is now: what it showed elsewhere is left beside it, unless
\* it was black, or nothing is said of what is beside it.
Put(g, t, rows) ==
  [rows |-> rows, at |-> Ox(t),
   edge |-> IF g.at = Ox(t) \/ g.rows = Blank(Black) \/ g.edge = "left" THEN g.edge ELSE "old"]

\* A tube painted behind the renderer's back is in the end painted over.
MissedAfter(again) ==
  missed' = [t \in BarTubes |-> IF t \in again \union held \/ missed[t] = 0 THEN 0 ELSE missed[t] + 1]

-----------------------------------------------------------------------------
(* One frame *)

\* The segments that are to be painted on a tube already drawn.
Changed(b, lit, dot) ==
  {s \in 0..(Segs - 1) : \/ b.lit <= s /\ s < lit
                         \/ lit <= s /\ s < b.lit
                         \/ b.dot # dot /\ s \in {b.dot, dot}}

SlipRepainted(t, all) == all \/ bars[t].ox # Ox(t)

\* A tube that is not where and what the bars believe is painted in full; a held one is
\* left, and is believed no more.
Repainted(t, all) == all \/ ~bars[t].valid \/ bars[t].ox # Ox(t)

\* What makes a frame start anew, and what it then paints whole: the tubes of the bars,
\* with the margins of those not done since the window moved; the tubes of the trace.
Again == force \/ look.style # style
All == Again \/ Due("bars", BarSig(look))
WholeBars == {t \in BarTubes \ held : Repainted(t, All)}
Fresh == margin.shift # shift \/ Again
Done == IF Fresh THEN {} ELSE margin.done
NewTraces == {t \in BarTubes \ held : Again \/ ~scope[t].valid \/ scope[t].ox # Ox(t)}
Heal == Due("scope", ScopeSig(look))

BarsOn(t, lit, dot) ==
  IF t \in WholeBars
  THEN [Put(glass[t], t, BarRows(lit, dot, BarSig(look))) EXCEPT !.edge = IF t \in Done THEN @ ELSE "black"]
  ELSE Put(glass[t], t, [s \in Rows |-> IF s \in Changed(bars[t], lit, dot)
                                        THEN Segment(s, lit, dot, BarSig(look)) ELSE glass[t].rows[s]])

\* render_spectrum, once it has measured the bars.
DrawBars(lit, dot) ==
  /\ look.style = 0
  /\ style' = look.style
  /\ full' = FullAfter("bars", All, BarSig(look))
  /\ margin' = [shift |-> IF Fresh THEN shift ELSE margin.shift, done |-> Done \union WholeBars]
  /\ bars' = [t \in BarTubes |->
                IF t \in held THEN [bars[t] EXCEPT !.valid = FALSE]
                ELSE [lit |-> lit[t], dot |-> dot[t], valid |-> TRUE, ox |-> Ox(t)]]
  /\ glass' = [t \in BarTubes |-> IF t \in held THEN glass[t] ELSE BarsOn(t, lit[t], dot[t])]
  /\ want' = [t \in BarTubes |-> IF t \in held THEN Blank(Held) ELSE BarRows(lit[t], dot[t], BarSig(look))]
  /\ MissedAfter(WholeBars)
  /\ UNCHANGED <<scope, memory>>

\* The bands are silent or not together.
RenderBars(e) ==
  LET silent == \A t \in BarTubes : e[t] = 0
      peak == [t \in BarTubes |-> PeakAfter(peaks[t], e[t], silent)]
  IN /\ peaks' = peak
     /\ DrawBars([t \in BarTubes |-> Lit(e[t])], [t \in BarTubes |-> Dot(peak[t].at)])

\* The blocks of samples a style needs.
Needs == IF look.style = 2 THEN {1, 2} ELSE {1}

\* The rows between the old and the new extent of a trace are painted, all of them when
\* a full repaint is due.
Covers(t, trace, y) ==
  \/ Heal
  \/ trace[1] <= y /\ y <= trace[2]
  \/ scope[t].lo <= y /\ y <= scope[t].hi

TraceOn(t, trace) ==
  IF t \in NewTraces
  THEN [Put(glass[t], t, TraceRows(trace, ScopeSig(look))) EXCEPT !.edge = "black"]
  ELSE Put(glass[t], t, [y \in Rows |-> IF Covers(t, trace, y) THEN TraceRow(y, trace, ScopeSig(look))
                                        ELSE glass[t].rows[y]])

\* render_scope.
RenderScope(trace) ==
  /\ look.style > 0
  /\ style' = look.style /\ memory' = memory \union Needs
  /\ full' = FullAfter("scope", Heal, ScopeSig(look))
  /\ scope' = [t \in BarTubes |->
                 IF t \in held THEN [scope[t] EXCEPT !.valid = FALSE]
                 ELSE [lo |-> trace[t][1], hi |-> trace[t][2], valid |-> TRUE, ox |-> Ox(t)]]
  /\ glass' = [t \in BarTubes |-> IF t \in held THEN glass[t] ELSE TraceOn(t, trace[t])]
  /\ want' = [t \in BarTubes |-> IF t \in held THEN Blank(Held) ELSE TraceRows(trace[t], ScopeSig(look))]
  /\ MissedAfter(IF Heal THEN BarTubes \ held ELSE NewTraces)
  /\ UNCHANGED <<bars, peaks, margin>>

\* There is no memory for the samples yet (two blocks, for the styles 1 and 2): nothing
\* is drawn, and the change of style or of mode is forgotten with it; what is beside the
\* windows stays until another reason makes a tube be painted anew.
NoMemory ==
  /\ look.style > 0 /\ ~(Needs \subseteq memory)
  /\ memory' \in {memory, memory \union (Needs \intersect {1})} \ {memory \union Needs}
  /\ style' = look.style
  /\ full' = FullAfter("scope", FALSE, ScopeSig(look))
  /\ glass' = [t \in BarTubes |-> [glass[t] EXCEPT !.edge = "left"]]
  /\ missed' = [t \in BarTubes |-> 1]
  /\ UNCHANGED <<peaks, bars, scope, margin, want>>

outer == <<look, strip, shift, off, held, changes>>

Frame ==
  /\ step \in {"render", "hour"} /\ step' = "paint" /\ force' = FALSE
  /\ \/ \E e \in [BarTubes -> Levels] : RenderBars(e)
     \/ \E trace \in [BarTubes -> Traces] : RenderScope(trace)
     \/ NoMemory
  /\ UNCHANGED outer

\* The painter of a session, later in the same iteration (display_fill: the window
\* and the edges beside it).
Paint ==
  /\ step = "paint" /\ step' = "render"
  /\ glass' = [t \in BarTubes |->
                 IF t \in held THEN [rows |-> Blank(Held), at |-> Ox(t), edge |-> "left"] ELSE glass[t]]
  /\ UNCHANGED <<outer, force, style, peaks, bars, scope, memory, full, margin, want, missed>>

-----------------------------------------------------------------------------
(* What happens between two frames *)

Within == changes < ChangeMax /\ changes' = changes + 1
drawn == <<style, peaks, bars, scope, memory, full, margin, want>>

\* Settings are saved; the mark that makes the next frame repaint everything may be
\* lost (display.c:11691).
Save ==
  /\ Within
  /\ look' \in [style : 0..2, follow : {look.follow}, peak : 0..1] \ {look}
  /\ force' \in {force, TRUE}
  /\ UNCHANGED <<strip, shift, off, held, step, drawn, glass, missed>>

\* A packet of the strip.
Strip ==
  /\ Within /\ strip' = ~strip
  /\ UNCHANGED <<look, shift, off, held, step, force, drawn, glass, missed>>

\* Another mode, an overlay, or the black of display_invalidate: the next frame is the
\* first of the mode again.
Elsewhere ==
  /\ Within /\ step = "render" /\ force' = TRUE
  /\ glass' = [t \in BarTubes |->
                 IF t \in held THEN glass[t] ELSE [rows |-> Blank(<<"mode">>), at |-> Ox(t), edge |-> "old"]]
  /\ UNCHANGED <<look, strip, shift, off, held, step, drawn, missed>>

\* The hour changes, at the top of an iteration that goes on to a frame.
Hour ==
  /\ Within /\ step = "render" /\ step' = "hour" /\ shift' = 1 - shift
  /\ UNCHANGED <<look, strip, off, held, force, drawn, glass, missed>>

\* A panel is given another VCOM: it is reset and black, and its columns may lie
\* elsewhere; nothing asks for a repaint.
PanelReset(t) ==
  /\ Within /\ step = "render"
  /\ off' \in {off, [off EXCEPT ![t] = 1 - off[t]]}
  /\ glass' = [glass EXCEPT ![t] = [rows |-> Blank(Black), at |-> shift + off'[t], edge |-> "black"]]
  /\ missed' = IF t \in held THEN missed ELSE [missed EXCEPT ![t] = 1]
  /\ UNCHANGED <<look, strip, shift, held, step, force, drawn>>

\* display_set_burnin_mask, from the web interface or the timer.  A session that no
\* frame has seen leaves its colour on tubes believed to be drawn.
Begin(t) ==
  /\ Within /\ t \notin held /\ held' = held \union {t}
  /\ UNCHANGED <<look, strip, shift, off, step, force, drawn, glass, missed>>
Unseen(t) == want[t] \notin {Blank(Held), glass[t].rows}
End ==
  /\ held # {} /\ held' = {}
  /\ missed' = [t \in BarTubes |-> IF t \in held /\ Unseen(t) THEN 1 ELSE missed[t]]
  /\ UNCHANGED <<look, strip, shift, off, step, force, drawn, glass, changes>>

VisNext ==
  \/ Frame \/ Paint
  \/ Save \/ Strip \/ Elsewhere \/ Hour
  \/ \E t \in BarTubes : PanelReset(t) \/ Begin(t)
  \/ End

-----------------------------------------------------------------------------
\* Painting only what has changed shows what painting everything would, at the right
\* columns and with nothing of another mode beside it, whatever happened since the
\* last frame; a tube painted behind the renderer's back is whole again when the next
\* full repaint is due (SPEC_FULL_REFRESH_MS).
TubesExact ==
  step = "paint" =>
    \A t \in {u \in BarTubes : want[u] # Blank(Held)} :
      IF missed[t] = 0
      THEN glass[t].rows = want[t] /\ glass[t].at = Ox(t) /\ glass[t].edge # "old"
      ELSE missed[t] <= HealAfter + 1
=============================================================================
