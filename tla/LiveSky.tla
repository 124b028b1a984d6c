------------------------------ MODULE LiveSky ------------------------------
(***************************************************************************)
(* The sky faces of the clock (display.c): the WeatherLive sky, animated   *)
(* or still, and the custom face with a theme's picture behind the digits. *)
(* A tube's frame is compared with the one sent before and only the rows   *)
(* that differ are sent (display_show_digit_dirty); panels are pushed      *)
(* whole (display_show_digit); the colon of a picture face is kept drawn   *)
(* and undrawn, and a blink pushes the box in which the two differ.  The   *)
(* tubes share the settings, the window and the time only, so a behaviour  *)
(* is about one of them: the third, a colon or a digit, or the last, a     *)
(* panel or a digit, with the bar of the update notice.  Two rows stand    *)
(* for its 160, the lower one under the bar and outside the colon's box.   *)
(* Time is counted in frames.                                              *)
(***************************************************************************)
EXTENDS Integers

CONSTANTS
  StaleAfter,   \* WL_DIRTY_STALE_US
  ChangeMax     \* bound: changes from outside

VARIABLES
  tube,     \* "colon" or "last"
  scene,    \* the settings: [face, layout, colour]
  phase,    \* "render" or "paint": what the display task does next
  again,    \* first, mode_changed, or another layout or hour
  cursor,   \* last_custom_...: the style last drawn
  col,      \* s_burnin_shift_x
  kept,     \* the tube is in s_burnin_mask or s_snow_mask
  ram,      \* the buffers allocated so far
  prev,     \* [pic, valid, col, age]: s_wl_prev_fb and its companions
  cache,    \* s_wl_colon_cache_valid and the colour of the two pictures
  busy,     \* the hint of display_busy_hint lasts
  bar,      \* s_update_indicator
  barWas,   \* s_wl_prev_indicator
  pixels,   \* [px, at, by] of each row: its pixel, shift and painter
  aim,      \* history: what the last frame is to show
  sent,     \* history: how it was sent: "rows", "whole", "box" or "none"
  idle,     \* history: frames since rows were compared
  toggles,  \* history: changes of the bar since then
  edits     \* changes so far

skyVars == <<tube, scene, phase, again, cursor, col, kept, ram, prev, cache, busy, bar, barWas,
             pixels, aim, sent, idle, toggles, edits>>

Rows == {"top", "low"}
Box == {"top"}          \* the rows of s_wl_colon_by0, s_wl_colon_bh
Buffers == {"frame", "rows", "colon"}
Faces == {"live", "still", "art"}
\* With two panels the third tube is as in "seconds", the last one as in "colon".
Scenes == {s \in [face : Faces, layout : {"colon", "seconds"}, colour : 0..1] : s.colour = 0 \/ s.face = "art"}

\* What a frame of the sky may show (two of them differ in a row, or in both); both rows
\* of a picture face's colon are known.
Pics == {p \in [Rows -> {<<"sky", 0>>, <<"sky", 1>>}] : \E r \in Rows : p[r] = <<"sky", 0>>}
Colon(lit, colour) == [r \in Rows |-> IF lit /\ r \in Box THEN <<"glyph", colour>> ELSE <<"art", colour>>]
Plain(pixel) == [r \in Rows |-> pixel]
Painted(pixel) == [r \in Rows |-> [px |-> pixel, at |-> col, by |-> "other"]]

Style == <<scene.face, scene.colour>>
Restyled == again \/ cursor # Style
HasColon == tube = "colon" /\ scene.layout = "colon"
OverArt == HasColon /\ scene.face = "art"
Panel == tube = "last" /\ scene.layout # "seconds"

\* Ages count up to one more than StaleAfter.
Later(n, d) == IF n + d > StaleAfter THEN StaleAfter + 1 ELSE n + d

SkyTypeOk ==
  /\ scene \in Scenes /\ again \in BOOLEAN /\ kept \in BOOLEAN /\ busy \in BOOLEAN
  /\ ram \subseteq Buffers /\ ("frame" \in ram \/ ram = {})
  /\ prev.age \in 0..(StaleAfter + 1) /\ idle \in 0..(StaleAfter + 1)
  /\ \A r \in Rows : pixels[r].by \in {"rows", "face", "other"} /\ pixels[r].at \in 0..1

\* The statics of display.c; something else is on the tube.
SkyInit ==
  /\ tube \in {"colon", "last"} /\ scene \in {s \in Scenes : s.colour = 0}
  /\ phase = "render" /\ again = TRUE /\ cursor = <<"none", 0>> /\ col = 0 /\ kept = FALSE /\ ram = {}
  /\ prev = [pic |-> Plain(<<"none", 0>>), valid |-> FALSE, col |-> 0, age |-> 0]
  /\ cache = [valid |-> FALSE, colour |-> 0]
  /\ busy = FALSE /\ bar = FALSE /\ barWas = FALSE
  /\ pixels = Painted(<<"other", 0>>)
  /\ aim = Plain(<<"none", 0>>) /\ sent = "none" /\ idle = 0 /\ toggles = 0 /\ edits = 0

-----------------------------------------------------------------------------
(* Sending a frame to the tube *)

\* stamp_update_indicator_bottom: the bar covers the foot of the last tube.
Shown(pic, r) == IF tube = "last" /\ r = "low" /\ bar THEN <<"bar", 0>> ELSE pic[r]
Sent(pic, r, who) == [px |-> Shown(pic, r), at |-> col, by |-> who]

\* display_show_digit.
PushWhole(pic, who) == [r \in Rows |-> Sent(pic, r, who)]

\* The age of the frame before is not asked.
SlipUnguided == "rows" \notin ram' \/ ~prev.valid \/ prev.col # col

\* The frame before is no guide: there is no buffer, nothing is known of it, the window
\* has moved, or it is too old.
Unguided ==
  \/ "rows" \notin ram' \/ ~prev.valid \/ prev.col # col
  \/ Later(prev.age, 1) > StaleAfter

\* The rows that differ, and the bar's whenever it has come or gone.
DirtyRows(pic) ==
  {r \in Rows : pic[r] # prev.pic[r] \/ (tube = "last" /\ r = "low" /\ bar # barWas)}

\* The bar is stamped again when anything was sent.
Resent(pic) ==
  IF tube = "last" /\ bar /\ DirtyRows(pic) # {} THEN DirtyRows(pic) \union {"low"} ELSE DirtyRows(pic)

\* display_show_digit_dirty.
PushRows(pic) ==
  IF Unguided THEN PushWhole(pic, "rows")
  ELSE [r \in Rows |-> IF r \in Resent(pic) THEN Sent(pic, r, "rows") ELSE pixels[r]]

\* The frame sent is the guide of the next one, if there is a buffer for it.
PrevLeft == [prev EXCEPT !.age = Later(prev.age, 1)]
PrevAfter(pic) ==
  IF "rows" \in ram' THEN [pic |-> pic, valid |-> TRUE, col |-> col, age |-> 0] ELSE PrevLeft

Aim(pic, how) == aim' = [r \in Rows |-> Shown(pic, r)] /\ sent' = how
NoAim == sent' = "none" /\ UNCHANGED aim
Older == idle' = Later(idle, 1)

SendRows(pic) ==
  /\ pixels' = PushRows(pic) /\ prev' = PrevAfter(pic)
  /\ barWas' = IF tube = "last" /\ ~Unguided THEN bar ELSE barWas
  /\ toggles' = IF Unguided THEN toggles ELSE 0
  /\ Aim(pic, "rows")

SendWhole(pic) ==
  pixels' = PushWhole(pic, "face") /\ prev' = PrevLeft /\ UNCHANGED <<barWas, toggles>>

\* A tube that is not reached, or left to its session.
SendNothing == NoAim /\ prev' = PrevLeft /\ UNCHANGED <<pixels, barWas, toggles>>

-----------------------------------------------------------------------------
(* One iteration of the display task *)

\* heap_caps_malloc may fail, and succeed later; nothing is drawn into without a frame.
Grows == ram' \in {m \in SUBSET Buffers : ram \subseteq m /\ "frame" \in m}

\* wl_render_colon_tube: the cache is forgotten when the style or the layout changes, and
\* drawn anew when it is needed; it is not kept for a sky, or without room for it.
CacheAfter ==
  IF HasColon /\ ~(OverArt /\ "colon" \in ram') THEN [cache EXCEPT !.valid = FALSE]
  ELSE IF ~Restyled /\ (cache.valid \/ ~HasColon) THEN cache
  ELSE [valid |-> HasColon, colour |-> scene.colour]

\* The colon of a picture face, pushed from its cache if there is one.
RenderColon(lit) ==
  IF "colon" \in ram'
  THEN SendWhole(Colon(lit, cache'.colour)) /\ Aim(Colon(lit, scene.colour), "whole")
  ELSE SendRows(Colon(lit, scene.colour))

RenderTube ==
  \/ OverArt /\ \E lit \in BOOLEAN : RenderColon(lit)
  \/ Panel /\ \E sky \in Pics : SendWhole(sky) /\ Aim(sky, "whole")
  \/ ~OverArt /\ ~Panel /\ \E sky \in Pics : SendRows(sky)

\* render_weatherlive: at every frame of an animated sky, and when something has changed.
Render ==
  /\ phase = "render" /\ phase' = "paint" /\ ~busy
  /\ again' = FALSE /\ cursor' = Style
  /\ Grows /\ cache' = CacheAfter
  /\ IF kept THEN SendNothing ELSE RenderTube
  /\ Older
  /\ UNCHANGED <<tube, scene, col, kept, busy, bar, edits>>

\* A park request cuts it off before the tube is reached.
RenderCut ==
  /\ phase = "render" /\ phase' = "paint" /\ ~busy
  /\ again' = FALSE /\ cursor' = Style
  /\ cache' = [cache EXCEPT !.valid = cache.valid /\ ~Restyled]
  /\ SendNothing /\ Older
  /\ UNCHANGED <<tube, scene, col, kept, ram, busy, bar, edits>>

\* A session that begins after wl_draw_tube has looked at the mask: the tube is skipped
\* further down, and is a guide no more.
RenderSurprised ==
  /\ phase = "render" /\ phase' = "paint" /\ ~busy /\ edits < ChangeMax
  /\ again' = FALSE /\ cursor' = Style
  /\ Grows /\ cache' = CacheAfter
  /\ ~kept /\ kept' = TRUE /\ edits' = edits + 1
  /\ NoAim
  /\ prev' = IF Panel \/ (OverArt /\ "colon" \in ram') THEN PrevLeft ELSE [PrevLeft EXCEPT !.valid = FALSE]
  /\ Older
  /\ UNCHANGED <<tube, scene, col, busy, bar, barWas, toggles, pixels>>

\* Without a buffer for the frame the tube is filled with the colour of the sky.
RenderNothing ==
  /\ phase = "render" /\ phase' = "paint" /\ ~busy /\ ram = {}
  /\ again' = FALSE /\ cursor' = Style /\ prev' = PrevLeft
  /\ cache' = [cache EXCEPT !.valid = FALSE]
  /\ IF kept THEN NoAim /\ UNCHANGED pixels
     ELSE /\ pixels' = [r \in Rows |-> [px |-> <<"fill", 0>>, at |-> col, by |-> "face"]]
          /\ aim' = Plain(<<"fill", 0>>) /\ sent' = "whole"
  /\ Older
  /\ UNCHANGED <<tube, scene, col, kept, ram, busy, bar, barWas, toggles, edits>>

\* wl_show_colon_blink: the box alone, from the cache, where the window is now.
PushBox(lit) ==
  /\ pixels' = [r \in Rows |-> IF r \in Box THEN Sent(Colon(lit, cache.colour), r, "face") ELSE pixels[r]]
  /\ prev' = PrevLeft
  /\ Aim(Colon(lit, scene.colour), "box")
  /\ UNCHANGED <<ram, barWas, toggles>>

\* A still face between two renderings: its colon blinks, drawn as it would be rendered
\* if it is not kept.
Blink ==
  /\ phase = "render" /\ phase' = "paint" /\ ~Restyled
  /\ HasColon /\ scene.face # "live" /\ ~kept /\ ram # {}
  /\ \/ cache.valid /\ \E lit \in BOOLEAN : PushBox(lit)
     \/ ~cache.valid /\ Grows /\ OverArt /\ \E lit \in BOOLEAN : SendRows(Colon(lit, scene.colour))
     \/ ~cache.valid /\ Grows /\ ~OverArt /\ \E sky \in Pics : SendRows(sky)
  /\ Older
  /\ UNCHANGED <<tube, scene, again, cursor, col, kept, cache, busy, bar, edits>>

\* While the hint lasts nothing is rendered, and what asked for it is forgotten, a change
\* of style excepted; a colon that is kept drawn goes on blinking.
Backoff ==
  /\ phase = "render" /\ phase' = "paint" /\ busy
  /\ again' = FALSE
  /\ cache' = [cache EXCEPT !.valid = cache.valid /\ ~Restyled]
  /\ \/ cache'.valid /\ ~kept /\ \E lit \in BOOLEAN : PushBox(lit)
     \/ (~cache'.valid \/ kept) /\ SendNothing /\ UNCHANGED ram
  /\ Older
  /\ UNCHANGED <<tube, scene, cursor, col, kept, busy, bar, edits>>

\* The painter of a session, later in the same iteration.
Paint ==
  /\ phase = "paint" /\ phase' = "render"
  /\ pixels' = IF kept THEN Painted(<<"burn", 0>>) ELSE pixels
  /\ sent' = "none" /\ idle' = IF sent = "rows" THEN 0 ELSE idle
  /\ UNCHANGED <<tube, scene, again, cursor, col, kept, ram, prev, cache, busy, bar, barWas, aim, toggles, edits>>

-----------------------------------------------------------------------------
(* What happens between two iterations *)

Edit == phase = "render" /\ edits < ChangeMax /\ edits' = edits + 1
drawing == <<tube, phase, ram, cache, barWas, aim, sent>>

\* Frames of a still face, and slow ones, are further apart.
Pause ==
  /\ phase = "render" /\ prev' = [prev EXCEPT !.age = StaleAfter + 1] /\ idle' = StaleAfter + 1
  /\ UNCHANGED <<scene, again, cursor, col, kept, busy, bar, pixels, toggles, edits, drawing>>

\* Settings are saved, which ends the hint; the layout is compared with the last one like
\* the style, and the mark that asks for a rendering may be lost (display.c:11691).
Save ==
  /\ Edit /\ scene' \in Scenes \ {scene} /\ busy' = FALSE
  /\ again' \in {again \/ scene'.layout # scene.layout, TRUE}
  /\ UNCHANGED <<cursor, col, kept, prev, bar, pixels, idle, toggles, drawing>>

Hint ==
  /\ Edit /\ busy' = TRUE
  /\ UNCHANGED <<scene, again, cursor, col, kept, prev, bar, pixels, idle, toggles, drawing>>
HintOver ==
  /\ phase = "render" /\ busy /\ busy' = FALSE
  /\ UNCHANGED <<scene, again, cursor, col, kept, prev, bar, pixels, idle, toggles, edits, drawing>>

\* The hour changes: the windows move and everything is rendered.
Hour ==
  /\ Edit /\ col' = 1 - col /\ again' = TRUE
  /\ UNCHANGED <<scene, cursor, kept, prev, busy, bar, pixels, idle, toggles, drawing>>

\* Another mode or an overlay has the tubes for some frames, or display_invalidate
\* blackens them.
Elsewhere ==
  /\ Edit /\ again' = TRUE
  /\ \E n \in 0..StaleAfter :
       prev' = [prev EXCEPT !.age = Later(prev.age, n)] /\ idle' = Later(idle, n)
  /\ pixels' = IF kept THEN pixels ELSE Painted(<<"other", 0>>)
  /\ UNCHANGED <<scene, cursor, col, kept, busy, bar, toggles, drawing>>

\* A panel is given another VCOM, or other columns or colours: nothing asks for a repaint.
PanelReset ==
  /\ Edit /\ pixels' = Painted(<<"other", 0>>)
  /\ UNCHANGED <<scene, again, cursor, col, kept, prev, busy, bar, idle, toggles, drawing>>

\* display_set_update_indicator: of a bar that has gone again before rows were compared
\* the comparison knows nothing.
Notice ==
  /\ Edit /\ tube = "last" /\ bar' = ~bar /\ toggles' = IF toggles = 2 THEN 2 ELSE toggles + 1
  /\ pixels' = IF toggles = 0 THEN pixels ELSE [pixels EXCEPT !["low"].by = "other"]
  /\ UNCHANGED <<scene, again, cursor, col, kept, prev, busy, idle, drawing>>

\* display_set_burnin_mask and display_set_snow_mask.
Begin ==
  /\ Edit /\ ~kept /\ kept' = TRUE
  /\ UNCHANGED <<scene, again, cursor, col, prev, busy, bar, pixels, idle, toggles, drawing>>
End ==
  /\ phase = "render" /\ kept /\ kept' = FALSE
  /\ UNCHANGED <<scene, again, cursor, col, prev, busy, bar, pixels, idle, toggles, edits, drawing>>

SkyNext ==
  \/ Render \/ RenderCut \/ RenderSurprised \/ RenderNothing \/ Blink \/ Backoff \/ Paint
  \/ Pause \/ Save \/ Hint \/ HintOver \/ Hour \/ Elsewhere \/ PanelReset \/ Notice
  \/ Begin \/ End

-----------------------------------------------------------------------------
\* Sending only the rows that differ shows what sending the whole frame would, with the
\* settings of today and where the window is now: a row the comparison believes in is
\* right, one that was painted in between is right unless the tube was away for no more
\* than WL_DIRTY_STALE_US, a tube pushed whole is right altogether, and the box of a
\* colon fits the picture around it.
RowsExact ==
  phase = "paint" /\ ~kept =>
    \A r \in Rows :
      LET right == pixels[r].px = aim[r] /\ pixels[r].at = col
      IN \/ sent = "none" \/ right
         \/ sent = "rows" /\ pixels[r].by # "rows" /\ idle <= StaleAfter
         \/ sent = "box" /\ r \notin Box /\ pixels[r].by = "other"
=============================================================================
