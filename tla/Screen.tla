------------------------------- MODULE Screen -------------------------------
(***************************************************************************)
(* What the tubes show: the loop that decides what is drawn and when       *)
(* (DisplayLoop), and the pictures it draws from (ThemeArt).  The loop     *)
(* takes a theme's pictures as they are and the pictures do not depend on  *)
(* the mode, so a behaviour of this module is one of one of the two,       *)
(* chosen at the start.                                                    *)
(***************************************************************************)
EXTENDS Integers, TLC

CONSTANTS Tubes, Modes, Themes, EventMax, Slots, WriteMax

VARIABLES
  part,
  conf, now, data, timeOk, over, mask, sig, post, loop, last, tubes, lamp, lost, events,
  disk, img, num, ink, stale, quiet, art, chosen, shown, web, silent, writes

Loop == INSTANCE DisplayLoop
Art == INSTANCE ThemeArt

loopVars == <<conf, now, data, timeOk, over, mask, sig, post, loop, last, tubes, lamp, lost, events>>
artVars == <<disk, img, num, ink, stale, quiet, art, chosen, shown, web, silent, writes>>
vars == <<part, loopVars, artVars>>

TypeOk == part \in {"loop", "art"} /\ Loop!TypeOk /\ Art!TypeOk

Init == part \in {"loop", "art"} /\ Loop!Init /\ Art!Init

\* Only the part that runs is given more than one initial state.
Start ==
  /\ Init
  /\ part = "loop" => chosen = "pack" /\ disk["0.png"] = Art!Gone
  /\ part = "art" => conf.mode = CHOOSE m \in Modes : TRUE
  /\ part = "art" => conf.theme = CHOOSE t \in Themes : TRUE

Next ==
  /\ UNCHANGED part
  /\ \/ part = "loop" /\ Loop!Next /\ UNCHANGED artVars
     \/ part = "art" /\ Art!Next /\ UNCHANGED loopVars

\* The fairness of DisplayLoop and ThemeArt, for the part that runs.
Fairness ==
  /\ WF_loopVars(part = "loop" /\ Loop!Iteration)
  /\ SF_loopVars(part = "loop" /\ Loop!Second_)
  /\ SF_loopVars(part = "loop" /\ Loop!Turn)
  /\ SF_loopVars(part = "loop" /\ Loop!Glided)
  /\ SF_loopVars(part = "loop" /\ Loop!PostStore)
  /\ WF_loopVars(part = "loop" /\ Loop!PostMark)
  /\ WF_loopVars(part = "loop" /\ Loop!BusyOver)
  /\ WF_artVars(part = "art" /\ Art!DisplaySteps)
  /\ WF_artVars(part = "art" /\ (Art!WriteEnds \/ Art!UploadCut))
  /\ WF_artVars(part = "art" /\ Art!Mark)
  /\ WF_artVars(part = "art" /\ Art!QuietOver)

Spec == Start /\ [][Next]_vars /\ Fairness

-----------------------------------------------------------------------------
\* Something else than the mode has the tubes.
Overlaid == over.pin \/ over.mic \/ over.ticker > 0 \/ mask # {}

\* What the tubes have to show in the end.
Wanted ==
  IF conf.mode = "clock" /\ ~timeOk THEN [t \in Tubes |-> Loop!Black] ELSE Loop!FaceNow(conf, loop.panel)

\* The loop draws only what its comparisons (last_t, last_subs, last_temp_c...) call
\* for; whatever settings, readings, overlays and burn-in sessions did between two of
\* them, the tubes come to show the mode as it is now.  Excepted are the changes the
\* loop is known to drop (README): a save that falls between the copy of the
\* settings and the test of s_settings_saved, a session shorter than an iteration.
FaceCatchesUp ==
  part = "loop" => []<>(\/ Overlaid \/ lost.save \/ lost.burn \/ (~loop.ready /\ ~timeOk)
                        \/ tubes = Wanted)

\* The backlight comes to have the duty the settings and the night ask for, after
\* every glide, overlay and microphone test (last_bl_on, last_bl_brt); excepted is a
\* change under a ticker or the PIN, or an edit of the brightness of dark tubes.
LightSettles ==
  part = "loop" => []<>(Overlaid \/ ~loop.ready \/ lost.light \/ lamp.duty = Loop!Wants(conf))

\* Whatever is written over, removed or torn while it is drawn, the tubes come to
\* show what drawing from the files would (s_theme_stale_ms), unless
\* the theme changes for ever.  Excepted is what a cut-off upload leaves behind.
ArtCatchesUp ==
  part = "art" => []<>(shown = Art!Wanted \/ art.theme # chosen \/ silent)

\* display.c:2437: the mark is set "whenever theme art may have changed on disk".  A
\* cut-off upload, too, is seen on the tubes.
CutUploadSeen ==
  part = "art" => []<>(shown = Art!Wanted \/ art.theme # chosen)

\* README.md:1043: "Turn the backlight ON or OFF".  Tubes that are switched off stay
\* dark.
OffIsDark == loop.pc = "draw" /\ ~loop.snap.light /\ ~loop.first => lamp.duty = 0
=============================================================================
