------------------------------ MODULE LcdTuning ------------------------------
(***************************************************************************)
(* The LCD tuning of one tube: the settings, what display.c holds of them, *)
(* what the panel has latched, and the A/B preview of web_server.c, which  *)
(* puts values on the tubes without saving them.                           *)
(*                                                                         *)
(* Every change comes from the web server's one thread; besides it run the *)
(* preview's timer, which queues work for that thread, and the display     *)
(* task, which redraws the tube when it is told to or when its content     *)
(* changes.  The groups that only rebuild the tube's colour table          *)
(* (brightness, lift, gains, curves) are one, "soft".  Gamma is a number,  *)
(* and a change of no more than GammaStep passes for none.                 *)
(* A definition named Slip... is a plausible wrong version of the one that *)
(* follows it.                                                             *)
(***************************************************************************)
EXTENDS Integers

CONSTANTS
  Changing,   \* the sets of groups that change in one behaviour
  GammaStep,  \* changes up to this are not applied (0.005)
  FailMax     \* how often the display task fails to pause, since the start

VARIABLES
  groups,   \* the groups that change in this behaviour
  saved,    \* the settings
  held,     \* s_invert_mask, s_init_profiles, s_tube_vcom, s_gamma, offsets, tables
  panel,    \* what the panel does: inversion, latched profile and VCOM, and the
            \* profile whose window offsets are used
  applied,  \* s_lcd_applied and s_lcd_applied_valid
  preview,  \* s_lcd_preview_pending, and the values last previewed
  timer,    \* the preview's timer, and the reverts queued for the web server
  save,     \* how far api_post_settings is, with its copy of the old settings
  tube,     \* whether the tube shows all this, and s_settings_saved or s_full_repaint_request
  fails     \* how many pauses have failed, and whether one has since the last boot

lcdVars == <<groups, saved, held, panel, applied, preview, timer, save, tube, fails>>

Latched == {"invert", "profile", "vcom"}
Groups == Latched \cup {"gamma", "offset", "soft"}
Values(g) == IF g \notin groups THEN {0} ELSE IF g = "gamma" THEN {0, GammaStep + 1} ELSE {0, 1}
Tunings == {t \in [Groups -> {0, 1, GammaStep + 1}] : \A g \in Groups : t[g] \in Values(g)}
Plain == [g \in Groups |-> 0]

Latch(h) == [invert |-> h.invert, profile |-> h.profile, vcom |-> h.vcom, win |-> h.profile]

Init ==
  /\ groups \in Changing
  /\ saved = Plain /\ held = saved /\ panel = Latch(saved)
  /\ applied = [ok |-> FALSE, at |-> Plain]
  /\ preview = [on |-> FALSE, at |-> Plain]
  /\ timer = [st |-> "off", queued |-> FALSE]
  /\ save = [at |-> "no", old |-> Plain]
  /\ tube = [shown |-> TRUE, ask |-> FALSE]
  /\ fails = [n |-> 0, since |-> FALSE]

-----------------------------------------------------------------------------
\* The appliers.  Each compares with what display.c holds, and keeps the new value
\* whether or not the display task pauses for it.  A reset of the panel latches
\* profile, VCOM and inversion together and leaves the tube black.
Differ(a, b) == a > b + GammaStep \/ b > a + GammaStep

\* What is to be done, with what of it can fail: old values against new ones.
Work(old, new) ==
  {g \in {"invert", "profile", "vcom", "offset", "soft"} : old[g] # new[g]}
    \cup (IF Differ(old.gamma, new.gamma) THEN {"gamma"} ELSE {})

\* The value each applier leaves behind.
HeldAfter(h, work, new) ==
  [g \in DOMAIN h |->
     IF g \notin work \/ (g = "gamma" /\ ~Differ(h.gamma, new.gamma)) THEN h[g] ELSE new[g]]

\* The panel after the appliers that paused the display task, in their order:
\* inversion, profile, VCOM; the last reset latches everything held by then.
Resets(h, work, new) == {g \in work \cap {"profile", "vcom"} : h[g] # new[g]}
PanelAfter(p, h, work, new, paused) ==
  LET inverted == IF "invert" \in work \cap paused THEN new.invert ELSE p.invert
      after == HeldAfter(h, work, new)
      resets == Resets(h, work, new) \cap paused
      atProfile == [after EXCEPT !.vcom = h.vcom]
      last == IF "vcom" \in resets THEN after ELSE atProfile
  IN [invert  |-> IF resets = {} THEN inverted ELSE after.invert,
      profile |-> IF resets = {} THEN p.profile ELSE last.profile,
      vcom    |-> IF resets = {} THEN p.vcom ELSE last.vcom,
      win     |-> IF "profile" \in resets THEN after.profile ELSE p.win]

\* The appliers run for the work between old and new; a pause may fail.  A reset
\* leaves the tube black, a table its old colours; only new offsets ask for a repaint.
Apply(old, new) ==
  LET work == Work(old, new)
      resets == Resets(held, work, new)
      pausing == (work \cap {"invert"}) \cup resets
  IN \E paused \in SUBSET pausing :
       /\ fails' = IF paused = pausing THEN fails ELSE [n |-> fails.n + 1, since |-> TRUE]
       /\ fails'.n <= FailMax
       /\ held' = HeldAfter(held, work, new)
       /\ panel' = PanelAfter(panel, held, work, new, paused)
       /\ tube' = [shown |-> tube.shown /\ work \subseteq Latched /\ resets \cap paused = {},
                   ask |-> tube.ask \/ "offset" \in work]

\* lcd_apply_diff: what the tubes have is taken from the settings when it is not known.
SlipKnown == saved
Known == IF applied.ok THEN applied.at ELSE saved
ApplyDiff(want) == Apply(Known, want) /\ applied' = [ok |-> TRUE, at |-> want]

\* lcd_preview_revert, which also stops the timer.
Reverted ==
  IF ~preview.on THEN UNCHANGED <<held, panel, tube, fails, applied, preview>>
  ELSE ApplyDiff(saved) /\ preview' = [on |-> FALSE, at |-> Plain]

-----------------------------------------------------------------------------
\* The web server; serving, it does one thing at a time.
Serving == save.at = "no"

\* api_lcd_preview_post, refused while an update runs.
Post(want) ==
  /\ Serving /\ ApplyDiff(want) /\ preview' = [on |-> TRUE, at |-> want]
  /\ timer' = [timer EXCEPT !.st = "armed"]
  /\ UNCHANGED <<saved, save>>

Revert ==
  /\ Serving /\ Reverted /\ timer' = [timer EXCEPT !.st = "off"]
  /\ UNCHANGED <<saved, save>>

\* lcd_prev_work: the same revert, whatever has been previewed since it was queued.
QueuedRevert ==
  /\ Serving /\ timer.queued
  /\ Reverted /\ timer' = [st |-> "off", queued |-> FALSE]
  /\ UNCHANGED <<saved, save>>

TimerFires ==
  /\ timer.st = "armed" /\ timer' = [st |-> "off", queued |-> TRUE]
  /\ UNCHANGED <<saved, held, panel, applied, preview, save, tube, fails>>

\* api_post_settings: a preview ends before the old settings are copied, the display is
\* told to redraw, and then the new values are applied.
BeginSave ==
  /\ Serving /\ Reverted
  /\ timer' = IF preview.on THEN [timer EXCEPT !.st = "off"] ELSE timer
  /\ save' = [save EXCEPT !.at = "keep"]
  /\ UNCHANGED saved

KeepSettings(new) ==
  /\ save.at = "keep" /\ save' = [at |-> "apply", old |-> saved] /\ saved' = new
  /\ tube' = [tube EXCEPT !.ask = TRUE]
  /\ UNCHANGED <<held, panel, applied, preview, timer, fails>>

Forgotten == [ok |-> FALSE, at |-> Plain]
ApplySettings ==
  /\ save.at = "apply" /\ Apply(save.old, saved)
  /\ applied' = Forgotten
  /\ save' = [at |-> "no", old |-> Plain]
  /\ UNCHANGED <<saved, preview, timer>>

-----------------------------------------------------------------------------
\* The display task draws what it was asked for, and what changes of itself.
Redraw ==
  /\ tube.ask /\ tube' = [shown |-> TRUE, ask |-> FALSE]
  /\ UNCHANGED <<saved, held, panel, applied, preview, timer, save, fails>>

NewContent ==
  /\ ~tube.shown /\ tube' = [tube EXCEPT !.shown = TRUE]
  /\ UNCHANGED <<saved, held, panel, applied, preview, timer, save, fails>>

\* A restart, of display_init and of the appliers that app_main runs before the task.
Boot ==
  /\ fails.since
  /\ held' = saved /\ panel' = Latch(saved)
  /\ applied' = Forgotten /\ preview' = [on |-> FALSE, at |-> Plain]
  /\ timer' = [st |-> "off", queued |-> FALSE] /\ save' = [at |-> "no", old |-> Plain]
  /\ tube' = [shown |-> TRUE, ask |-> FALSE] /\ fails' = [fails EXCEPT !.since = FALSE]
  /\ UNCHANGED saved

Next ==
  /\ UNCHANGED groups
  /\ \/ \E t \in Tunings : Post(t) \/ KeepSettings(t)
     \/ Revert \/ QueuedRevert \/ TimerFires \/ BeginSave \/ ApplySettings
     \/ Redraw \/ NewContent \/ Boot

Spec == Init /\ [][Next]_lcdVars

\* The web server works off its queue and the display task runs; nobody is obliged to
\* preview, to save, or to let the content of a tube change.
FairSpec ==
  /\ Spec
  /\ WF_lcdVars(KeepSettings(saved) /\ UNCHANGED groups)
  /\ WF_lcdVars(ApplySettings /\ UNCHANGED groups)
  /\ WF_lcdVars(Redraw /\ UNCHANGED groups)

-----------------------------------------------------------------------------
TypeOk ==
  /\ saved \in Tunings /\ held \in Tunings /\ applied.at \in Tunings /\ preview.at \in Tunings
  /\ timer.st \in {"off", "armed"} /\ save.at \in {"no", "keep", "apply"} /\ fails.n \in 0..FailMax

\* web_server.c:3627-3631: whatever has been previewed, reverted and saved in whatever
\* order, the tube and its panel have the previewed values while a preview is on and the
\* saved ones when none is, as long as the display task pauses when it is asked to; and
\* a preview that is on will end, with its timer running or its revert queued.
PreviewHonest ==
  /\ Serving /\ ~fails.since =>
       LET due == IF preview.on THEN preview.at ELSE saved
       IN held = due /\ panel = Latch(due)
  /\ preview.on => timer.st = "armed" \/ timer.queued

\* display.c:1092: after a reset, which leaves the tube black, the display task
\* re-renders within one 200 ms tick, if the tuning is then left alone.
BlackRepainted == []<>tube.shown \/ []<><<held' # held>>_lcdVars
=============================================================================
