----------------------------- MODULE AudioPlay -----------------------------
(***************************************************************************)
(* Who may use the loudspeaker: audio_play_file, called by the touch       *)
(* handler, the web page and esp-mqtt's task, audio_dac_test_set, called by *)
(* the web page, and audio_play_task, a task that lives for one clip.  The *)
(* samples themselves are SampleFeed's.  A step is one access of a variable *)
(* that the others read, or the accesses up to the next one.               *)
(***************************************************************************)
EXTENDS Naturals

CONSTANTS
  PressMax   \* bound: clips and tests asked for

Callers == {"touch", "web", "mqtt"}
Tester == "web"   \* /api/debug/dac runs on the task that also serves the player

VARIABLES
  mutex,    \* s_play_mutex can be taken
  stop,     \* s_stop_flag
  handle,   \* s_audio_task is set
  testing,  \* s_dac_test_active
  dac,      \* who created the channel that drives the pad
  quietLeds, \* leds_set_audio_active
  clip,     \* where the task of the clip is, "none" without one
  pc,       \* where each caller is
  presses

vars == <<mutex, stop, handle, testing, dac, quietLeds, clip, pc, presses>>

Playing == {"parse", "leds", "start", "feed", "stop", "unled"}
Calling == {"take", "interrupt", "wait", "begin", "spawn",
            "t_look", "t_wait", "t_clear", "t_mode", "t_drive"}

TypeOk ==
  /\ mutex \in BOOLEAN /\ stop \in BOOLEAN /\ handle \in BOOLEAN
  /\ testing \in BOOLEAN /\ quietLeds \in BOOLEAN
  /\ dac \in {"off", "clip", "test"}
  /\ clip \in {"none", "exit", "give"} \union Playing
  /\ pc \in [Callers -> {"idle"} \union Calling]
  /\ presses \in 0..PressMax

\* audio_init, with audio enabled
Init ==
  /\ mutex = TRUE /\ stop = FALSE /\ handle = FALSE
  /\ testing = FALSE /\ dac = "off" /\ quietLeds = FALSE
  /\ clip = "none" /\ pc = [c \in Callers |-> "idle"] /\ presses = 0

Goto(c, at) == pc' = [pc EXCEPT ![c] = at]

-----------------------------------------------------------------------------
(* audio_play_file *)

Press(c) ==
  /\ pc[c] = "idle" /\ presses < PressMax
  /\ presses' = presses + 1
  /\ Goto(c, IF testing THEN "idle" ELSE "take")
  /\ UNCHANGED <<mutex, stop, handle, testing, dac, quietLeds, clip>>

Take(c) ==
  /\ pc[c] = "take"
  /\ mutex' = FALSE
  /\ Goto(c, IF mutex THEN "begin" ELSE "interrupt")
  /\ UNCHANGED <<stop, handle, testing, dac, quietLeds, clip, presses>>

\* The press interrupts the clip, then waits 700 ms for its end.
Interrupt(c) ==
  /\ pc[c] = "interrupt"
  /\ stop' = TRUE
  /\ Goto(c, "wait")
  /\ UNCHANGED <<mutex, handle, testing, dac, quietLeds, clip, presses>>

Taken(c) ==
  /\ pc[c] = "wait" /\ mutex
  /\ mutex' = FALSE
  /\ Goto(c, "begin")
  /\ UNCHANGED <<stop, handle, testing, dac, quietLeds, clip, presses>>

\* A clip that has been told to stop ends in time; one that has not may go on.
Overdue == clip = "feed" /\ ~stop

Dropped(c) ==
  /\ pc[c] = "wait" /\ Overdue
  /\ Goto(c, "idle")
  /\ UNCHANGED <<mutex, stop, handle, testing, dac, quietLeds, clip, presses>>

Begin(c) ==
  /\ pc[c] = "begin"
  /\ stop' = FALSE
  /\ Goto(c, "spawn")
  /\ UNCHANGED <<mutex, handle, testing, dac, quietLeds, clip, presses>>

\* `NotSpawned` without the give.
SlipNotSpawned == UNCHANGED mutex

\* Without memory for the task the mutex is given back.
NotSpawned == mutex' = TRUE
Spawn(c) ==
  /\ pc[c] = "spawn"
  /\ \/ clip' = "parse" /\ handle' = TRUE /\ UNCHANGED mutex
     \/ NotSpawned /\ UNCHANGED <<clip, handle>>
  /\ Goto(c, "idle")
  /\ UNCHANGED <<stop, testing, dac, quietLeds, presses>>

-----------------------------------------------------------------------------
(* audio_play_task *)

\* A file that is no WAV file ends the task; one that cannot be played goes
\* through the clean-up as well.
Parse ==
  /\ clip = "parse"
  /\ clip' \in {"leds", "stop", "exit"}
  /\ UNCHANGED <<mutex, stop, handle, testing, dac, quietLeds, pc, presses>>

LedsOff ==
  /\ clip = "leds"
  /\ quietLeds' = TRUE
  /\ clip' = "start"
  /\ UNCHANGED <<mutex, stop, handle, testing, dac, pc, presses>>

\* sw_dac_start: it fails when the channel exists already.
StartDac ==
  /\ clip = "start"
  /\ \/ dac = "off" /\ dac' = "clip" /\ clip' = "feed" /\ UNCHANGED quietLeds
     \/ clip' = "stop" /\ quietLeds' = FALSE /\ UNCHANGED dac
  /\ UNCHANGED <<mutex, stop, handle, testing, pc, presses>>

\* The clip has been heard, or has been interrupted.
Fed ==
  /\ clip = "feed"
  /\ clip' = "stop"
  /\ UNCHANGED <<mutex, stop, handle, testing, dac, quietLeds, pc, presses>>

\* sw_dac_stop deletes whatever channel there is.
StopDac ==
  /\ clip = "stop"
  /\ dac' = "off"
  /\ clip' = "unled"
  /\ UNCHANGED <<mutex, stop, handle, testing, quietLeds, pc, presses>>

LedsOn ==
  /\ clip = "unled"
  /\ quietLeds' = FALSE
  /\ clip' = "exit"
  /\ UNCHANGED <<mutex, stop, handle, testing, dac, pc, presses>>

\* `ClearHandle` that leaves the handle to the next clip.
SlipClearHandle ==
  /\ clip = "exit"
  /\ clip' = "give"
  /\ UNCHANGED <<mutex, stop, handle, testing, dac, quietLeds, pc, presses>>

\* The handle is cleared before the mutex is given.
ClearHandle ==
  /\ clip = "exit"
  /\ handle' = FALSE
  /\ clip' = "give"
  /\ UNCHANGED <<mutex, stop, testing, dac, quietLeds, pc, presses>>

GiveMutex ==
  /\ clip = "give"
  /\ mutex' = TRUE
  /\ clip' = "none"
  /\ UNCHANGED <<stop, handle, testing, dac, quietLeds, pc, presses>>

Play == Parse \/ LedsOff \/ StartDac \/ Fed \/ StopDac \/ LedsOn \/ ClearHandle \/ GiveMutex

-----------------------------------------------------------------------------
(* audio_dac_test_set *)

Test ==
  /\ pc[Tester] = "idle" /\ presses < PressMax
  /\ presses' = presses + 1
  /\ Goto(Tester, "t_look")
  /\ UNCHANGED <<mutex, stop, handle, testing, dac, quietLeds, clip>>

TestLooks ==
  /\ pc[Tester] = "t_look"
  /\ IF handle THEN stop' = TRUE /\ Goto(Tester, "t_wait")
               ELSE Goto(Tester, "t_mode") /\ UNCHANGED stop
  /\ UNCHANGED <<mutex, handle, testing, dac, quietLeds, clip, presses>>

\* The mutex is taken and given back: from here on nothing keeps a clip away.
TestWaits ==
  /\ pc[Tester] = "t_wait"
  /\ \/ mutex /\ Goto(Tester, "t_clear")
     \/ Overdue /\ Goto(Tester, "idle")
  /\ UNCHANGED <<mutex, stop, handle, testing, dac, quietLeds, clip, presses>>

TestClears ==
  /\ pc[Tester] = "t_clear"
  /\ stop' = FALSE
  /\ Goto(Tester, "t_mode")
  /\ UNCHANGED <<mutex, handle, testing, dac, quietLeds, clip, presses>>

\* "normal" ends the test; the other modes replace what was there, and "hiz"
\* leaves the pad an input.
TestMode(mode) ==
  /\ pc[Tester] = "t_mode"
  /\ dac' = IF mode = "normal" /\ ~testing THEN dac ELSE "off"
  /\ CASE mode = "normal" -> testing' = FALSE /\ Goto(Tester, "idle")
       [] mode = "hiz"    -> testing' = TRUE /\ Goto(Tester, "idle")
       [] mode = "drive"  -> UNCHANGED testing /\ Goto(Tester, "t_drive")
       [] mode = "other"  -> UNCHANGED testing /\ Goto(Tester, "idle")
  /\ UNCHANGED <<mutex, stop, handle, quietLeds, clip, presses>>

TestDrives ==
  /\ pc[Tester] = "t_drive"
  /\ \/ dac = "off" /\ dac' = "test" /\ testing' = TRUE
     \/ UNCHANGED <<dac, testing>>
  /\ Goto(Tester, "idle")
  /\ UNCHANGED <<mutex, stop, handle, quietLeds, clip, presses>>

Call(c) == Take(c) \/ Interrupt(c) \/ Taken(c) \/ Begin(c) \/ Spawn(c)
TestGoesOn ==
  \/ TestLooks \/ TestWaits \/ TestClears \/ TestDrives
  \/ \E m \in {"normal", "hiz", "drive", "other"} : TestMode(m)

Next ==
  \/ Play \/ Test \/ TestGoesOn
  \/ \E c \in Callers : Press(c) \/ Call(c) \/ Dropped(c)

\* The task of the clip, the highest of the application, goes on, and so does
\* every caller that is not waiting.
Fairness == WF_vars(Play) /\ WF_vars(TestGoesOn) /\ \A c \in Callers : WF_vars(Call(c))
Spec == Init /\ [][Next]_vars /\ Fairness
=============================================================================
