------------------------------- MODULE Sound -------------------------------
(***************************************************************************)
(* The loudspeaker and the LEDs.  In the room, AudioPlay darkens the LEDs  *)
(* while a clip plays, and Leds must catch up with what it missed: the two *)
(* share s_audio_active, quietLeds here, and nothing else.  In one clip,   *)
(* SampleFeed takes its samples from the play task to the output; that     *)
(* depends on nothing but the press that cuts it short, so a behaviour of  *)
(* this module is one of the room or of a clip, chosen at the start.       *)
(***************************************************************************)
EXTENDS Leds

CONSTANTS
  PressMax,
  InputMax,   \* bound: presses and changes together
  Total, Half, Spare, StallMax, Prompt

\* A half-buffer holds samples (SW_HALF_SAMPLES).
ASSUME SoundAssumption ==
  /\ PressMax \in Nat /\ Total \in Nat /\ Half \in Nat \ {0}
  /\ Spare \in Nat /\ StallMax \in Nat /\ Prompt \in BOOLEAN

VARIABLES
  part,
  mutex, stop, handle, testing, dac, clip, pc, presses,
  isr, half, notified, feed, cut, timer, stalls

audioVars == <<mutex, stop, handle, testing, dac, clip, pc, presses>>
audible == <<quietLeds, audioVars>>
clipVars == <<isr, half, notified, feed, cut, timer, stalls>>
allVars == <<part, audioVars, vars, clipVars>>

Audio == INSTANCE AudioPlay
Clip == INSTANCE SampleFeed WITH stop <- cut

AllTypeOk == part \in {"room", "clip"} /\ TypeOk /\ Audio!TypeOk /\ Clip!TypeOk

SoundInit == part \in {"room", "clip"} /\ Init /\ Audio!Init /\ Clip!Init

ClipOver == feed.pc = "over" /\ UNCHANGED clipVars

SoundNext ==
  /\ UNCHANGED part
  /\ \/ /\ part = "room" /\ UNCHANGED clipVars
        /\ \/ Audio!Next /\ UNCHANGED ledVars
           \/ LedStep /\ UNCHANGED audioVars
        /\ presses' + changes' <= InputMax
     \/ part = "clip" /\ (Clip!Next \/ ClipOver) /\ UNCHANGED <<audioVars, vars>>

\* The fairness of Leds, AudioPlay and SampleFeed, for the part that runs.
Fairness ==
  /\ WF_vars(part = "room" /\ LedTask)
  /\ WF_vars(part = "room" /\ StrikeEnds)
  /\ WF_audible(part = "room" /\ Audio!Play)
  /\ WF_audible(part = "room" /\ Audio!TestGoesOn)
  /\ \A c \in Audio!Callers : WF_audible(part = "room" /\ Audio!Call(c))
  /\ WF_clipVars(part = "clip" /\ Clip!Feed)
  /\ WF_clipVars(part = "clip" /\ Clip!Alarm)

Spec == SoundInit /\ [][SoundNext]_allVars /\ Fairness

-----------------------------------------------------------------------------
\* s_audio_task says exactly whether a task of a clip exists, so that
\* audio_dac_test_set, which looks at it, misses no clip that has begun; and
\* s_play_mutex is free only when no clip plays and no press is about to start one.
ClipAccounted ==
  /\ handle <=> clip \notin {"none", "give"}
  /\ mutex => clip = "none" /\ \A c \in Audio!Callers : pc[c] \notin {"begin", "spawn"}

\* A press that had to wait, a clip that could not be played or a failed task
\* never leave the loudspeaker taken: later presses are heard.
MutexReturns == ~mutex ~> mutex

\* Once the last clip, flash, packet and change are over, the static look, the one
\* that is transmitted a single time, is on the strip: nothing that happened
\* meanwhile is missed, and no clip leaves the LEDs dark.  Two cases are named:
\* a static frame that was lost or drawn over by WLED, and a flash left lit.
LedsCatchUp ==
  <>[](part = "room" /\ led.pc = "flash" /\ Driver(conf) = "static" => strip = Wanted \/ lost \/ flash)


\* The interrupt and the feed loop of audio_play_task play a clip as Stream
\* promises: every sample once and in order, the timer stopped at the last one
\* or when a press interrupts, and the end is reached.
Promise == INSTANCE Stream WITH heard <- isr.last, over <- ~timer
PlaysTheClip == Promise!InOrder /\ <>(timer => part = "room")
=============================================================================
