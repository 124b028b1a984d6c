---------------------------- MODULE Sound_proofs ----------------------------
(***************************************************************************)
(* Proofs about Sound: who may use the loudspeaker (AudioPlay), for any    *)
(* number of presses, and that the sample clock (SampleFeed) implements    *)
(* Stream, for a clip and half-buffers of any length.                      *)
(*                                                                         *)
(* RoomInv counts the holders of s_play_mutex.  ClipInv relates the two    *)
(* halves: Now, the one the interrupt plays, and Other, which holds what     *)
(* follows or is being refilled with that.                                 *)
(***************************************************************************)
EXTENDS Sound, Integers, TLAPS

\* Whoever plays, or is about to, is alone and holds the mutex.
Busy(c) == pc[c] \in {"begin", "spawn"}
RoomInv ==
  /\ DOMAIN pc = Audio!Callers
  /\ ClipAccounted
  /\ clip # "none" => \A c \in Audio!Callers : ~Busy(c)
  /\ \A c, d \in Audio!Callers : Busy(c) /\ Busy(d) => c = d

-----------------------------------------------------------------------------
Now == isr.cur
Other == 1 - isr.cur
Filling == feed.pc \in {"copy", "length", "clear"}

\* The interrupt plays half Now; its samples end where the clip is loaded up to, or
\* where the other begins.
PlayInv ==
  /\ ~half[Now].need
  /\ IF half[Now].len > 0 THEN isr.last = half[Now].from + isr.pos
                        ELSE isr.pos = 0 /\ isr.last = Total
  /\ half[Other].need => feed.pos = IF half[Now].len > 0 THEN half[Now].from + half[Now].len ELSE Total
  /\ ~half[Other].need /\ half[Other].len > 0 =>
       /\ half[Now].len > 0 /\ half[Other].from = half[Now].from + half[Now].len
       /\ feed.pos = half[Other].from + half[Other].len
  /\ ~half[Other].need /\ half[Other].len = 0 =>
       /\ feed.pos = Total
       /\ half[Now].len > 0 => half[Now].from + half[Now].len = Total

\* What the task has done of the refill of the other, and that it is told of each.
FillInv ==
  /\ Filling => feed.h = Other /\ half[Other].need
  /\ feed.pc = "length" /\ Clip!Part(feed.pos) > 0 => half[Other].from = feed.pos
  /\ feed.pc = "clear" => /\ half[Other].len = Clip!Part(feed.pos)
                          /\ half[Other].len > 0 => half[Other].from = feed.pos
  /\ half[Other].need /\ (feed.pc = "wait" \/ (feed.pc = "scan" /\ feed.h > Other)) => notified

\* feed.live tells when the last sample has been heard.
LiveInv ==
  /\ half[Now].len > 0 => feed.live = 1 + (IF half[Other].need \/ half[Other].len > 0 THEN 1 ELSE 0)
  /\ half[Now].len = 0 /\ half[Other].len > 0 => half[Other].need /\ feed.live = 1
  /\ feed.pc = "scan" \/ Filling => feed.live >= 1 - feed.h
  /\ feed.live \in -1..2

\* How many waits a notification has ended, out of the rounds the loop has.
Rounds == Total \div Half + Spare - feed.guard - stalls
Told == Rounds + (IF notified THEN 1 ELSE 0)
GuardInv ==
  /\ Rounds \in Nat /\ stalls <= StallMax
  /\ half[Now].len > 0 => Told * Half <= half[Now].from
  /\ half[Now].len = 0 /\ half[Other].len > 0
       => half[Other].from < Total /\ Told * Half <= half[Other].from + Half

\* A half holds samples of the clip, and is full unless they are its last.
Holds(h) ==
  /\ half[h].from + half[h].len <= Total
  /\ half[h].len > 0 /\ half[h].from + half[h].len < Total => half[h].len = Half

LoopInv == feed.pc \in Clip!Loop =>
  /\ isr.run /\ PlayInv /\ FillInv /\ LiveInv /\ GuardInv
  /\ Holds(Now) /\ (feed.pc # "length" => Holds(Other))
  /\ isr.pos <= half[Now].len
EndInv ==
  /\ feed.pc = "start" => /\ ~isr.run /\ isr.cur = 0 /\ isr.pos = 0 /\ isr.last = 0
                          /\ ~notified /\ stalls = 0
  /\ feed.pc = "settle" => Holds(0) /\ Holds(1)
  /\ feed.pc = "settle" /\ ~cut => isr.last = Total /\ half[0].len = 0 /\ half[1].len = 0
  /\ timer <=> feed.pc # "over"
ClipInv == Clip!TypeOk /\ LoopInv /\ EndInv
-----------------------------------------------------------------------------
(* Arithmetic of halves, rounds and parts. *)

LEMMA Rounding ==
  /\ \A a, b \in Nat : a <= b + 1 => a * Half <= b * Half + Half
  /\ \A a, b \in Nat : a <= b => a * Half <= b * Half
  /\ \A r \in Nat : r * Half <= Total => r <= Total \div Half
  /\ Total \div Half \in Nat
<1> USE SoundAssumption
<1>1. ASSUME NEW a \in Nat, NEW b \in Nat, a <= b PROVE a * Half <= b * Half
  <2>1. PICK d \in Nat : b = a + d
    <3>1. b - a \in Nat /\ b = a + (b - a)
      BY <1>1
    <3> QED BY <3>1
  <2>2. (a + d) * Half = a * Half + d * Half
    OBVIOUS
  <2>3. d * Half \in Nat /\ a * Half \in Nat
    OBVIOUS
  <2> QED BY <2>1, <2>2, <2>3
<1>2. ASSUME NEW a \in Nat, NEW b \in Nat, a <= b + 1 PROVE a * Half <= b * Half + Half
  <2>1. a * Half <= (b + 1) * Half
    BY <1>1, <1>2
  <2> QED BY <2>1
<1>3. Total \div Half \in Nat /\ Total < (Total \div Half + 1) * Half
  OBVIOUS
<1>4. ASSUME NEW r \in Nat, r * Half <= Total PROVE r <= Total \div Half
  <2>1. SUFFICES ASSUME r > Total \div Half PROVE FALSE
    BY <1>3
  <2>2. (Total \div Half + 1) * Half <= r * Half
    BY <1>1, <1>3, <2>1
  <2> QED BY <1>3, <1>4, <2>2
<1> QED BY <1>1, <1>2, <1>3, <1>4

LEMMA Parts ==
  \A n \in 0..Total :
    /\ Clip!Part(n) \in 0..Half /\ n + Clip!Part(n) \in 0..Total
    /\ Clip!Part(n) = 0 <=> n = Total
    /\ n + Clip!Part(n) < Total => Clip!Part(n) = Half
BY SoundAssumption DEF Clip!Part, Clip!Min2

-----------------------------------------------------------------------------
(* The interrupt. *)

IsrOk == isr \in [run : BOOLEAN, cur : 0..1, pos : 0..Half, last : 0..Total]
HalfOk == half \in [0..1 -> [from : 0..Total, len : 0..Half, need : BOOLEAN]]
FeedOk == feed \in [pc : Clip!Loop \union {"start", "settle", "over"}, h : 0..2, pos : 0..Total,
                    live : -1..2, guard : Nat]
FlagsOk == notified \in BOOLEAN /\ cut \in BOOLEAN /\ timer \in BOOLEAN /\ stalls \in 0..StallMax

\* It goes on with the half it plays, or turns to the other one.
Continues ==
  /\ isr.pos < half[Now].len
  /\ isr' = [isr EXCEPT !.pos = isr.pos + 1, !.last = half[Now].from + isr.pos + 1]
  /\ UNCHANGED <<half, notified, feed, cut, timer, stalls>>
Turns ==
  /\ isr.pos >= half[Now].len
  /\ half' = [half EXCEPT ![Now] = [half[Now] EXCEPT !.need = TRUE]]
  /\ notified' = TRUE
  /\ isr' = IF half[Other].len = 0 THEN [isr EXCEPT !.cur = Other, !.pos = 0]
             ELSE [isr EXCEPT !.cur = Other, !.pos = 1, !.last = half[Other].from + 1]
  /\ UNCHANGED <<feed, cut, timer, stalls>>

LEMMA AlarmCases ==
  ASSUME Clip!TypeOk, Clip!Alarm
  PROVE  Continues \/ Turns
<1> USE DEF Clip!TypeOk, Clip!Alarm, Clip!Emit, Now, Other
<1>1. CASE isr.pos < half[isr.cur].len
  <2>1. isr' = [isr EXCEPT !.cur = isr.cur, !.pos = isr.pos + 1, !.last = half[isr.cur].from + isr.pos + 1]
    BY <1>1
  <2>2. isr' = [isr EXCEPT !.pos = isr.pos + 1, !.last = half[isr.cur].from + isr.pos + 1]
    BY <2>1
  <2> QED BY <1>1, <2>2 DEF Continues
<1>2. CASE ~(isr.pos < half[isr.cur].len)
  <2>0. half[1 - isr.cur].from + 0 + 1 = half[1 - isr.cur].from + 1 /\ 0 + 1 = 1
    OBVIOUS
  <2>1. isr' = IF half[1 - isr.cur].len = 0 THEN [isr EXCEPT !.cur = 1 - isr.cur, !.pos = 0]
               ELSE [isr EXCEPT !.cur = 1 - isr.cur, !.pos = 1, !.last = half[1 - isr.cur].from + 1]
    BY <1>2, <2>0, Zenon
  <2>2. half' = [half EXCEPT ![isr.cur] = [half[isr.cur] EXCEPT !.need = TRUE]]
    BY <1>2
  <2> QED BY <1>2, <2>1, <2>2 DEF Turns
<1> QED BY <1>1, <1>2

LEMMA IsrFields ==
  ASSUME IsrOk, NEW h \in 0..1, NEW n \in 0..Half, NEW l \in 0..Total
  PROVE  /\ [isr EXCEPT !.pos = n, !.last = l] \in [run : BOOLEAN, cur : 0..1, pos : 0..Half, last : 0..Total]
         /\ [isr EXCEPT !.cur = h, !.pos = n] \in [run : BOOLEAN, cur : 0..1, pos : 0..Half, last : 0..Total]
         /\ [isr EXCEPT !.cur = h, !.pos = n, !.last = l]
               \in [run : BOOLEAN, cur : 0..1, pos : 0..Half, last : 0..Total]
<1>1. [isr EXCEPT !.pos = n, !.last = l] \in [run : BOOLEAN, cur : 0..1, pos : 0..Half, last : 0..Total]
  BY DEF IsrOk
<1>2. [isr EXCEPT !.cur = h, !.pos = n] \in [run : BOOLEAN, cur : 0..1, pos : 0..Half, last : 0..Total]
  BY DEF IsrOk
<1>3. [isr EXCEPT !.cur = h, !.pos = n, !.last = l]
        \in [run : BOOLEAN, cur : 0..1, pos : 0..Half, last : 0..Total]
  BY DEF IsrOk
<1> QED BY <1>1, <1>2, <1>3

LEMMA TypeParts == Clip!TypeOk <=> IsrOk /\ HalfOk /\ FeedOk /\ FlagsOk
BY DEF Clip!TypeOk, IsrOk, HalfOk, FeedOk, FlagsOk

LEMMA ContinuesStep == ASSUME ClipInv, Continues, timer, isr.run PROVE ClipInv'
<1> USE SoundAssumption DEF Now, Other
<1>0. IsrOk /\ HalfOk /\ FeedOk /\ FlagsOk
  BY TypeParts DEF ClipInv
<1>1. /\ feed.pc # "start" /\ feed.pc # "over"
      /\ isr.pos + 1 \in 0..Half /\ half[isr.cur].from + isr.pos + 1 \in 0..Total
  BY <1>0 DEF ClipInv, EndInv, LoopInv, Holds, Clip!Loop, Continues, IsrOk, HalfOk, FeedOk
<1>2. /\ isr'.run = isr.run /\ isr'.cur = isr.cur /\ isr'.pos = isr.pos + 1
      /\ isr'.last = half[isr.cur].from + isr.pos + 1
  BY <1>0 DEF Continues, IsrOk
<1>3. IsrOk' /\ HalfOk' /\ FeedOk' /\ FlagsOk'
  <2>1. IsrOk'
    BY <1>0, <1>1, IsrFields DEF Continues, IsrOk
  <2> QED BY <1>0, <2>1 DEF Continues, HalfOk, FeedOk, FlagsOk
<1>4. ASSUME feed.pc \in Clip!Loop
      PROVE  PlayInv' /\ FillInv' /\ LiveInv' /\ GuardInv'
  <2> USE DEF ClipInv, LoopInv, Continues
  <2>1. PlayInv'
    BY <1>0, <1>1, <1>2, <1>4 DEF PlayInv, IsrOk, HalfOk
  <2>2. FillInv' /\ LiveInv'
    BY <1>0, <1>1, <1>2, <1>4 DEF FillInv, Filling, LiveInv
  <2>3. GuardInv'
    BY <1>0, <1>1, <1>2, <1>4 DEF GuardInv, Rounds, Told
  <2> QED BY <2>1, <2>2, <2>3
<1>4a. LoopInv'
  BY <1>0, <1>1, <1>2, <1>4 DEF ClipInv, LoopInv, Holds, Continues, IsrOk, HalfOk, FeedOk, FlagsOk
<1>5. EndInv'
  BY <1>0, <1>1, <1>2 DEF ClipInv, EndInv, Holds, Continues, IsrOk, HalfOk, FeedOk, FlagsOk
<1> QED BY <1>3, <1>4a, <1>5 DEF ClipInv, Clip!TypeOk, IsrOk, HalfOk, FeedOk, FlagsOk

\* With a task that keeps up, no half is played that is being refilled.
LEMMA TurnsStep ==
  ASSUME ClipInv, Turns, timer, isr.run, ~Clip!Behind
  PROVE  ClipInv'
<1> USE SoundAssumption DEF Now, Other
<1>0. IsrOk /\ HalfOk /\ FeedOk /\ FlagsOk
  BY TypeParts DEF ClipInv
<1>1. /\ feed.pc # "start" /\ feed.pc # "over"
      /\ half[1 - isr.cur].len > 0 => half[1 - isr.cur].from + 1 \in 0..Total
      /\ feed.pc \in Clip!Loop => ~half[1 - isr.cur].need
  BY <1>0 DEF ClipInv, EndInv, LoopInv, Holds, Clip!Loop, Clip!Behind, FillInv, Filling, Turns, IsrOk,
     HalfOk, FeedOk
<1>2. /\ isr'.run = isr.run /\ isr'.cur = 1 - isr.cur /\ isr'.cur \in 0..1
      /\ half[1 - isr.cur].len = 0 => isr'.pos = 0 /\ isr'.last = isr.last
      /\ half[1 - isr.cur].len > 0 => isr'.pos = 1 /\ isr'.last = half[1 - isr.cur].from + 1
  <2>1. CASE half[1 - isr.cur].len = 0
    <3>1. isr' = [isr EXCEPT !.cur = 1 - isr.cur, !.pos = 0]
      BY <2>1 DEF Turns
    <3>2. isr'.run = isr.run /\ isr'.cur = 1 - isr.cur /\ isr'.pos = 0 /\ isr'.last = isr.last
      BY <1>0, <3>1, Zenon DEF IsrOk
    <3> QED BY <1>0, <2>1, <3>2 DEF IsrOk
  <2>2. CASE half[1 - isr.cur].len # 0
    <3>1. isr' = [isr EXCEPT !.cur = 1 - isr.cur, !.pos = 1, !.last = half[1 - isr.cur].from + 1]
      BY <2>2 DEF Turns
    <3>2. isr'.run = isr.run /\ isr'.cur = 1 - isr.cur /\ isr'.pos = 1
          /\ isr'.last = half[1 - isr.cur].from + 1
      BY <1>0, <3>1, Zenon DEF IsrOk
    <3> QED BY <1>0, <2>2, <3>2 DEF IsrOk
  <2> QED BY <2>1, <2>2
<1>3. /\ half'[1 - isr.cur] = half[1 - isr.cur] /\ half'[isr.cur].need
      /\ half'[isr.cur].from = half[isr.cur].from /\ half'[isr.cur].len = half[isr.cur].len
  BY <1>0 DEF Turns, IsrOk, HalfOk
<1>4. IsrOk' /\ HalfOk' /\ FeedOk' /\ FlagsOk'
  <2>1. IsrOk'
    <3>1. 1 - isr.cur \in 0..1 /\ 0 \in 0..Half /\ 1 \in 0..Half /\ half[1 - isr.cur].len \in 0..Half
      BY <1>0 DEF IsrOk, HalfOk
    <3>2. CASE half[1 - isr.cur].len = 0
      <4>1. isr' = [isr EXCEPT !.cur = 1 - isr.cur, !.pos = 0] /\ isr.last \in 0..Total
        BY <1>0, <3>2 DEF Turns, IsrOk
      <4> QED BY <1>0, <3>1, <4>1, IsrFields DEF IsrOk
    <3>3. CASE half[1 - isr.cur].len # 0
      <4>1. isr' = [isr EXCEPT !.cur = 1 - isr.cur, !.pos = 1, !.last = half[1 - isr.cur].from + 1]
        BY <3>3 DEF Turns
      <4>2. half[1 - isr.cur].from + 1 \in 0..Total
        BY <1>1, <3>1, <3>3
      <4> QED BY <1>0, <3>1, <4>1, <4>2, IsrFields DEF IsrOk
    <3> QED BY <3>2, <3>3
  <2>2. HalfOk'
    BY <1>0 DEF Turns, HalfOk, IsrOk
  <2> QED BY <1>0, <2>1, <2>2 DEF Turns, FeedOk, FlagsOk
<1>5. ASSUME feed.pc \in Clip!Loop
      PROVE  PlayInv' /\ FillInv' /\ LiveInv' /\ GuardInv'
  <2> USE DEF ClipInv, LoopInv, Turns, IsrOk, HalfOk, FeedOk, FlagsOk
  <2>1. PlayInv'
    <3>1. 1 - isr'.cur = isr.cur /\ isr'.cur = 1 - isr.cur /\ feed' = feed
      BY <1>0, <1>2 DEF Turns, IsrOk
    <3>2. ~half'[1 - isr.cur].need
      BY <1>1, <1>3, <1>5
    <3>3. IF half'[1 - isr.cur].len > 0
          THEN isr'.last = half'[1 - isr.cur].from + isr'.pos
          ELSE isr'.pos = 0 /\ isr'.last = Total
      <4>1. CASE half[1 - isr.cur].len > 0
        BY <1>0, <1>2, <1>3, <4>1
      <4>2. CASE half[1 - isr.cur].len = 0
        <5>1. isr.last = Total
          BY <1>0, <1>1, <1>5, <4>2 DEF PlayInv
        <5> QED BY <1>0, <1>2, <1>3, <4>2, <5>1
      <4> QED BY <1>0, <4>1, <4>2
    <3>4. feed.pos = IF half'[1 - isr.cur].len > 0
                     THEN half'[1 - isr.cur].from + half'[1 - isr.cur].len ELSE Total
      BY <1>0, <1>1, <1>3, <1>5 DEF PlayInv
    <3> QED BY <1>3, <3>1, <3>2, <3>3, <3>4 DEF PlayInv
  <2>2. FillInv'
    BY <1>0, <1>1, <1>2, <1>3, <1>5 DEF FillInv, Filling
  <2>3. LiveInv'
    <3>1. half'[1 - isr.cur].len > 0 => half[isr.cur].len > 0 /\ feed.live = 2
      BY <1>0, <1>1, <1>3, <1>5 DEF LiveInv, PlayInv
    <3>2. half'[1 - isr.cur].len = 0 /\ half[isr.cur].len > 0 => feed.live = 1
      BY <1>0, <1>1, <1>3, <1>5 DEF LiveInv
    <3> QED BY <1>0, <1>1, <1>2, <1>3, <1>5, <3>1, <3>2 DEF LiveInv, Filling
  <2>4. GuardInv'
    <3>1. /\ Rounds' = Rounds /\ Told' = Rounds + 1 /\ Told \in Nat /\ Told' \in Nat /\ Told' <= Told + 1
          /\ Rounds \in Nat /\ stalls <= StallMax
      BY <1>0, <1>5, Rounding DEF GuardInv, Rounds, Told
    <3>2. Told' * Half <= Told * Half + Half
      BY <3>1, Rounding
    <3>3. half[1 - isr.cur].len > 0 =>
             half[isr.cur].len = Half /\ half[1 - isr.cur].from = half[isr.cur].from + Half
      BY <1>0, <1>1, <1>5 DEF PlayInv, Holds
    <3>4. half[1 - isr.cur].len = 0 /\ half[isr.cur].len > 0 => half[isr.cur].from < Total
      BY <1>0, <1>1, <1>5 DEF PlayInv
    <3>5. half[isr.cur].len > 0 => Told * Half <= half[isr.cur].from
      BY <1>5 DEF GuardInv
    <3>6. half'[1 - isr.cur].len > 0 => Told' * Half <= half'[1 - isr.cur].from
      BY <1>0, <1>3, <3>1, <3>2, <3>3, <3>5
    <3>7. half'[1 - isr.cur].len = 0 /\ half'[isr.cur].len > 0
            => half'[isr.cur].from < Total /\ Told' * Half <= half'[isr.cur].from + Half
      BY <1>0, <1>3, <3>1, <3>2, <3>4, <3>5
    <3>8. 1 - isr'.cur = isr.cur
      BY <1>0, <1>2
    <3> QED BY <1>2, <3>1, <3>6, <3>7, <3>8 DEF GuardInv
  <2> QED BY <2>1, <2>2, <2>3, <2>4
<1>6. LoopInv'
  <2>1. SUFFICES ASSUME feed.pc \in Clip!Loop
                 PROVE  /\ isr'.run /\ (Holds(Now))' /\ (feed.pc # "length" => (Holds(Other))')
                        /\ isr'.pos <= half'[isr'.cur].len
    BY <1>5 DEF LoopInv, Turns
  <2>2. feed.pc # "length" /\ Holds(isr.cur) /\ Holds(1 - isr.cur)
    BY <1>1, <2>1 DEF ClipInv, LoopInv, FillInv, Filling
  <2>3. 1 - isr'.cur = isr.cur /\ half[1 - isr.cur].len \in Nat
    BY <1>0, <1>2 DEF IsrOk, HalfOk
  <2> QED BY <1>2, <1>3, <2>2, <2>3 DEF Holds
<1>7. EndInv'
  BY <1>0, <1>1, <1>2, <1>3 DEF ClipInv, EndInv, Holds, Turns, IsrOk, HalfOk, FeedOk, FlagsOk
<1> QED BY <1>4, <1>6, <1>7 DEF ClipInv, Clip!TypeOk, IsrOk, HalfOk, FeedOk, FlagsOk

-----------------------------------------------------------------------------
(* The task. *)

Feeding == [pc : Clip!Loop \union {"start", "settle", "over"}, h : 0..2, pos : 0..Total,
            live : -1..2, guard : Nat]

\* What a step may leave alone.
Quiet == UNCHANGED <<isr, notified, cut, timer, stalls>>

LEMMA PrimeStep == ASSUME ClipInv, Clip!Prime PROVE ClipInv'
<1> USE SoundAssumption
<1>0. IsrOk /\ HalfOk /\ FeedOk /\ FlagsOk
  BY TypeParts DEF ClipInv
<1> DEFINE n0 == Clip!Part(0)
           n1 == Clip!Part(n0)
<1>1. /\ n0 \in 0..Half /\ n1 \in 0..Half /\ n0 \in 0..Total /\ n0 + n1 \in 0..Total
      /\ n0 = 0 <=> Total = 0
      /\ n1 = 0 <=> n0 = Total
      /\ n0 < Total => n0 = Half
      /\ n0 + n1 < Total => n1 = Half
  <2>1. 0 \in 0..Total
    OBVIOUS
  <2>2. /\ n0 \in 0..Half /\ 0 + n0 \in 0..Total /\ (n0 = 0 <=> 0 = Total)
        /\ (0 + n0 < Total => n0 = Half)
    BY <2>1, Parts
  <2>3. 0 + n0 = n0 /\ n0 \in 0..Total
    BY <2>2
  <2>4. /\ n1 \in 0..Half /\ n0 + n1 \in 0..Total /\ (n1 = 0 <=> n0 = Total)
        /\ (n0 + n1 < Total => n1 = Half)
    BY <2>3, Parts
  <2> QED BY <2>2, <2>3, <2>4
<1>2. /\ half' = [h \in 0..1 |-> [from |-> IF h = 0 THEN 0 ELSE n0, len |-> IF h = 0 THEN n0 ELSE n1,
                                 need |-> FALSE]]
      /\ feed' = [pc |-> "wait", h |-> 0, pos |-> n0 + n1,
                  live |-> (IF n0 > 0 THEN 1 ELSE 0) + (IF n1 > 0 THEN 1 ELSE 0),
                  guard |-> Total \div Half + Spare]
      /\ isr' = [isr EXCEPT !.run = TRUE]
      /\ UNCHANGED <<notified, cut, timer, stalls>> /\ feed.pc = "start"
  BY DEF Clip!Prime
<1> HIDE DEF n0, n1
<1>3. /\ half'[0] = [from |-> 0, len |-> n0, need |-> FALSE]
      /\ half'[1] = [from |-> n0, len |-> n1, need |-> FALSE]
  BY <1>2
<1>4. isr'.run /\ isr'.cur = isr.cur /\ isr'.pos = isr.pos /\ isr'.last = isr.last
  BY <1>0, <1>2 DEF IsrOk
<1>5. IsrOk' /\ HalfOk' /\ FeedOk' /\ FlagsOk'
  <2>1. IsrOk'
    BY <1>0, <1>2 DEF IsrOk
  <2>2. HalfOk'
    BY <1>1, <1>2 DEF HalfOk
  <2>3. FeedOk'
    <3> DEFINE live == (IF n0 > 0 THEN 1 ELSE 0) + (IF n1 > 0 THEN 1 ELSE 0)
    <3>1. live \in -1..2 /\ Total \div Half + Spare \in Nat /\ 0 \in 0..2
      BY <1>1, Rounding
    <3>2. "wait" \in Clip!Loop
      BY DEF Clip!Loop
    <3>3. feed' = [pc |-> "wait", h |-> 0, pos |-> n0 + n1, live |-> live,
                   guard |-> Total \div Half + Spare]
      BY <1>2
    <3> HIDE DEF live
    <3> QED BY <1>1, <3>1, <3>2, <3>3 DEF FeedOk
  <2>4. FlagsOk'
    BY <1>0, <1>2 DEF FlagsOk
  <2> QED BY <2>1, <2>2, <2>3, <2>4
<1>6. EndInv'
  BY <1>2 DEF ClipInv, EndInv
<1>7. isr.cur = 0 /\ isr.pos = 0 /\ isr.last = 0 /\ stalls = 0 /\ notified = FALSE
  BY <1>2 DEF ClipInv, EndInv
<1>8. /\ Now' = 0 /\ Other' = 1 /\ feed'.pc = "wait" /\ feed'.h = 0 /\ feed'.pos = n0 + n1
      /\ feed'.live = (IF n0 > 0 THEN 1 ELSE 0) + (IF n1 > 0 THEN 1 ELSE 0)
      /\ feed'.guard = Total \div Half + Spare
  BY <1>2, <1>4, <1>7 DEF Now, Other
<1>9. PlayInv'
  BY <1>1, <1>3, <1>4, <1>7, <1>8 DEF PlayInv
<1>10. FillInv' /\ LiveInv'
  BY <1>1, <1>3, <1>8 DEF FillInv, LiveInv, Filling
<1>11. GuardInv'
  BY <1>1, <1>2, <1>3, <1>7, <1>8, Rounding DEF GuardInv, Rounds, Told
<1>12. LoopInv'
  BY <1>1, <1>3, <1>4, <1>7, <1>8, <1>9, <1>10, <1>11 DEF LoopInv, Holds
<1> QED BY <1>5, <1>6, <1>12 DEF ClipInv, Clip!TypeOk, IsrOk, HalfOk, FeedOk, FlagsOk

\* A step of the task that writes neither half, nor what the loop counts.
LEMMA WaitStep == ASSUME ClipInv, Clip!Wait PROVE ClipInv'
<1> USE SoundAssumption
<1>0. IsrOk /\ HalfOk /\ FeedOk /\ FlagsOk
  BY TypeParts DEF ClipInv
<1>1. /\ feed.pc = "wait" /\ feed.guard > 0 /\ feed.live > 0 /\ UNCHANGED <<isr, half, cut, timer>>
      /\ feed' = [feed EXCEPT !.pc = "scan", !.h = 0, !.guard = feed.guard - 1]
      /\ \/ notified /\ notified' = FALSE /\ stalls' = stalls
         \/ ~notified /\ stalls < StallMax /\ stalls' = stalls + 1 /\ notified' = notified
  BY DEF Clip!Wait, Clip!LoopAgain
<1>2. /\ feed'.pc = "scan" /\ feed'.h = 0 /\ feed'.guard = feed.guard - 1
      /\ feed'.pos = feed.pos /\ feed'.live = feed.live
  BY <1>0, <1>1, Zenon DEF FeedOk
<1>3. FeedOk'
  <2>1. "scan" \in Clip!Loop /\ 0 \in 0..2 /\ feed.guard - 1 \in Nat
    BY <1>0, <1>1 DEF FeedOk, Clip!Loop
  <2>2. [feed EXCEPT !.pc = "scan", !.h = 0, !.guard = feed.guard - 1] \in Feeding
    BY <1>0, <2>1 DEF FeedOk, Feeding
  <2> QED BY <1>1, <2>2 DEF FeedOk, Feeding
<1>4. IsrOk' /\ HalfOk' /\ FlagsOk'
  <2>1. notified' \in BOOLEAN
    BY <1>0, <1>1, Zenon DEF FlagsOk
  <2>2. stalls' \in 0..StallMax
    BY <1>0, <1>1 DEF FlagsOk
  <2> QED BY <1>0, <1>1, <2>1, <2>2 DEF IsrOk, HalfOk, FlagsOk
<1>5. "wait" \in Clip!Loop /\ "scan" \in Clip!Loop
  BY DEF Clip!Loop
<1>6. Now' = Now /\ Other' = Other /\ Now \in 0..1 /\ Other \in 0..1
  BY <1>0, <1>1 DEF Now, Other, IsrOk
<1>7. PlayInv /\ FillInv /\ LiveInv /\ GuardInv /\ Holds(Now) /\ Holds(Other) /\ isr.run
      /\ isr.pos <= half[Now].len
  BY <1>1, <1>5 DEF ClipInv, LoopInv
<1>8. PlayInv'
  BY <1>1, <1>2, <1>6, <1>7 DEF PlayInv
<1>9. FillInv' /\ LiveInv'
  BY <1>1, <1>2, <1>6, <1>7 DEF FillInv, LiveInv, Filling
<1>10. GuardInv'
  <2>1. Told' = Told /\ Rounds' \in Nat /\ stalls' <= StallMax
    BY <1>0, <1>1, <1>2, <1>7, Rounding DEF GuardInv, Told, Rounds, FeedOk, FlagsOk
  <2> QED BY <1>1, <1>6, <1>7, <2>1 DEF GuardInv
<1>11. LoopInv' /\ EndInv'
  BY <1>1, <1>2, <1>6, <1>7, <1>8, <1>9, <1>10 DEF LoopInv, EndInv, Holds, ClipInv
<1> QED BY <1>3, <1>4, <1>11 DEF ClipInv, Clip!TypeOk, IsrOk, HalfOk, FeedOk, FlagsOk

\* What the steps of the loop start from.
LEMMA InLoop ==
  ASSUME ClipInv, feed.pc \in Clip!Loop
  PROVE  /\ PlayInv /\ FillInv /\ LiveInv /\ GuardInv /\ isr.run /\ timer
         /\ Holds(Now) /\ (feed.pc # "length" => Holds(Other)) /\ isr.pos <= half[Now].len
         /\ Now \in 0..1 /\ Other \in 0..1 /\ Now # Other
         /\ IsrOk /\ HalfOk /\ FeedOk /\ FlagsOk
BY TypeParts DEF ClipInv, LoopInv, EndInv, Clip!Loop, IsrOk, Now, Other

LEMMA LoopPcs == Clip!Loop = {"wait", "scan", "copy", "length", "clear"}
BY DEF Clip!Loop

LEMMA ScanStep == ASSUME ClipInv, Clip!Scan PROVE ClipInv'
<1> USE SoundAssumption
<1>1. feed.pc = "scan" /\ UNCHANGED <<isr, half, notified, cut, timer, stalls>>
  BY DEF Clip!Scan
<1>2. /\ PlayInv /\ FillInv /\ LiveInv /\ GuardInv /\ isr.run /\ timer
      /\ Holds(Now) /\ Holds(Other) /\ isr.pos <= half[Now].len
      /\ Now \in 0..1 /\ Other \in 0..1 /\ Now # Other
      /\ IsrOk /\ HalfOk /\ FeedOk /\ FlagsOk
  BY <1>1, InLoop, LoopPcs
<1>3. /\ feed'.pos = feed.pos /\ feed'.live = feed.live /\ feed'.guard = feed.guard
      /\ \/ feed.h = 2 /\ feed'.pc = "wait" /\ feed'.h = 0
         \/ feed.h \in 0..1 /\ half[feed.h].need /\ feed'.pc = "copy" /\ feed'.h = feed.h
         \/ feed.h \in 0..1 /\ ~half[feed.h].need /\ feed'.pc = "scan" /\ feed'.h = feed.h + 1
      /\ FeedOk'
  <2>1. CASE feed.h = 2
    <3>1. feed' = [feed EXCEPT !.pc = "wait", !.h = 0]
      BY <2>1 DEF Clip!Scan
    <3>2. [feed EXCEPT !.pc = "wait", !.h = 0] \in Feeding
      <4>1. "wait" \in Clip!Loop /\ 0 \in 0..2
        BY LoopPcs
      <4> QED BY <1>2, <4>1 DEF FeedOk, Feeding
    <3>3. feed'.pc = "wait" /\ feed'.h = 0 /\ feed'.pos = feed.pos /\ feed'.live = feed.live
          /\ feed'.guard = feed.guard
      BY <1>2, <3>1, Zenon DEF FeedOk
    <3> QED BY <2>1, <3>1, <3>2, <3>3 DEF FeedOk, Feeding
  <2>2. CASE feed.h # 2 /\ half[feed.h].need
    <3>1. feed' = [feed EXCEPT !.pc = "copy"] /\ feed.h \in 0..1
      BY <1>2, <2>2 DEF Clip!Scan, FeedOk
    <3> QED BY <1>2, <2>2, <3>1, LoopPcs DEF FeedOk
  <2>3. CASE feed.h # 2 /\ ~half[feed.h].need
    <3>1. feed' = [feed EXCEPT !.h = feed.h + 1] /\ feed.h \in 0..1
      BY <1>2, <2>3 DEF Clip!Scan, FeedOk
    <3> QED BY <1>1, <1>2, <2>3, <3>1, LoopPcs DEF FeedOk
  <2> QED BY <2>1, <2>2, <2>3
<1>4. Now' = Now /\ Other' = Other
  BY <1>1 DEF Now, Other
<1>5. PlayInv'
  BY <1>1, <1>2, <1>3, <1>4 DEF PlayInv
<1>6. FillInv'
  BY <1>1, <1>2, <1>3, <1>4 DEF FillInv, Filling, PlayInv
<1>7. LiveInv'
  BY <1>1, <1>2, <1>3, <1>4 DEF LiveInv, Filling, FeedOk
<1>8. GuardInv'
  BY <1>1, <1>2, <1>3, <1>4 DEF GuardInv, Told, Rounds
<1>9. LoopInv' /\ EndInv'
  BY <1>1, <1>2, <1>3, <1>4, <1>5, <1>6, <1>7, <1>8 DEF LoopInv, EndInv, Holds
<1> QED BY <1>1, <1>2, <1>3, <1>9 DEF ClipInv, Clip!TypeOk, IsrOk, HalfOk, FeedOk, FlagsOk

LEMMA CopyStep == ASSUME ClipInv, Clip!Copy PROVE ClipInv'
<1> USE SoundAssumption
<1>1. /\ feed.pc = "copy" /\ UNCHANGED <<isr, notified, cut, timer, stalls>>
      /\ feed' = [feed EXCEPT !.pc = "length"]
  BY DEF Clip!Copy
<1>2. /\ PlayInv /\ FillInv /\ LiveInv /\ GuardInv /\ isr.run /\ timer
      /\ Holds(Now) /\ isr.pos <= half[Now].len
      /\ Now \in 0..1 /\ Other \in 0..1 /\ Now # Other
      /\ IsrOk /\ HalfOk /\ FeedOk /\ FlagsOk
  BY <1>1, InLoop, LoopPcs
<1>3. /\ feed'.pc = "length" /\ feed'.h = feed.h /\ feed'.pos = feed.pos /\ feed'.live = feed.live
      /\ feed'.guard = feed.guard /\ FeedOk' /\ feed.h = Other /\ half[Other].need
  BY <1>1, <1>2, LoopPcs DEF FeedOk, FillInv, Filling
<1>4. Now' = Now /\ Other' = Other
  BY <1>1 DEF Now, Other
<1>5. /\ half'[Now] = half[Now] /\ half'[Other].need = half[Other].need /\ half'[Other].len = half[Other].len
      /\ half'[Other].from = IF Clip!Part(feed.pos) > 0 THEN feed.pos ELSE half[Other].from
      /\ HalfOk'
  <2>1. feed.pos \in 0..Total
    BY <1>2 DEF FeedOk
  <2>2. CASE Clip!Part(feed.pos) > 0
    <3>1. half' = [half EXCEPT ![Other] = [half[Other] EXCEPT !.from = feed.pos]]
      BY <1>3, <2>2 DEF Clip!Copy
    <3> QED BY <1>2, <2>1, <2>2, <3>1 DEF HalfOk
  <2>3. CASE ~(Clip!Part(feed.pos) > 0)
    <3>1. half' = half
      BY <2>3 DEF Clip!Copy
    <3> QED BY <1>2, <2>3, <3>1 DEF HalfOk
  <2> QED BY <2>2, <2>3
<1>6. PlayInv'
  BY <1>1, <1>2, <1>3, <1>4, <1>5 DEF PlayInv
<1>7. FillInv' /\ LiveInv'
  BY <1>1, <1>2, <1>3, <1>4, <1>5 DEF FillInv, LiveInv, Filling
<1>8. GuardInv'
  <2>1. Told' = Told /\ Rounds' = Rounds
    BY <1>1, <1>3 DEF Told, Rounds
  <2>2. half[Now].len = 0 => Clip!Part(feed.pos) = 0
    BY <1>2, <1>3, Parts DEF PlayInv, FeedOk, HalfOk
  <2> QED BY <1>1, <1>2, <1>4, <1>5, <2>1, <2>2 DEF GuardInv, HalfOk
<1>9. LoopInv' /\ EndInv'
  BY <1>1, <1>2, <1>3, <1>4, <1>5, <1>6, <1>7, <1>8 DEF LoopInv, EndInv, Holds
<1> QED BY <1>1, <1>2, <1>3, <1>5, <1>9 DEF ClipInv, Clip!TypeOk, IsrOk, HalfOk, FeedOk, FlagsOk

LEMMA SetLengthStep == ASSUME ClipInv, Clip!SetLength PROVE ClipInv'
<1> USE SoundAssumption
<1>1. /\ feed.pc = "length" /\ UNCHANGED <<isr, notified, cut, timer, stalls>>
      /\ feed' = [feed EXCEPT !.pc = "clear"]
  BY DEF Clip!SetLength
<1>2. /\ PlayInv /\ FillInv /\ LiveInv /\ GuardInv /\ isr.run /\ timer
      /\ Holds(Now) /\ isr.pos <= half[Now].len
      /\ Now \in 0..1 /\ Other \in 0..1 /\ Now # Other
      /\ IsrOk /\ HalfOk /\ FeedOk /\ FlagsOk
  BY <1>1, InLoop, LoopPcs
<1>3. /\ feed'.pc = "clear" /\ feed'.h = feed.h /\ feed'.pos = feed.pos /\ feed'.live = feed.live
      /\ feed'.guard = feed.guard /\ FeedOk' /\ feed.h = Other /\ half[Other].need
  BY <1>1, <1>2, LoopPcs DEF FeedOk, FillInv, Filling
<1>4. Now' = Now /\ Other' = Other
  BY <1>1 DEF Now, Other
<1>p. /\ Clip!Part(feed.pos) \in 0..Half /\ feed.pos + Clip!Part(feed.pos) \in 0..Total
      /\ (Clip!Part(feed.pos) = 0 <=> feed.pos = Total)
      /\ (feed.pos + Clip!Part(feed.pos) < Total => Clip!Part(feed.pos) = Half)
  BY <1>2, Parts DEF FeedOk
<1>5. /\ half'[Now] = half[Now] /\ half'[Other].need = half[Other].need
      /\ half'[Other].len = Clip!Part(feed.pos) /\ half'[Other].from = half[Other].from
      /\ HalfOk'
  <2>1. half' = [half EXCEPT ![Other] = [half[Other] EXCEPT !.len = Clip!Part(feed.pos)]]
    BY <1>3 DEF Clip!SetLength
  <2> QED BY <1>2, <1>p, <2>1 DEF HalfOk
<1>6. PlayInv'
  BY <1>1, <1>2, <1>3, <1>4, <1>5 DEF PlayInv
<1>7. FillInv' /\ LiveInv'
  <2>1. half[Now].len = 0 => Clip!Part(feed.pos) = 0
    BY <1>2, <1>3, <1>p DEF PlayInv, HalfOk
  <2> QED BY <1>1, <1>2, <1>3, <1>4, <1>5, <1>p, <2>1 DEF FillInv, LiveInv, Filling
<1>8. GuardInv'
  <2>1. Told' = Told /\ Rounds' = Rounds
    BY <1>1, <1>3 DEF Told, Rounds
  <2>2. half[Now].len = 0 => Clip!Part(feed.pos) = 0
    BY <1>2, <1>3, <1>p DEF PlayInv, HalfOk
  <2> QED BY <1>1, <1>2, <1>4, <1>5, <2>1, <2>2 DEF GuardInv, HalfOk
<1>h. Holds(Other)'
  <2>1. Clip!Part(feed.pos) > 0 => half[Other].from = feed.pos
    BY <1>1, <1>2 DEF FillInv
  <2> QED BY <1>2, <1>4, <1>5, <1>p, <2>1 DEF Holds, HalfOk
<1>9. LoopInv' /\ EndInv'
  BY <1>1, <1>2, <1>3, <1>4, <1>5, <1>6, <1>7, <1>8, <1>h DEF LoopInv, EndInv, Holds
<1> QED BY <1>1, <1>2, <1>3, <1>5, <1>9 DEF ClipInv, Clip!TypeOk, IsrOk, HalfOk, FeedOk, FlagsOk

LEMMA ClearNeedStep == ASSUME ClipInv, Clip!ClearNeed PROVE ClipInv'
<1> USE SoundAssumption
<1> DEFINE part_ == Clip!Part(feed.pos)
<1>1. /\ feed.pc = "clear" /\ UNCHANGED <<isr, notified, cut, timer, stalls>>
  BY DEF Clip!ClearNeed
<1>2. /\ PlayInv /\ FillInv /\ LiveInv /\ GuardInv /\ isr.run /\ timer
      /\ Holds(Now) /\ Holds(Other) /\ isr.pos <= half[Now].len
      /\ Now \in 0..1 /\ Other \in 0..1 /\ Now # Other
      /\ IsrOk /\ HalfOk /\ FeedOk /\ FlagsOk
  BY <1>1, InLoop, LoopPcs
<1>3. feed.h = Other /\ half[Other].need /\ half[Other].len = part_
      /\ (half[Other].len > 0 => half[Other].from = feed.pos)
  BY <1>1, <1>2 DEF FillInv, Filling
<1>4. Now' = Now /\ Other' = Other
  BY <1>1 DEF Now, Other
<1>p. /\ part_ \in 0..Half /\ feed.pos + part_ \in 0..Total /\ (part_ = 0 <=> feed.pos = Total)
  BY <1>2, Parts DEF FeedOk
<1>5. /\ half'[Now] = half[Now] /\ ~half'[Other].need
      /\ half'[Other].len = half[Other].len /\ half'[Other].from = half[Other].from
      /\ HalfOk'
  <2>1. half' = [half EXCEPT ![Other] = [half[Other] EXCEPT !.need = FALSE]]
    BY <1>3 DEF Clip!ClearNeed
  <2> QED BY <1>2, <2>1 DEF HalfOk
<1>6. /\ feed'.pc = "scan" /\ feed'.h = feed.h + 1 /\ feed'.pos = feed.pos + part_
      /\ feed'.live = IF part_ = 0 THEN feed.live - 1 ELSE feed.live
      /\ feed'.guard = feed.guard /\ FeedOk'
  <2> DEFINE live == IF part_ = 0 THEN feed.live - 1 ELSE feed.live
  <2>1. feed' = [feed EXCEPT !.pc = "scan", !.h = feed.h + 1, !.pos = feed.pos + part_, !.live = live]
    BY Zenon DEF Clip!ClearNeed
  <2>2. "scan" \in Clip!Loop /\ feed.h + 1 \in 0..2 /\ live \in -1..2
    BY <1>1, <1>2, <1>3, LoopPcs DEF LiveInv, Filling, FeedOk
  <2> HIDE DEF live, part_
  <2>3. [feed EXCEPT !.pc = "scan", !.h = feed.h + 1, !.pos = feed.pos + part_, !.live = live] \in Feeding
    BY <1>2, <1>p, <2>2 DEF FeedOk, Feeding
  <2>4. /\ feed'.pc = "scan" /\ feed'.h = feed.h + 1 /\ feed'.pos = feed.pos + part_
        /\ feed'.live = live /\ feed'.guard = feed.guard
    BY <1>2, <2>1, Zenon DEF FeedOk
  <2> QED BY <2>1, <2>3, <2>4 DEF FeedOk, Feeding, live
<1>7. PlayInv'
  BY <1>1, <1>2, <1>3, <1>4, <1>5, <1>6, <1>p DEF PlayInv, HalfOk
<1>8. FillInv'
  BY <1>1, <1>2, <1>3, <1>4, <1>5, <1>6 DEF FillInv, Filling
<1>9. LiveInv'
  BY <1>1, <1>2, <1>3, <1>4, <1>5, <1>6, <1>p DEF LiveInv, PlayInv, Filling, HalfOk, FeedOk
<1>10. GuardInv'
  <2>1. Told' = Told /\ Rounds' = Rounds
    BY <1>1, <1>6 DEF Told, Rounds
  <2> QED BY <1>1, <1>2, <1>4, <1>5, <2>1 DEF GuardInv
<1>11. LoopInv' /\ EndInv'
  BY <1>1, <1>2, <1>4, <1>5, <1>6, <1>7, <1>8, <1>9, <1>10 DEF LoopInv, EndInv, Holds
<1> QED BY <1>1, <1>2, <1>5, <1>6, <1>11 DEF ClipInv, Clip!TypeOk, IsrOk, HalfOk, FeedOk, FlagsOk

\* The loop has a round left until the last sample has been heard.
LEMMA LoopEndsStep == ASSUME ClipInv, Clip!LoopEnds, StallMax < Spare PROVE ClipInv'
<1> USE SoundAssumption
<1>1. /\ feed.pc = "wait" /\ UNCHANGED <<isr, half, notified, cut, timer, stalls>>
      /\ feed' = [feed EXCEPT !.pc = "settle"]
      /\ feed.live <= 0 \/ cut \/ feed.guard <= 0
  <2>1. ~(feed.live > 0 /\ ~cut /\ feed.guard > 0)
    BY DEF Clip!LoopEnds, Clip!LoopAgain
  <2> QED BY <2>1, InLoop, LoopPcs DEF Clip!LoopEnds, FeedOk
<1>2. /\ PlayInv /\ FillInv /\ LiveInv /\ GuardInv /\ isr.run /\ timer
      /\ Holds(Now) /\ Holds(Other) /\ isr.pos <= half[Now].len
      /\ Now \in 0..1 /\ Other \in 0..1 /\ Now # Other
      /\ IsrOk /\ HalfOk /\ FeedOk /\ FlagsOk
  BY <1>1, InLoop, LoopPcs
<1>3. feed'.pc = "settle" /\ FeedOk'
  BY <1>1, <1>2 DEF FeedOk
<1>4. Holds(0)' /\ Holds(1)'
  BY <1>1, <1>2 DEF Holds
<1>5. (half[Now].len > 0 \/ half[Other].len > 0) => feed.live > 0
  BY <1>2 DEF LiveInv, HalfOk
<1>6. (half[Now].len > 0 \/ half[Other].len > 0) => feed.guard > 0
  <2> SUFFICES ASSUME half[Now].len > 0 \/ half[Other].len > 0 PROVE feed.guard > 0
    OBVIOUS
  <2>1. Rounds \in Nat /\ Told \in Nat /\ Rounds <= Told
    BY <1>2 DEF GuardInv, Told, FlagsOk
  <2>2. Rounds * Half <= Total
    <3>1. CASE half[Now].len > 0
      <4>1. Told * Half <= half[Now].from /\ half[Now].from <= Total
        BY <1>2, <3>1 DEF GuardInv, HalfOk
      <4>2. Rounds * Half <= Told * Half
        BY <2>1, Rounding
      <4> QED BY <1>2, <2>1, <4>1, <4>2 DEF HalfOk
    <3>2. CASE half[Now].len = 0 /\ half[Other].len > 0
      <4>1. half[Other].from < Total /\ Told * Half <= half[Other].from + Half
        BY <1>2, <3>2 DEF GuardInv
      <4>2. notified /\ Told = Rounds + 1
        BY <1>1, <1>2, <2>1, <3>2 DEF LiveInv, FillInv, Told
      <4>3. (Rounds + 1) * Half = Rounds * Half + Half
        BY <2>1
      <4>4. Rounds * Half \in Nat /\ half[Other].from \in Nat
        BY <1>2, <2>1 DEF HalfOk
      <4> QED BY <4>1, <4>2, <4>3, <4>4
    <3> QED BY <1>2, <3>1, <3>2 DEF HalfOk
  <2>3. Rounds <= Total \div Half
    BY <2>1, <2>2, Rounding
  <2> QED BY <1>2, <2>1, <2>3, Rounding DEF Rounds, GuardInv, FeedOk, FlagsOk
<1>7. ~cut => isr.last = Total /\ half[0].len = 0 /\ half[1].len = 0
  BY <1>1, <1>2, <1>5, <1>6 DEF PlayInv, HalfOk, FeedOk
<1>8. LoopInv' /\ EndInv'
  BY <1>1, <1>2, <1>3, <1>4, <1>7, LoopPcs DEF LoopInv, EndInv
<1> QED BY <1>1, <1>2, <1>3, <1>8 DEF ClipInv, Clip!TypeOk, IsrOk, HalfOk, FeedOk, FlagsOk

LEMMA StopTimerStep == ASSUME ClipInv, Clip!StopTimer PROVE ClipInv' /\ (cut \/ isr.last = Total) /\ timer
<1>1. /\ feed.pc = "settle" /\ UNCHANGED <<half, notified, cut, stalls>>
      /\ feed' = [feed EXCEPT !.pc = "over"] /\ timer' = FALSE /\ isr' = [isr EXCEPT !.run = FALSE]
  BY DEF Clip!StopTimer
<1>2. IsrOk /\ HalfOk /\ FeedOk /\ FlagsOk
  BY TypeParts DEF ClipInv
<1>3. feed'.pc = "over" /\ FeedOk'
  BY <1>1, <1>2 DEF FeedOk
<1>4. IsrOk' /\ HalfOk'
  BY <1>1, <1>2 DEF IsrOk, HalfOk
<1>5. FlagsOk'
  BY <1>1, <1>2, Zenon DEF FlagsOk
<1>6. LoopInv' /\ EndInv'
  BY <1>1, <1>3, LoopPcs DEF LoopInv, EndInv
<1>7. (cut \/ isr.last = Total) /\ timer
  BY <1>1 DEF ClipInv, EndInv
<1> QED BY <1>3, <1>4, <1>5, <1>6, <1>7 DEF ClipInv, Clip!TypeOk, IsrOk, HalfOk, FeedOk, FlagsOk

LEMMA InterruptedStep == ASSUME ClipInv, Clip!Interrupted PROVE ClipInv' /\ timer
<1>1. feed.pc # "over" /\ ~cut /\ cut' = TRUE /\ UNCHANGED <<isr, half, notified, feed, timer, stalls>>
  BY DEF Clip!Interrupted
<1>2. Now' = Now /\ Other' = Other /\ \A h : Holds(h)' <=> Holds(h)
  BY <1>1 DEF Now, Other, Holds
<1>3. LoopInv'
  BY <1>1, <1>2 DEF ClipInv, LoopInv, PlayInv, FillInv, LiveInv, GuardInv, Rounds, Told, Filling, Holds
<1>4. EndInv'
  BY <1>1, <1>2 DEF ClipInv, EndInv, Holds
<1>5. Clip!TypeOk'
  BY <1>1, Zenon DEF ClipInv, Clip!TypeOk
<1> QED BY <1>1, <1>3, <1>4, <1>5 DEF ClipInv, EndInv

-----------------------------------------------------------------------------
(* The clip as Stream sees it. *)

LEMMA ClipInit == Clip!Init => ClipInv
<1> SUFFICES ASSUME Clip!Init PROVE ClipInv
  OBVIOUS
<1> USE SoundAssumption DEF Clip!Init
<1>1. IsrOk /\ HalfOk /\ FlagsOk
  <2>1. IsrOk
    BY DEF IsrOk
  <2>2. HalfOk
    BY DEF HalfOk
  <2>3. notified \in BOOLEAN /\ cut \in BOOLEAN /\ timer \in BOOLEAN
    BY Zenon
  <2> QED BY <2>1, <2>2, <2>3 DEF FlagsOk
<1>2. FeedOk
  BY DEF FeedOk
<1>3. LoopInv /\ EndInv
  BY LoopPcs DEF LoopInv, EndInv
<1> QED BY <1>1, <1>2, <1>3, TypeParts DEF ClipInv

\* A step of the interrupt is heard as the next sample, or not at all.
LEMMA AlarmHeard ==
  ASSUME ClipInv, Prompt, Clip!Alarm
  PROVE  ClipInv' /\ [Promise!Next]_(Promise!vars)
<1> USE SoundAssumption
<1>1. timer /\ isr.run /\ ~Clip!Behind
  BY DEF Clip!Alarm
<1>2. Continues \/ Turns
  BY AlarmCases DEF ClipInv
<1>3. ClipInv'
  BY <1>1, <1>2, ContinuesStep, TurnsStep
<1>4. IsrOk /\ HalfOk /\ FeedOk /\ FlagsOk /\ isr'.last \in 0..Total /\ cut' = cut /\ timer' = timer
  BY <1>2, <1>3, TypeParts DEF ClipInv, Clip!TypeOk, Continues, Turns
<1>5. feed.pc \in Clip!Loop \/ feed.pc = "settle"
  BY <1>1, <1>4 DEF ClipInv, EndInv, FeedOk
<1>6. cut => [Promise!Next]_(Promise!vars)
  BY <1>1, <1>4 DEF Promise!Next, Promise!Stray
<1>7. ~cut => isr'.last = isr.last \/ isr'.last = isr.last + 1
  <2> SUFFICES ASSUME ~cut PROVE isr'.last = isr.last \/ isr'.last = isr.last + 1
    OBVIOUS
  <2> USE DEF Now, Other
  <2>1. CASE Continues
    <3>1. half[Now].len > 0
      BY <1>4, <2>1 DEF Continues, IsrOk, HalfOk
    <3>2. feed.pc \in Clip!Loop
      BY <1>4, <1>5, <3>1 DEF ClipInv, EndInv, IsrOk, HalfOk
    <3>3. isr.last = half[Now].from + isr.pos
      BY <3>1, <3>2, InLoop DEF PlayInv
    <3>4. isr'.last = half[Now].from + isr.pos + 1
      BY <1>4, <2>1, Zenon DEF Continues, IsrOk
    <3> QED BY <3>3, <3>4
  <2>2. CASE Turns /\ half[Other].len = 0
    <3>1. isr' = [isr EXCEPT !.cur = Other, !.pos = 0]
      BY <2>2 DEF Turns
    <3> QED BY <1>4, <3>1, Zenon DEF IsrOk
  <2>3. CASE Turns /\ half[Other].len # 0
    <3>1. isr' = [isr EXCEPT !.cur = Other, !.pos = 1, !.last = half[Other].from + 1]
      BY <2>3 DEF Turns
    <3>2. isr'.last = half[Other].from + 1
      BY <1>4, <3>1, Zenon DEF IsrOk
    <3>3. feed.pc \in Clip!Loop
      BY <1>4, <1>5, <2>3 DEF ClipInv, EndInv, IsrOk
    <3>4. ~half[Other].need /\ half[Other].len > 0
      BY <1>1, <1>4, <2>3, <3>3 DEF Clip!Behind, Turns, IsrOk, HalfOk
    <3>5. half[Now].len > 0 /\ half[Other].from = half[Now].from + half[Now].len
      BY <3>3, <3>4, InLoop DEF PlayInv
    <3>6. isr.last = half[Now].from + isr.pos /\ isr.pos = half[Now].len
      BY <1>4, <2>3, <3>3, <3>5, InLoop DEF PlayInv, Turns, IsrOk, HalfOk
    <3> QED BY <3>2, <3>5, <3>6
  <2> QED BY <1>2, <2>1, <2>2, <2>3
<1>8. CASE ~cut /\ isr'.last = isr.last
  <2>1. isr'.last = isr.last /\ cut' = cut /\ timer' = timer
    BY <1>4, <1>8
  <2>2. (~timer)' = (~timer)
    BY <1>1, <2>1, Zenon
  <2>3. UNCHANGED Promise!vars
    BY <2>1, <2>2, Zenon DEF Promise!vars
  <2> QED BY <1>3, <2>3
<1>9. CASE ~cut /\ isr'.last = isr.last + 1
  <2>1. isr.last < Total
    BY <1>4, <1>9 DEF IsrOk
  <2>2. isr'.last = isr.last + 1 /\ ~cut /\ timer /\ cut' = cut /\ timer' = timer
    BY <1>1, <1>4, <1>9
  <2>3. (~timer)' = (~timer)
    BY <2>2, Zenon
  <2>4. Promise!Emit
    BY <2>1, <2>2, <2>3, Zenon DEF Promise!Emit
  <2> QED BY <1>3, <2>4 DEF Promise!Next
<1> QED BY <1>3, <1>6, <1>7, <1>8, <1>9

LEMMA FeedHeard ==
  ASSUME ClipInv, StallMax < Spare, Clip!Feed
  PROVE  ClipInv' /\ [Promise!Next]_(Promise!vars)
<1>1. CASE Clip!StopTimer
  <2>1. ClipInv' /\ (cut \/ isr.last = Total) /\ timer
    BY <1>1, StopTimerStep
  <2>2. timer' = FALSE /\ cut' = cut /\ isr'.last = isr.last
    <3>1. isr' = [isr EXCEPT !.run = FALSE] /\ timer' = FALSE /\ cut' = cut
      BY <1>1 DEF Clip!StopTimer
    <3> QED BY <3>1, TypeParts DEF ClipInv, IsrOk
  <2> QED BY <2>1, <2>2 DEF Promise!Next, Promise!End
<1>2. CASE Clip!Prime
  <2>1. isr'.last = isr.last /\ UNCHANGED <<cut, timer>>
    <3>1. isr' = [isr EXCEPT !.run = TRUE] /\ UNCHANGED <<cut, timer>>
      BY <1>2 DEF Clip!Prime
    <3> QED BY <3>1, TypeParts DEF ClipInv, IsrOk
  <2> QED BY <1>2, <2>1, PrimeStep DEF Promise!vars
<1>3. CASE Clip!Wait \/ Clip!Scan \/ Clip!Copy \/ Clip!SetLength \/ Clip!ClearNeed \/ Clip!LoopEnds
  <2>1. UNCHANGED <<isr, cut, timer>>
    BY <1>3 DEF Clip!Wait, Clip!Scan, Clip!Copy, Clip!SetLength, Clip!ClearNeed, Clip!LoopEnds
  <2> QED BY <1>3, <2>1, WaitStep, ScanStep, CopyStep, SetLengthStep, ClearNeedStep, LoopEndsStep
      DEF Promise!vars
<1> QED BY <1>1, <1>2, <1>3 DEF Clip!Feed

LEMMA ClipUnchanged ==
  ASSUME UNCHANGED clipVars
  PROVE  (ClipInv => ClipInv') /\ UNCHANGED Promise!vars
BY DEF clipVars, ClipInv, Clip!TypeOk, LoopInv, PlayInv, FillInv, LiveInv, GuardInv, Rounds, Told, Filling,
   Holds, EndInv, Now, Other, Promise!vars

LEMMA ClipStep ==
  ASSUME Prompt, StallMax < Spare
  PROVE  ClipInv /\ [SoundNext]_allVars => ClipInv' /\ [Promise!Next]_(Promise!vars)
<1> SUFFICES ASSUME ClipInv, [SoundNext]_allVars PROVE ClipInv' /\ [Promise!Next]_(Promise!vars)
  OBVIOUS
<1>1. CASE Clip!Feed
  BY <1>1, FeedHeard
<1>2. CASE Clip!Alarm
  BY <1>2, AlarmHeard
<1>3. CASE Clip!Interrupted
  <2>1. ClipInv' /\ timer
    BY <1>3, InterruptedStep
  <2>2. ~cut /\ cut' = TRUE /\ UNCHANGED <<isr, timer>>
    BY <1>3 DEF Clip!Interrupted
  <2> QED BY <2>1, <2>2 DEF Promise!Next, Promise!Cut
<1>4. CASE UNCHANGED clipVars
  BY <1>4, ClipUnchanged
<1> QED BY <1>1, <1>2, <1>3, <1>4 DEF SoundNext, Clip!Next, ClipOver, allVars

\* A clip is played as Stream promises: every sample once and in order, and the timer
\* stopped only at the last one or when another press interrupts; with a task that is
\* never a whole half behind the interrupt, and fewer lost notifications than the feed
\* loop has rounds to spare.
THEOREM ImplementsStream ==
  ASSUME Prompt, StallMax < Spare
  PROVE  Spec => Promise!InOrder
<1>1. SoundInit => ClipInv /\ Promise!Init
  BY ClipInit DEF SoundInit, Clip!Init, Promise!Init
<1>2. ClipInv /\ [SoundNext]_allVars => ClipInv'
  BY ClipStep
<1>3. ClipInv /\ [SoundNext]_allVars => [Promise!Next]_(Promise!vars)
  BY ClipStep
<1> QED BY <1>1, <1>2, <1>3, PTL DEF Spec, Promise!InOrder

-----------------------------------------------------------------------------
(* The loudspeaker. *)

LEMMA RoomInit == Audio!Init => RoomInv
BY DEF Audio!Init, RoomInv, ClipAccounted, Busy, Audio!Callers

LEMMA CallStep ==
  ASSUME RoomInv, NEW c \in Audio!Callers, Audio!Press(c) \/ Audio!Call(c) \/ Audio!Dropped(c)
  PROVE  RoomInv'
<1> USE DEF RoomInv, ClipAccounted, Busy, Audio!Goto
<1>1. CASE Audio!Press(c)
  BY <1>1 DEF Audio!Press
<1>2. CASE Audio!Take(c)
  BY <1>2 DEF Audio!Take
<1>3. CASE Audio!Interrupt(c)
  BY <1>3 DEF Audio!Interrupt
<1>4. CASE Audio!Taken(c)
  BY <1>4 DEF Audio!Taken
<1>5. CASE Audio!Begin(c)
  BY <1>5 DEF Audio!Begin
<1>6. CASE Audio!Spawn(c)
  BY <1>6 DEF Audio!Spawn, Audio!NotSpawned
<1>7. CASE Audio!Dropped(c)
  BY <1>7 DEF Audio!Dropped
<1> QED BY <1>1, <1>2, <1>3, <1>4, <1>5, <1>6, <1>7 DEF Audio!Call

LEMMA PlayStep == ASSUME RoomInv, Audio!Play PROVE RoomInv'
<1> USE DEF RoomInv, ClipAccounted, Busy
<1>1. CASE Audio!Parse
  BY <1>1 DEF Audio!Parse
<1>2. CASE Audio!LedsOff
  BY <1>2 DEF Audio!LedsOff
<1>3. CASE Audio!StartDac
  BY <1>3 DEF Audio!StartDac
<1>4. CASE Audio!Fed \/ Audio!StopDac \/ Audio!LedsOn
  BY <1>4 DEF Audio!Fed, Audio!StopDac, Audio!LedsOn
<1>5. CASE Audio!ClearHandle
  BY <1>5 DEF Audio!ClearHandle
<1>6. CASE Audio!GiveMutex
  BY <1>6 DEF Audio!GiveMutex
<1> QED BY <1>1, <1>2, <1>3, <1>4, <1>5, <1>6 DEF Audio!Play

\* A test of the output changes nothing of who holds the mutex.
LEMMA TestStep == ASSUME RoomInv, Audio!Test \/ Audio!TestGoesOn PROVE RoomInv'
<1>1. /\ UNCHANGED <<mutex, handle, clip>> /\ ~Busy("web")
      /\ \E at : at \notin {"begin", "spawn"} /\ pc' = [pc EXCEPT !["web"] = at]
  <2> USE DEF Audio!Goto, Audio!Tester, Busy
  <2>1. CASE Audio!Test
    BY <2>1 DEF Audio!Test
  <2>2. CASE Audio!TestLooks
    BY <2>2 DEF Audio!TestLooks
  <2>3. CASE Audio!TestWaits
    BY <2>3 DEF Audio!TestWaits
  <2>4. CASE Audio!TestClears
    BY <2>4 DEF Audio!TestClears
  <2>5. ASSUME NEW m \in {"normal", "hiz", "drive", "other"}, Audio!TestMode(m)
        PROVE  /\ UNCHANGED <<mutex, handle, clip>> /\ ~Busy("web")
               /\ \E at : at \notin {"begin", "spawn"} /\ pc' = [pc EXCEPT !["web"] = at]
    BY <2>5 DEF Audio!TestMode
  <2>6. CASE Audio!TestDrives
    BY <2>6 DEF Audio!TestDrives
  <2> QED BY <2>1, <2>2, <2>3, <2>4, <2>5, <2>6 DEF Audio!TestGoesOn
<1> QED BY <1>1 DEF RoomInv, ClipAccounted, Busy, Audio!Callers

LEMMA RoomStep == RoomInv /\ [SoundNext]_allVars => RoomInv'
<1> SUFFICES ASSUME RoomInv, [SoundNext]_allVars PROVE RoomInv'
  OBVIOUS
<1>1. CASE Audio!Next
  BY <1>1, PlayStep, TestStep, CallStep DEF Audio!Next
<1>2. CASE UNCHANGED audioVars
  BY <1>2 DEF audioVars, RoomInv, ClipAccounted, Busy
<1> QED BY <1>1, <1>2 DEF SoundNext, allVars

\* s_audio_task says exactly whether a task of a clip exists, and s_play_mutex is free
\* only when no clip plays and no press is about to start one, for any number of presses
\* and tests in any order.
THEOREM ClipIsAccounted == Spec => []ClipAccounted
<1>1. SoundInit => RoomInv
  BY RoomInit DEF SoundInit
<1>2. RoomInv => ClipAccounted
  BY DEF RoomInv
<1> QED BY <1>1, <1>2, RoomStep, PTL DEF Spec
=============================================================================
