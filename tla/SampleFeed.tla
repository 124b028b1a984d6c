---------------------------- MODULE SampleFeed ----------------------------
(***************************************************************************)
(* The sample clock of audio.c: an interrupt that writes one sample per    *)
(* alarm from a buffer of two halves, and the task that copies the next    *)
(* part of the clip into a half the interrupt has handed back.  The        *)
(* interrupt may come between any two of the task's accesses.  Samples are *)
(* numbered; a half is described by what was copied into it.               *)
(***************************************************************************)
EXTENDS Integers

CONSTANTS
  Total,     \* samples of the composed stream
  Half,      \* samples of a half-buffer (SW_HALF_SAMPLES)
  Spare,     \* rounds the feed loop has to spare (8)
  StallMax,  \* bound: waits that end without a notification
  Prompt     \* the task is never a whole half behind the interrupt

VARIABLES
  isr,       \* [run, cur, pos, last]
  half,      \* for each half: [from, len, need]
  notified,  \* the interrupt has notified the task
  feed,      \* the task: [pc, h, pos, live, guard]
  stop,      \* s_stop_flag, set by the next press
  timer,     \* the timer is running
  stalls

vars == <<isr, half, notified, feed, stop, timer, stalls>>

Loop == {"wait", "scan", "copy", "length", "clear"}
Min2(a, b) == IF a < b THEN a ELSE b

TypeOk ==
  /\ isr \in [run : BOOLEAN, cur : 0..1, pos : 0..Half, last : 0..Total]
  /\ half \in [0..1 -> [from : 0..Total, len : 0..Half, need : BOOLEAN]]
  /\ notified \in BOOLEAN /\ stop \in BOOLEAN /\ timer \in BOOLEAN
  /\ feed \in [pc : Loop \union {"start", "settle", "over"}, h : 0..2, pos : 0..Total,
               live : -1..2, guard : Nat]
  /\ stalls \in 0..StallMax

\* sw_dac_start: the output is parked at mid-rail, the timer runs, nothing is emitted.
Init ==
  /\ isr = [run |-> FALSE, cur |-> 0, pos |-> 0, last |-> 0]
  /\ half = [h \in 0..1 |-> [from |-> 0, len |-> 0, need |-> FALSE]]
  /\ notified = FALSE /\ stop = FALSE /\ timer = TRUE /\ stalls = 0
  /\ feed = [pc |-> "start", h |-> 0, pos |-> 0, live |-> 0, guard |-> 0]

Part(at) == Min2(Total - at, Half)

\* Both halves are filled before the interrupt may emit.
Prime ==
  /\ feed.pc = "start"
  /\ LET n0 == Part(0)
         n1 == Part(n0)
     IN /\ half' = [h \in 0..1 |-> [from |-> IF h = 0 THEN 0 ELSE n0,
                                    len |-> IF h = 0 THEN n0 ELSE n1, need |-> FALSE]]
        /\ feed' = [pc |-> "wait", h |-> 0, pos |-> n0 + n1,
                    live |-> (IF n0 > 0 THEN 1 ELSE 0) + (IF n1 > 0 THEN 1 ELSE 0),
                    guard |-> Total \div Half + Spare]
  /\ isr' = [isr EXCEPT !.run = TRUE]
  /\ UNCHANGED <<notified, stop, timer, stalls>>

-----------------------------------------------------------------------------
(* sw_on_alarm *)

Emit(h, p) == [isr EXCEPT !.cur = h, !.pos = p + 1, !.last = half[h].from + p + 1]

\* The interrupt has run out of one half while the other waits for the task.
Behind == feed.pc \in Loop /\ isr.pos >= half[isr.cur].len /\ half[1 - isr.cur].need

Alarm ==
  /\ timer /\ isr.run
  /\ Prompt => ~Behind
  /\ LET h == isr.cur
         o == 1 - h
     IN IF isr.pos < half[h].len
        THEN isr' = Emit(h, isr.pos) /\ UNCHANGED <<half, notified>>
        ELSE /\ half' = [half EXCEPT ![h].need = TRUE]
             /\ notified' = TRUE
             /\ isr' = IF half[o].len = 0 THEN [isr EXCEPT !.cur = o, !.pos = 0]
                                          ELSE Emit(o, 0)
  /\ UNCHANGED <<feed, stop, timer, stalls>>

-----------------------------------------------------------------------------
(* The feed loop of audio_play_task *)

\* `LoopAgain` that ends with the last copy instead of the last half played.
SlipLoopAgain == feed.pos < Total /\ ~stop /\ feed.guard > 0
LoopAgain == feed.live > 0 /\ ~stop /\ feed.guard > 0

LoopEnds ==
  /\ feed.pc = "wait" /\ ~LoopAgain
  /\ feed' = [feed EXCEPT !.pc = "settle"]
  /\ UNCHANGED <<isr, half, notified, stop, timer, stalls>>

\* ulTaskNotifyTake: a notification, or 200 ms without one.
Wait ==
  /\ feed.pc = "wait" /\ LoopAgain
  /\ \/ notified /\ notified' = FALSE /\ UNCHANGED stalls
     \/ ~notified /\ stalls < StallMax /\ stalls' = stalls + 1 /\ UNCHANGED notified
  /\ feed' = [feed EXCEPT !.pc = "scan", !.h = 0, !.guard = @ - 1]
  /\ UNCHANGED <<isr, half, stop, timer>>

Scan ==
  /\ feed.pc = "scan"
  /\ feed' = IF feed.h = 2 THEN [feed EXCEPT !.pc = "wait", !.h = 0]
             ELSE IF half[feed.h].need THEN [feed EXCEPT !.pc = "copy"]
             ELSE [feed EXCEPT !.h = @ + 1]
  /\ UNCHANGED <<isr, half, notified, stop, timer, stalls>>

Copy ==
  /\ feed.pc = "copy"
  /\ half' = IF Part(feed.pos) > 0 THEN [half EXCEPT ![feed.h].from = feed.pos] ELSE half
  /\ feed' = [feed EXCEPT !.pc = "length"]
  /\ UNCHANGED <<isr, notified, stop, timer, stalls>>

\* The length before the flag that the interrupt sets.
SetLength ==
  /\ feed.pc = "length"
  /\ half' = [half EXCEPT ![feed.h].len = Part(feed.pos)]
  /\ feed' = [feed EXCEPT !.pc = "clear"]
  /\ UNCHANGED <<isr, notified, stop, timer, stalls>>

ClearNeed ==
  /\ feed.pc = "clear"
  /\ half' = [half EXCEPT ![feed.h].need = FALSE]
  /\ feed' = [feed EXCEPT !.pc = "scan", !.h = feed.h + 1, !.pos = feed.pos + Part(feed.pos),
                          !.live = IF Part(feed.pos) = 0 THEN feed.live - 1 ELSE feed.live]
  /\ UNCHANGED <<isr, notified, stop, timer, stalls>>

\* 20 ms later: sw_dac_stop.
StopTimer ==
  /\ feed.pc = "settle"
  /\ feed' = [feed EXCEPT !.pc = "over"]
  /\ timer' = FALSE
  /\ isr' = [isr EXCEPT !.run = FALSE]
  /\ UNCHANGED <<half, notified, stop, stalls>>

\* audio_play_file or audio_dac_test_set, called while this clip plays.
Interrupted ==
  /\ feed.pc # "over" /\ ~stop
  /\ stop' = TRUE
  /\ UNCHANGED <<isr, half, notified, feed, timer, stalls>>

Feed == Prime \/ Wait \/ Scan \/ Copy \/ SetLength \/ ClearNeed \/ LoopEnds \/ StopTimer
Next == Feed \/ Alarm \/ Interrupted

\* The task and the interrupt go on.
Fairness == WF_vars(Feed) /\ WF_vars(Alarm)
Spec == Init /\ [][Next]_vars /\ Fairness

=============================================================================
