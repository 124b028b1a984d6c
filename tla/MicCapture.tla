----------------------------- MODULE MicCapture -----------------------------
(***************************************************************************)
(* The capture side of microphone.c: the microphone task, which alone owns *)
(* the converter, and the web server's one thread, which asks it for a     *)
(* baseline, a raw frame, a test window or a trace and waits with a        *)
(* time-out.  What a frame does to the bars is in MicSignal.               *)
(*                                                                         *)
(* The 24 bands are alike, so one stands for them; a frame is told from    *)
(* its neighbours by its parity.  A definition named Slip... is a          *)
(* plausible wrong version of the one that follows it.                     *)
(***************************************************************************)
EXTENDS Integers

CONSTANTS
  CalFrames,    \* MIC_CAL_FRAMES
  TraceFrames,  \* the frames of a trace
  Late          \* TRUE: a wait may time out while the task is already doing what
                \* it was asked for, and a test window may be set at that moment

VARIABLES
  use,    \* what the web server is used for in this behaviour
  want,   \* mic_enabled, whether Spectrum is shown, mic_adc_channel, mic_top_hz
  held,   \* s_hold_capture
  test,   \* s_test_capture, and whether s_test_until_ms has passed
  task,   \* mic_task: its place, its frame, and whether it writes the frame to the trace
  acq,    \* s_acq_running, s_active_chan, what the driver converts, and whether a stop failed
  layout, \* s_built_top_hz
  cal,    \* s_cal_requested, s_cal_frame_cnt, the frames in s_cal_accum and how many
          \* of them are of another layout than the settings', s_cal_done
  base,   \* the baseline in s_noise_floor, if it is one
  saved,  \* the baseline on flash and the layout it is filed under
  dump,   \* s_dump_req, s_dump_buf, s_dump_dec, s_dump_done
  trace,  \* s_tr_buf, s_tr_n, s_tr_active
  http    \* what the web server's thread is doing, and what it has in hand

capVars == <<use, want, held, test, task, acq, layout, cal, base, saved, dump, trace, http>>

Channels == {0, 1}
Layouts == {1, 2}
NoBase == [on |-> FALSE, sum |-> 0, odd |-> 0, mine |-> FALSE]
NotSaved == [on |-> FALSE, top |-> 1, odd |-> 0]
Settings == [on : BOOLEAN, spec : BOOLEAN, ch : Channels, top : Layouts]

\* mic_hw_init, mic_init and the restore in app_main: with the microphone off at boot
\* nothing is allocated and the task is not started.
Fits == saved.on /\ saved.top = want.top
Started ==
  /\ held' = FALSE /\ test' = [on |-> FALSE, over |-> FALSE]
  /\ task' = [pc |-> IF want.on THEN "top" ELSE "none", frame |-> 0, tr |-> FALSE]
  /\ acq' = [run |-> FALSE, ch |-> want.ch, conv |-> want.ch, stuck |-> FALSE]
  /\ layout' = want.top
  /\ cal' = [req |-> FALSE, cnt |-> 0, sum |-> 0, odd |-> 0, sem |-> 0]
  /\ base' = IF want.on /\ Fits
               THEN [on |-> TRUE, sum |-> CalFrames, odd |-> saved.odd, mine |-> FALSE] ELSE NoBase
  /\ dump' = [req |-> FALSE, raw |-> 0, dec |-> 0, sem |-> 0, mine |-> FALSE]
  /\ trace' = [buf |-> FALSE, n |-> 0, on |-> FALSE]
  /\ http' = [pc |-> "idle", raw |-> 0, dec |-> 0]

Boot == Started /\ UNCHANGED <<want, saved>>

\* Baselines meet new layouts, test windows meet new channels, and the exports meet
\* each other; the three meet in one task, and no more state than the converter's.
Uses == {"baseline", "capture", "export"}

Init ==
  /\ use \in Uses
  /\ want = [on |-> TRUE, spec |-> FALSE, ch |-> 0, top |-> 1]
  /\ held = FALSE /\ test = [on |-> FALSE, over |-> FALSE]
  /\ task = [pc |-> "top", frame |-> 0, tr |-> FALSE]
  /\ acq = [run |-> FALSE, ch |-> 0, conv |-> 0, stuck |-> FALSE]
  /\ layout = 1 /\ cal = [req |-> FALSE, cnt |-> 0, sum |-> 0, odd |-> 0, sem |-> 0]
  /\ base = NoBase /\ saved = NotSaved
  /\ dump = [req |-> FALSE, raw |-> 0, dec |-> 0, sem |-> 0, mine |-> FALSE]
  /\ trace = [buf |-> FALSE, n |-> 0, on |-> FALSE]
  /\ http = [pc |-> "idle", raw |-> 0, dec |-> 0]

-----------------------------------------------------------------------------
\* mic_task, pass by pass.  The settings are copied and used within one step.
Task(from, to) == task.pc = from /\ task' = [task EXCEPT !.pc = to]
Expired == test.on /\ test.over

EndTest ==
  /\ Expired /\ Task("top", "expired")
  /\ UNCHANGED <<want, held, test, acq, layout, cal, base, saved, dump, trace, http>>

\* A new layout empties the floor, but not the sum of a baseline being captured.
Rebuilt ==
  /\ layout' = want.top
  /\ base' = IF layout = want.top THEN base ELSE NoBase
  /\ test' = IF task.pc = "expired" THEN [test EXCEPT !.on = FALSE] ELSE test
Passing == task.pc = "expired" \/ (task.pc = "top" /\ ~Expired)
WantCapture == want.on /\ ~held /\ (want.spec \/ cal.req \/ test'.on)

\* adc_continuous_stop may fail, and then the converter keeps running.
AcqStop(a) == IF a.run THEN {[a EXCEPT !.run = FALSE], [a EXCEPT !.stuck = TRUE]} ELSE {a}

Gated ==
  /\ Passing /\ Rebuilt /\ ~WantCapture
  /\ task' = [task EXCEPT !.pc = "top"] /\ acq' \in AcqStop(acq)
  /\ UNCHANGED <<want, held, cal, saved, dump, trace, http>>

\* reconfigure_channel ends with the driver's answer to the new channel.
Reconfigured(a, ch) ==
  IF ch = a.ch THEN {a} ELSE UNION {{b, [b EXCEPT !.ch = ch]} : b \in AcqStop(a)}
AcqStart(a) == IF a.run THEN a ELSE [a EXCEPT !.run = TRUE, !.conv = a.ch, !.stuck = FALSE]

\* Channel, converter, one frame: each may fail, and the pass starts over.
ReadFrame ==
  /\ Passing /\ Rebuilt /\ WantCapture
  /\ \E a \in Reconfigured(acq, want.ch) :
       \/ acq' = AcqStart(a) /\ task' = [task EXCEPT !.pc = "dump", !.frame = 1 - @]
       \/ acq' \in {a, AcqStart(a)} /\ task' = [task EXCEPT !.pc = "top"]
  /\ UNCHANGED <<want, held, cal, saved, dump, trace, http>>

\* Whether a frame is traced is decided once, before its bands are written.
Tracing == trace.on /\ trace.buf /\ trace.n < TraceFrames
Analyse(from) == task.pc = from /\ task' = [task EXCEPT !.pc = "bands", !.tr = Tracing]

NoDump ==
  /\ ~dump.req /\ Analyse("dump")
  /\ UNCHANGED <<want, held, test, acq, layout, cal, base, saved, dump, trace, http>>

DumpRaw ==
  /\ dump.req /\ Task("dump", "dumpdec")
  /\ dump' = [dump EXCEPT !.raw = task.frame, !.mine = TRUE]
  /\ UNCHANGED <<want, held, test, acq, layout, cal, base, saved, trace, http>>

DumpDec ==
  /\ Task("dumpdec", "dumpgive") /\ dump' = [dump EXCEPT !.dec = task.frame, !.req = FALSE]
  /\ UNCHANGED <<want, held, test, acq, layout, cal, base, saved, trace, http>>

DumpGive ==
  /\ Analyse("dumpgive") /\ dump' = [dump EXCEPT !.sem = 1]
  /\ UNCHANGED <<want, held, test, acq, layout, cal, base, saved, trace, http>>

Odd == IF layout = want.top THEN 0 ELSE 1
SumBands ==
  /\ task.pc = "bands" /\ task' = [task EXCEPT !.pc = "judge", !.tr = FALSE]
  /\ cal' = IF cal.req /\ cal.sum <= CalFrames
              THEN [cal EXCEPT !.sum = @ + 1, !.odd = @ + Odd] ELSE cal
  /\ trace' = IF ~task.tr \/ trace.n >= TraceFrames THEN trace
                ELSE [trace EXCEPT !.n = @ + 1, !.on = @ /\ trace.n + 1 < TraceFrames]
  /\ UNCHANGED <<want, held, test, acq, layout, base, saved, dump, http>>

\* The spike guard holds a frame back, or the gate closes on it: the frame is not counted.
Uncounted ==
  /\ Task("judge", "top")
  /\ UNCHANGED <<want, held, test, acq, layout, cal, base, saved, dump, trace, http>>

\* What is left in the counters is not read again before the next request empties them.
Left(c) == [req |-> FALSE, cnt |-> 0, sum |-> 0, odd |-> 0, sem |-> c.sem]

SlipCounted(n) == CalFrames
Counted(n) == n + 1
Judged ==
  /\ cal.req
  /\ LET n == Counted(cal.cnt) IN
       /\ Task("judge", IF n < CalFrames THEN "top" ELSE "clear")
       /\ cal' = [cal EXCEPT !.cnt = IF n < CalFrames THEN n ELSE CalFrames]
       /\ base' = IF n < CalFrames THEN base
                    ELSE [on |-> TRUE, sum |-> cal.sum, odd |-> cal.odd, mine |-> TRUE]
  /\ UNCHANGED <<want, held, test, acq, layout, saved, dump, trace, http>>

ClearRequest ==
  /\ Task("clear", "give") /\ cal' = Left(cal)
  /\ UNCHANGED <<want, held, test, acq, layout, base, saved, dump, trace, http>>

GiveDone ==
  /\ Task("give", "top") /\ cal' = [cal EXCEPT !.sem = 1]
  /\ UNCHANGED <<want, held, test, acq, layout, base, saved, dump, trace, http>>

MicTask == EndTest \/ Gated \/ ReadFrame \/ NoDump \/ DumpRaw \/ DumpDec \/ DumpGive \/ SumBands
           \/ Uncounted \/ Judged \/ ClearRequest \/ GiveDone

-----------------------------------------------------------------------------
\* The web server's thread.
Http(from, to) == http.pc = from /\ http' = [http EXCEPT !.pc = to]
Running == task.pc # "none"

\* Where the task is doing what a caller waits for.
Finishing == task.pc \in {"clear", "give"}
Dumping == task.pc \in {"dumpdec", "dumpgive"}

\* api_mic_calibrate and mic_calibrate.
Calibrate ==
  /\ use = "baseline" /\ Running /\ Http("idle", "calwait")
  /\ cal' = [req |-> TRUE, cnt |-> 0, sum |-> 0, odd |-> 0, sem |-> cal.sem]
  /\ base' = [base EXCEPT !.mine = FALSE]
  /\ UNCHANGED <<want, held, test, task, acq, layout, saved, dump, trace>>

TakeDone ==
  /\ Http("calwait", "calread") /\ cal.sem = 1 /\ cal' = [cal EXCEPT !.sem = 0]
  /\ UNCHANGED <<want, held, test, task, acq, layout, base, saved, dump, trace>>

CalTimeout ==
  /\ cal.sem = 0 /\ (Late \/ ~Finishing) /\ Http("calwait", "idle")
  /\ cal' = Left(cal)
  /\ UNCHANGED <<want, held, test, task, acq, layout, base, saved, dump, trace>>

Label == want.top
KeepBaseline ==
  /\ Http("calread", "idle") /\ saved' = [on |-> TRUE, top |-> Label, odd |-> base.odd]
  /\ UNCHANGED <<want, held, test, task, acq, layout, cal, base, dump, trace>>

\* api_mic_reset_calibration.
ResetCalibration ==
  /\ use = "baseline" /\ Running /\ http.pc = "idle" /\ base' = NoBase /\ saved' = NotSaved
  /\ UNCHANGED <<want, held, test, task, acq, layout, cal, dump, trace, http>>

\* mic_set_test_capture: the deadline, then the flag.
SetTest ==
  /\ use = "capture" /\ Running /\ http.pc = "idle" /\ (Late \/ task.pc # "expired")
  /\ \E on \in BOOLEAN : test' = IF on THEN [on |-> TRUE, over |-> FALSE] ELSE [test EXCEPT !.on = FALSE]
  /\ UNCHANGED <<want, held, task, acq, layout, cal, base, saved, dump, trace, http>>

\* mic_capture_frame_pair: drain, ask, wait, copy.
Drain == [dump EXCEPT !.sem = 0]
AskFrame ==
  /\ use = "export" /\ Running /\ Http("idle", "framewait")
  /\ dump' = [Drain EXCEPT !.req = TRUE, !.mine = FALSE]
  /\ UNCHANGED <<want, held, test, task, acq, layout, cal, base, saved, trace>>

FrameTimeout ==
  /\ dump.sem = 0 /\ (Late \/ ~Dumping) /\ Http("framewait", "idle")
  /\ dump' = [dump EXCEPT !.req = FALSE]
  /\ UNCHANGED <<want, held, test, task, acq, layout, cal, base, saved, trace>>

TakeFrame ==
  /\ http.pc = "framewait" /\ dump.sem = 1
  /\ http' = [http EXCEPT !.pc = "copydec", !.raw = dump.raw]
  /\ dump' = [dump EXCEPT !.sem = 0]
  /\ UNCHANGED <<want, held, test, task, acq, layout, cal, base, saved, trace>>

CopyDec ==
  /\ http.pc = "copydec" /\ http' = [http EXCEPT !.pc = "frame", !.dec = dump.dec]
  /\ UNCHANGED <<want, held, test, task, acq, layout, cal, base, saved, dump, trace>>

SendFrame ==
  /\ http.pc = "frame" /\ http' = [pc |-> "idle", raw |-> 0, dec |-> 0]
  /\ UNCHANGED <<want, held, test, task, acq, layout, cal, base, saved, dump, trace>>

\* mic_trace_free, which mic_trace_start calls first: recording stops, 40 ms pass, the
\* buffer goes.  A frame takes less than the 40 ms.
StopTrace ==
  /\ use = "export"
  /\ \E to \in {"newtrace", "notrace"} : Http("idle", to)
  /\ trace' = [trace EXCEPT !.on = FALSE]
  /\ UNCHANGED <<want, held, test, task, acq, layout, cal, base, saved, dump>>

FrameOver     == ~task.tr
FreeTrace ==
  /\ FrameOver /\ http.pc \in {"newtrace", "notrace"}
  /\ http' = [http EXCEPT !.pc = "idle"]
  /\ \/ trace' = [buf |-> FALSE, n |-> 0, on |-> FALSE]
     \/ http.pc = "newtrace" /\ trace' = [buf |-> TRUE, n |-> 0, on |-> TRUE]
  /\ UNCHANGED <<want, held, test, task, acq, layout, cal, base, saved, dump>>

\* Settings are saved by the same thread; the mode and the hold come from the display.
SaveSettings ==
  /\ http.pc = "idle"
  /\ \E w \in Settings :
       /\ w.spec = want.spec /\ want' = w
       /\ w.top # want.top => use = "baseline"
       /\ w.ch # want.ch => use = "capture"
  /\ UNCHANGED <<held, test, task, acq, layout, cal, base, saved, dump, trace, http>>

ShowMode ==
  /\ want' = [want EXCEPT !.spec = ~@]
  /\ UNCHANGED <<held, test, task, acq, layout, cal, base, saved, dump, trace, http>>

HoldCapture ==
  /\ held' = ~held
  /\ UNCHANGED <<want, test, task, acq, layout, cal, base, saved, dump, trace, http>>

Deadline ==
  /\ test.on /\ ~test.over /\ test' = [test EXCEPT !.over = TRUE]
  /\ UNCHANGED <<want, held, task, acq, layout, cal, base, saved, dump, trace, http>>

WebServer == Calibrate \/ TakeDone \/ CalTimeout \/ KeepBaseline \/ ResetCalibration \/ SetTest
             \/ AskFrame \/ FrameTimeout \/ TakeFrame \/ CopyDec \/ SendFrame
             \/ StopTrace \/ FreeTrace \/ SaveSettings

Next == (MicTask \/ WebServer \/ ShowMode \/ HoldCapture \/ Deadline \/ Boot) /\ UNCHANGED use

Spec == Init /\ [][Next]_capVars

-----------------------------------------------------------------------------
TypeOk ==
  /\ use \in Uses /\ want \in Settings /\ held \in BOOLEAN /\ test \in [on : BOOLEAN, over : BOOLEAN]
  /\ task.frame \in {0, 1} /\ acq.ch \in Channels /\ acq.conv \in Channels
  /\ layout \in Layouts
  /\ cal.cnt \in 0..CalFrames /\ cal.sum \in 0..CalFrames + 1 /\ cal.odd \in 0..cal.sum
  /\ cal.sem \in {0, 1} /\ dump.sem \in {0, 1} /\ trace.n \in 0..TraceFrames
  /\ saved \in [on : BOOLEAN, top : Layouts, odd : 0..CalFrames + 1]

\* microphone.h:104: mic_calibrate returns true when the frames of its own request
\* have been averaged, all but one that was half analysed when it was made, never on
\* what an earlier call left behind; and of the frames it averaged at most one was
\* analysed under another layout than the one the baseline is filed under, whatever is
\* saved or shown in the meantime.
BaselineHonest ==
  /\ http.pc = "calread" => base.mine /\ base.sum >= CalFrames - 1
  /\ saved.on => saved.odd <= 1
  /\ base.on /\ base.odd > 1 => layout # want.top

\* microphone.c:380: the frames come from the channel that mic_task believes it is
\* converting, through every change of the channel and every failure to start,
\* except that a converter which would not stop keeps its old channel.
ChannelConverted == acq.run /\ ~acq.stuck => acq.conv = acq.ch

\* microphone.c:837-841: the raw and the decimated view a caller gets are of the SAME
\* frame, and of one captured after it asked; and no frame is written into a trace
\* buffer that has been freed.
ExportsWhole ==
  /\ http.pc = "frame" => http.raw = http.dec /\ dump.mine
  /\ task.tr => trace.buf

\* microphone.h: a test window lasts until its deadline or until it is switched off.
TestWindowLasts ==
  [][test.on /\ ~test.over /\ ~test'.on => task.pc # "expired"]_capVars

\* microphone.h:104: a baseline averages MIC_CAL_FRAMES frames.
BaselineAverages == base.mine => base.sum = CalFrames
=============================================================================
