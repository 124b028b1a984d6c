----------------------------- MODULE DisplayPark -----------------------------
(***************************************************************************)
(* Who may drive the LCD bus: the display task of display.c, the callers   *)
(* of display_pause_for_spi() and display_unpause(), and the owner of the  *)
(* wait screen (display_show_wait() until a restart or                     *)
(* display_resume_after_wait()).                                           *)
(*                                                                         *)
(* Tasks interleave between any two accesses to a shared variable; only    *)
(* the sections under s_pause_mux are atomic.  A polling loop may give up  *)
(* whenever it finds s_parked clear, because a render can outlast every    *)
(* timeout; the one thing assumed of time is that a vTaskResume() that     *)
(* follows its critical section lands before a timeout of seconds does.    *)
(*                                                                         *)
(* A definition named Slip... is a plausible wrong version of the one that *)
(* follows it; nothing refers to it.                                       *)
(***************************************************************************)
EXTENDS Integers, FiniteSets

CONSTANTS
  Pausers,  \* tasks that call display_pause_for_spi
  Overlaps  \* which overlaps occur: calls of display_pause_for_spi during a
            \* wait screen of that kind; "tune": table rebuilds beside others

Kinds == {"restart",  \* firmware and filesystem updates end in esp_restart
          "resume"}   \* web UI and theme jobs end in display_resume_after_wait

ASSUME ParkAssumption ==
  IsFiniteSet(Pausers) /\ Overlaps \subseteq Kinds \cup {"tune"}

VARIABLES
  wait,     \* s_wait_active
  req,      \* s_park_req
  parked,   \* s_parked
  cnt,      \* s_pause_refcount
  disp,     \* where the display task is in its loop
  susp,     \* the display task is in state eSuspended
  pc,       \* per pauser: where it is
  owner,    \* where the wait-screen owner is
  kind,     \* how the current wait screen will end
  tuning    \* an applier is between its vTaskSuspend and vTaskResume

vars == <<wait, req, parked, cnt, disp, susp, pc, owner, kind, tuning>>
flags == <<wait, req, parked, cnt>>
display == <<disp, susp>>
screen == <<owner, kind, tuning>>

DispPcs  == {"top", "asked", "parking", "parked", "render"}
PausePcs == {"idle", "enter", "first", "poll", "giveup", "withdraw", "landing",
             "hold", "late", "lateHold", "wake"}
OwnerPcs == {"idle", "ask", "poll", "hard", "draw", "up", "wake"}

Init ==
  /\ wait = FALSE /\ req = FALSE /\ parked = FALSE /\ cnt = 0
  /\ disp = "top" /\ susp = FALSE
  /\ pc = [p \in Pausers |-> "idle"]
  /\ owner = "idle" /\ kind = "restart" /\ tuning = FALSE

WakeDue == owner = "wake" \/ \E p \in Pausers : pc[p] = "wake"
Engaged == wait \/ owner # "idle" \/ \E p \in Pausers : pc[p] # "idle"
Undisturbed == tuning => "tune" \in Overlaps
Holding == {p \in Pausers : pc[p] \in {"hold", "lateHold"}}

-----------------------------------------------------------------------------
(* The display task's loop.  It takes no step while it is suspended. *)

CheckRequest ==
  /\ ~susp /\ disp = "top"
  /\ disp' = IF req THEN "asked" ELSE "render"
  /\ UNCHANGED <<flags, susp, pc, screen>>

SetParked ==
  /\ ~susp /\ disp = "asked"
  /\ parked' = TRUE
  /\ disp' = "parking"
  /\ UNCHANGED <<wait, req, cnt, susp, pc, screen>>

SuspendSelf ==
  /\ ~susp /\ disp = "parking"
  /\ susp' = TRUE
  /\ disp' = "parked"
  /\ UNCHANGED <<flags, pc, screen>>

\* Back from vTaskSuspend the task renders without looking at s_park_req.
AfterResume ==
  /\ ~susp /\ disp = "parked"
  /\ disp' = "render"
  /\ UNCHANGED <<flags, susp, pc, screen>>

EndRender ==
  /\ ~susp /\ disp = "render"
  /\ disp' = "top"
  /\ UNCHANGED <<flags, susp, pc, screen>>

DisplayStep ==
  CheckRequest \/ SetParked \/ SuspendSelf \/ AfterResume \/ EndRender

-----------------------------------------------------------------------------
(* display_pause_for_spi *)

At(p, from, to) == pc[p] = from /\ pc' = [pc EXCEPT ![p] = to]

ReadWait(p) ==
  /\ Undisturbed
  /\ IF wait THEN kind \in Overlaps /\ At(p, "idle", "late") ELSE At(p, "idle", "enter")
  /\ UNCHANGED <<flags, display, screen>>

LateGranted(p) ==
  /\ At(p, "late", "lateHold") /\ susp
  /\ UNCHANGED <<flags, display, screen>>

LateRefused(p) ==
  /\ At(p, "late", "idle") /\ ~susp
  /\ UNCHANGED <<flags, display, screen>>

TakeRef(p) ==
  /\ At(p, "enter", IF cnt + 1 = 1 THEN "first" ELSE "poll")
  /\ cnt' = cnt + 1
  /\ UNCHANGED <<wait, req, parked, display, screen>>

Request(p) ==
  /\ At(p, "first", "poll")
  /\ req' = TRUE
  /\ UNCHANGED <<wait, parked, cnt, display, screen>>

SeeParked(p) ==
  /\ At(p, "poll", "landing") /\ parked
  /\ UNCHANGED <<flags, display, screen>>

TimeOut(p) ==
  /\ At(p, "poll", "giveup") /\ ~parked /\ ~WakeDue
  /\ UNCHANGED <<flags, display, screen>>

SlipGivenBack(n) == n
GivenBack(n)     == n - 1

DropRef(p) ==
  /\ At(p, "giveup", IF GivenBack(cnt) = 0 THEN "withdraw" ELSE "idle")
  /\ cnt' = GivenBack(cnt)
  /\ UNCHANGED <<wait, req, parked, display, screen>>

Withdraw(p) ==
  /\ At(p, "withdraw", "idle")
  /\ req' = FALSE
  /\ UNCHANGED <<wait, parked, cnt, display, screen>>

Landed == susp

Granted(p) ==
  /\ At(p, "landing", "hold") /\ Landed
  /\ UNCHANGED <<flags, display, screen>>

-----------------------------------------------------------------------------
(* display_unpause: a section under the mux, then vTaskResume. *)

Released(n)     == IF n > 0 THEN n - 1 ELSE n

SlipLastOut(n) == ~wait
LastOut(n)     == n = 0 /\ ~wait

Release(p) ==
  LET n == Released(cnt) IN
  /\ p \in Holding
  /\ cnt' = n
  /\ IF LastOut(n)
       THEN /\ req' = FALSE /\ parked' = FALSE
            /\ pc' = [pc EXCEPT ![p] = "wake"]
       ELSE /\ UNCHANGED <<req, parked>>
            /\ pc' = [pc EXCEPT ![p] = "idle"]
  /\ UNCHANGED <<wait, display, screen>>

Wake(p) ==
  /\ At(p, "wake", "idle")
  /\ susp' = FALSE
  /\ UNCHANGED <<flags, disp, screen>>

PauserStep(p) ==
  \/ LateGranted(p) \/ LateRefused(p)
  \/ TakeRef(p) \/ Request(p) \/ SeeParked(p) \/ TimeOut(p) \/ DropRef(p)
  \/ Withdraw(p) \/ Granted(p) \/ Release(p) \/ Wake(p)

-----------------------------------------------------------------------------
(* display_show_wait and the two ways it ends *)

OwnerAt(from, to) == owner = from /\ owner' = to

BeginWait ==
  /\ Undisturbed
  /\ OwnerAt("idle", "ask")
  /\ wait' = TRUE
  /\ kind' \in Kinds
  /\ UNCHANGED <<req, parked, cnt, display, pc, tuning>>

AskPark ==
  /\ OwnerAt("ask", "poll")
  /\ req' = TRUE
  /\ UNCHANGED <<wait, parked, cnt, display, pc, kind, tuning>>

OwnerSeesParked ==
  /\ OwnerAt("poll", "draw") /\ parked
  /\ UNCHANGED <<flags, display, pc, kind, tuning>>

OwnerTimesOut ==
  /\ OwnerAt("poll", "hard") /\ ~parked /\ ~WakeDue
  /\ UNCHANGED <<flags, display, pc, kind, tuning>>

SlipAfterHard == "draw"
AfterHard     == "up"

HardSuspend ==
  /\ OwnerAt("hard", AfterHard)
  /\ susp' = TRUE
  /\ UNCHANGED <<flags, disp, pc, kind, tuning>>

EndDraw ==
  /\ OwnerAt("draw", "up")
  /\ UNCHANGED <<flags, display, pc, kind, tuning>>

ResumeAfterWait ==
  /\ owner = "up" /\ kind = "resume"
  /\ wait' = FALSE
  /\ IF cnt = 0
       THEN /\ req' = FALSE /\ parked' = FALSE /\ owner' = "wake"
       ELSE /\ UNCHANGED <<req, parked>> /\ owner' = "idle"
  /\ UNCHANGED <<cnt, display, pc, kind, tuning>>

OwnerWake ==
  /\ OwnerAt("wake", "idle")
  /\ susp' = FALSE
  /\ UNCHANGED <<flags, disp, pc, kind, tuning>>

EspRestart ==
  /\ owner = "up" /\ kind = "restart"
  /\ wait' = FALSE /\ req' = FALSE /\ parked' = FALSE /\ cnt' = 0
  /\ disp' = "top" /\ susp' = FALSE
  /\ pc' = [p \in Pausers |-> "idle"]
  /\ owner' = "idle" /\ tuning' = FALSE
  /\ UNCHANGED kind

OwnerStep ==
  \/ AskPark \/ OwnerSeesParked \/ OwnerTimesOut \/ HardSuspend \/ EndDraw
  \/ ResumeAfterWait \/ OwnerWake \/ EspRestart

-----------------------------------------------------------------------------
(* display_apply_tube_brightness, _shadow_lift, _color, _channel_curves and *)
(* _gamma                                                                   *)

TuneSuspend ==
  /\ ~tuning /\ ("tune" \in Overlaps \/ ~(Engaged \/ parked))
  /\ tuning' = TRUE /\ susp' = TRUE
  /\ UNCHANGED <<flags, disp, pc, owner, kind>>

TuneResume ==
  /\ tuning
  /\ tuning' = FALSE /\ susp' = FALSE
  /\ UNCHANGED <<flags, disp, pc, owner, kind>>

Next ==
  \/ DisplayStep
  \/ TuneSuspend \/ TuneResume
  \/ \E p \in Pausers : ReadWait(p) \/ PauserStep(p)
  \/ BeginWait \/ OwnerStep

Spec == Init /\ [][Next]_vars

\* FreeRTOS runs every ready task and every caller lets go in the end; nobody
\* is obliged to call display_pause_for_spi or to start an update.
Fairness ==
  /\ WF_vars(DisplayStep) /\ WF_vars(TuneResume)
  /\ \A p \in Pausers : WF_vars(PauserStep(p))
  /\ WF_vars(OwnerStep)
FairSpec == Spec /\ Fairness

-----------------------------------------------------------------------------
(* Properties *)

\* Pausers that took a reference and have not given it back.
Counted == {p \in Pausers :
              pc[p] \in {"first", "poll", "giveup", "landing", "hold"}}

\* The reference count stays within the number of callers, in both directions,
\* and every task stands at one of its steps.
TypeOk ==
  /\ wait \in BOOLEAN /\ req \in BOOLEAN /\ parked \in BOOLEAN
  /\ cnt \in -Cardinality(Pausers) .. Cardinality(Pausers)
  /\ disp \in DispPcs /\ susp \in BOOLEAN
  /\ pc \in [Pausers -> PausePcs]
  /\ owner \in OwnerPcs /\ kind \in Kinds /\ tuning \in BOOLEAN

\* The display task never runs while a caller that was counted has been told
\* that it may use the bus, whatever other callers and the wait screen do; and the
\* wait screen is drawn only while the display task is stopped, or about to stop,
\* at its loop boundary, where it has no transaction open.
BusOfOne ==
  /\ \A p \in Pausers : pc[p] = "hold" => susp
  /\ owner = "draw" => (disp = "parking" \/ (disp = "parked" /\ susp))

\* While no wait screen is up, the reference count is the number of callers
\* that hold or await the park.
RefcountExact == ~wait => cnt = Cardinality(Counted)

\* display_pause_for_spi always returns, with true or false.
PauseReturns ==
  LET p == CHOOSE one \in Pausers : TRUE   \* the callers are interchangeable
  IN pc[p] \in {"first", "landing"} ~> pc[p] \in {"idle", "hold"}

(* What comments say, and the code does not keep. *)

\* display.c:96: the display task only resumes once the last holder releases.
ResumesAfterLastHolder ==
  [][disp = "parked" /\ susp /\ ~susp' => Holding' = {}]_vars

\* display.c:13027-13033: whatever way it was stopped, the display task runs
\* again after display_resume_after_wait.
RunsAfterWait == susp => Engaged \/ tuning \/ parked

=============================================================================
