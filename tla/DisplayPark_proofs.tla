-------------------------- MODULE DisplayPark_proofs --------------------------
(***************************************************************************)
(* Proofs about DisplayPark, for any finite set of callers.                *)
(*                                                                         *)
(* Neither property is inductive.  BusOfOne needs to know what a pending   *)
(* vTaskResume excludes (WakeInv: nobody has been told that the display    *)
(* task is parked, and the flag that would tell him is down) and what a    *)
(* caller who was told can rely on (ParkInv).  RefcountExact must survive  *)
(* the wait screen, where late callers give back what they never took:     *)
(* that happens in the kind that ends in a restart only (LateInv), so the  *)
(* count is exact through the other kind as well (CountInv).               *)
(***************************************************************************)
EXTENDS DisplayPark, FiniteSetTheorems, TLAPS

Late == {p \in Pausers : pc[p] \in {"late", "lateHold"}}
Told == {p \in Pausers : pc[p] \in {"landing", "hold"}}

WaitInv == wait <=> owner \notin {"idle", "wake"}
LateInv == Late # {} => wait /\ kind = "restart"

\* Callers counted and the count itself: apart only until the restart.
CountInv ==
  /\ ~(wait /\ kind = "restart") => cnt = Cardinality(Counted)
  /\ Cardinality(Counted) - Cardinality(Pausers) <= cnt
  /\ cnt <= Cardinality(Counted)

\* s_parked is up only while the display task is at its loop boundary.
ParkInv ==
  /\ parked => \/ disp = "parking"
               \/ disp = "parked" /\ susp
  /\ Told # {} => parked
  /\ owner = "draw" => parked
  /\ owner = "up" => susp \/ disp = "parking"

\* A vTaskResume that is still to come finds nobody relying on the park.
WakeInv ==
  /\ WakeDue => ~parked /\ (susp \/ disp = "parking")
  /\ tuning => ~Engaged /\ ~parked /\ susp

\* There is never more than one.
WakeOnce ==
  /\ \A p, q \in Pausers : pc[p] = "wake" /\ pc[q] = "wake" => p = q
  /\ owner \in {"hard", "up", "wake"} => \A p \in Pausers : pc[p] # "wake"

HoldInv == \A p \in Pausers : pc[p] = "hold" => susp

CountIInv == TypeOk /\ WaitInv /\ LateInv /\ CountInv
ParkIInv == ParkInv /\ WakeInv /\ WakeOnce /\ HoldInv

\* No call of display_pause_for_spi meets a wait screen that gives the display
\* back; and, for BusOfOne, no table rebuild runs beside a caller either.  TLC
\* finds both properties broken without the first, BusOfOne without the second
\* (and what a rebuild does beside a caller in DisplayPark_resumed).
NoneLate == "resume" \notin Overlaps
Apart == NoneLate /\ "tune" \notin Overlaps

CountPcs == {"first", "poll", "giveup", "landing", "hold"}

-----------------------------------------------------------------------------
(* How many are counted. *)

LEMMA CallersBound ==
  ASSUME NEW S \in SUBSET Pausers
  PROVE  /\ IsFiniteSet(S)
         /\ Cardinality(Pausers) \in Nat /\ Cardinality(S) \in Nat
         /\ Cardinality(S) <= Cardinality(Pausers)
         /\ S # {} => Cardinality(S) > 0
<1>1. IsFiniteSet(Pausers)
  BY ParkAssumption DEF ParkAssumption
<1>2. IsFiniteSet(S) /\ Cardinality(S) <= Cardinality(Pausers)
  BY <1>1, FS_Subset
<1>3. Cardinality(Pausers) \in Nat /\ Cardinality(S) \in Nat
  BY <1>1, <1>2, FS_CardinalityType
<1>4. Cardinality(S) = 0 <=> S = {}
  BY <1>2, FS_EmptySet
<1> QED BY <1>2, <1>3, <1>4

LEMMA CountBounds ==
  /\ Counted \in SUBSET Pausers /\ Counted' \in SUBSET Pausers
  /\ IsFiniteSet(Counted)
  /\ Cardinality(Pausers) \in Nat
  /\ Cardinality(Counted) \in Nat /\ Cardinality(Counted') \in Nat
  /\ Cardinality(Counted) <= Cardinality(Pausers)
  /\ Cardinality(Counted') <= Cardinality(Pausers)
  /\ Counted # {} => Cardinality(Counted) > 0
<1>1. Counted \in SUBSET Pausers /\ Counted' \in SUBSET Pausers
  BY DEF Counted
<1> QED BY <1>1, CallersBound

\* The count changes by one when a caller takes a reference or gives it back.
LEMMA CountStep ==
  ASSUME pc \in [Pausers -> PausePcs], NEW p \in Pausers, NEW to \in PausePcs,
         pc' = [pc EXCEPT ![p] = to]
  PROVE  Cardinality(Counted') =
           IF pc[p] \in CountPcs
             THEN IF to \in CountPcs THEN Cardinality(Counted) ELSE Cardinality(Counted) - 1
             ELSE IF to \in CountPcs THEN Cardinality(Counted) + 1 ELSE Cardinality(Counted)
<1>1. Counted' = IF to \in CountPcs THEN Counted \cup {p} ELSE Counted \ {p}
  BY DEF Counted, CountPcs
<1>2. p \in Counted <=> pc[p] \in CountPcs
  BY DEF Counted, CountPcs
<1>3. IsFiniteSet(Counted) /\ Cardinality(Counted) \in Nat
  BY CountBounds
<1>4. Cardinality(Counted \cup {p}) =
        IF p \in Counted THEN Cardinality(Counted) ELSE Cardinality(Counted) + 1
  BY <1>3, FS_AddElement
<1>5. Cardinality(Counted \ {p}) =
        IF p \in Counted THEN Cardinality(Counted) - 1 ELSE Cardinality(Counted)
  BY <1>3, FS_RemoveElement
<1> QED BY <1>1, <1>2, <1>4, <1>5

LEMMA CountSame == UNCHANGED pc => Cardinality(Counted') = Cardinality(Counted)
BY DEF Counted

-----------------------------------------------------------------------------
LEMMA InitInv == Init => CountIInv /\ ParkIInv
<1> SUFFICES ASSUME Init PROVE CountIInv /\ ParkIInv
  OBVIOUS
<1>1. Counted = {} /\ Cardinality(Counted) = 0
  BY FS_EmptySet DEF Init, Counted
<1>2. TypeOk
  <2>1. cnt \in -Cardinality(Pausers) .. Cardinality(Pausers)
    BY CountBounds DEF Init
  <2> QED BY <2>1 DEF Init, TypeOk, DispPcs, PausePcs, OwnerPcs, Kinds
<1>3. CountInv
  BY <1>1, CountBounds DEF Init, CountInv
<1> QED BY <1>2, <1>3 DEF Init, CountIInv, ParkIInv, WaitInv, LateInv, ParkInv, WakeInv, WakeOnce, HoldInv,
           Late, Told, WakeDue, Engaged

\* The steps of the display task leave the callers and the owner where they are.
LEMMA DisplayInv ==
  ASSUME CountIInv, DisplayStep
  PROVE  CountIInv' /\ (ParkIInv => ParkIInv')
<1>1. UNCHANGED <<wait, req, cnt, pc, screen>>
  BY DEF DisplayStep, CheckRequest, SetParked, SuspendSelf, AfterResume, EndRender, flags
<1>2. (WaitInv /\ LateInv /\ CountInv)' /\ (WakeOnce => WakeOnce')
  BY <1>1, CountSame DEF CountIInv, WaitInv, LateInv, CountInv, WakeOnce, Late, screen
<1>3. TypeOk' /\ (ParkIInv => (ParkInv /\ WakeInv /\ HoldInv)')
  <2> USE DEF CountIInv, ParkIInv, TypeOk, ParkInv, WakeInv, HoldInv, Told, WakeDue, Engaged,
              flags, screen, DispPcs
  <2>1. CASE CheckRequest
    BY <2>1 DEF CheckRequest
  <2>2. CASE SetParked
    BY <2>2 DEF SetParked
  <2>3. CASE SuspendSelf
    BY <2>3 DEF SuspendSelf
  <2>4. CASE AfterResume
    BY <2>4 DEF AfterResume
  <2>5. CASE EndRender
    BY <2>5 DEF EndRender
  <2> QED BY <2>1, <2>2, <2>3, <2>4, <2>5 DEF DisplayStep
<1> QED BY <1>2, <1>3 DEF CountIInv, ParkIInv

-----------------------------------------------------------------------------
(* The callers: what they count, and what they are told. *)

LEMMA PauserCount ==
  ASSUME NoneLate, CountIInv, NEW p \in Pausers, ReadWait(p) \/ PauserStep(p)
  PROVE  CountIInv'
<1> DEFINE n == Cardinality(Counted)
           m == Cardinality(Pausers)
<1>1. PICK to \in PausePcs : pc' = [pc EXCEPT ![p] = to]
  BY DEF ReadWait, PauserStep, LateGranted, LateRefused, TakeRef, Request, SeeParked,
         TimeOut, DropRef, Withdraw, Granted, Release, Wake, At, PausePcs
<1>2. n' = IF pc[p] \in CountPcs
             THEN IF to \in CountPcs THEN n ELSE n - 1
             ELSE IF to \in CountPcs THEN n + 1 ELSE n
  BY <1>1, CountStep DEF CountIInv, TypeOk
<1>3. n \in Nat /\ m \in Nat /\ n <= m /\ (pc[p] \in CountPcs => n > 0)
  BY CountBounds DEF Counted, CountPcs
<1>4. n' \in Nat /\ n' <= m
  BY CountBounds
<1>5. CountInv /\ cnt \in Int /\ p \in DOMAIN pc /\ pc'[p] = to
  BY <1>1 DEF CountIInv, TypeOk
<1>6. cnt' \in Int /\ CountInv'
  <2> USE <1>2, <1>3, <1>4, <1>5 DEF CountInv, flags, screen, At, CountPcs
  <2>1. CASE ReadWait(p)
    BY <2>1 DEF ReadWait
  <2>2. CASE LateGranted(p) \/ LateRefused(p)
    BY <2>2 DEF LateGranted, LateRefused
  <2>3. CASE TakeRef(p)
    BY <2>3 DEF TakeRef
  <2>4. CASE Request(p)
    BY <2>4 DEF Request
  <2>5. CASE SeeParked(p) \/ TimeOut(p)
    BY <2>5 DEF SeeParked, TimeOut
  <2>6. CASE DropRef(p)
    BY <2>6 DEF DropRef, GivenBack
  <2>7. CASE Withdraw(p)
    BY <2>7 DEF Withdraw
  <2>8. CASE Granted(p)
    BY <2>8 DEF Granted
  <2>9. CASE Release(p)
    <3>1. pc[p] = "lateHold" => wait /\ kind = "restart"
      BY DEF CountIInv, LateInv, Late
    <3>2. pc[p] \in {"hold", "lateHold"} /\ to \notin CountPcs
      BY <2>9 DEF Release, Holding
    <3>3. cnt' = Released(cnt) /\ UNCHANGED <<wait, kind>>
      BY <2>9 DEF Release
    <3> QED BY <3>1, <3>2, <3>3 DEF Released
  <2>10. CASE Wake(p)
    BY <2>10 DEF Wake
  <2> QED BY <2>1, <2>2, <2>3, <2>4, <2>5, <2>6, <2>7, <2>8, <2>9, <2>10 DEF PauserStep
<1>7. cnt' \in -m .. m
  BY <1>3, <1>4, <1>6 DEF CountInv
<1>8. pc' \in [Pausers -> PausePcs]
  BY <1>1 DEF CountIInv, TypeOk
<1>9. UNCHANGED <<wait, disp, owner, kind, tuning>> /\ susp' \in BOOLEAN
      /\ req' \in BOOLEAN /\ parked' \in BOOLEAN
  BY DEF ReadWait, PauserStep, LateGranted, LateRefused, TakeRef, Request, SeeParked,
         TimeOut, DropRef, Withdraw, Granted, Release, Wake, flags, display, screen, CountIInv, TypeOk
<1>10. TypeOk'
  BY <1>7, <1>8, <1>9 DEF TypeOk, CountIInv
<1>11. WaitInv' /\ LateInv'
  BY <1>1, <1>9 DEF CountIInv, WaitInv, LateInv, Late, TypeOk, NoneLate, Kinds, ReadWait, PauserStep,
         LateGranted, LateRefused, TakeRef, Request, SeeParked, TimeOut, DropRef, Withdraw, Granted,
         Release, Wake, At
<1> QED BY <1>6, <1>10, <1>11 DEF CountIInv


LEMMA PauserPark ==
  ASSUME Apart, CountIInv, ParkIInv, NEW p \in Pausers, ReadWait(p) \/ PauserStep(p)
  PROVE  ParkIInv'
<1> USE DEF CountIInv, ParkIInv, WaitInv, LateInv, ParkInv, WakeInv, WakeOnce, HoldInv, Late, Told,
            WakeDue, Engaged, flags, display, screen, At
<1>1. pc \in [Pausers -> PausePcs]
  BY DEF TypeOk
<1>2. ~tuning
  BY DEF Apart, NoneLate, ReadWait, Undisturbed, PauserStep, LateGranted, LateRefused, TakeRef, Request, SeeParked,
         TimeOut, DropRef, Withdraw, Granted, Release, Wake, Holding
<1>3. CASE ReadWait(p)
  BY <1>1, <1>2, <1>3 DEF ReadWait, Apart, NoneLate
<1>4. CASE LateGranted(p) \/ LateRefused(p)
  BY <1>1, <1>2, <1>4 DEF LateGranted, LateRefused
<1>5. CASE TakeRef(p)
  BY <1>1, <1>2, <1>5 DEF TakeRef
<1>6. CASE Request(p)
  BY <1>1, <1>2, <1>6 DEF Request
<1>7. CASE SeeParked(p) \/ TimeOut(p)
  BY <1>1, <1>2, <1>7 DEF SeeParked, TimeOut
<1>8. CASE DropRef(p)
  BY <1>1, <1>2, <1>8 DEF DropRef
<1>9. CASE Withdraw(p)
  BY <1>1, <1>2, <1>9 DEF Withdraw
<1>10. CASE Granted(p)
  BY <1>1, <1>2, <1>10 DEF Granted, Landed
<1>11. CASE Release(p)
  <2>1. CASE LastOut(Released(cnt))
    \* The last reference was this caller's, so nobody else has been told.
    <3>1. ~wait /\ pc[p] = "hold" /\ pc' = [pc EXCEPT ![p] = "wake"]
      BY <1>11, <2>1 DEF Release, LastOut, Holding
    <3>2. p \in Counted /\ cnt = Cardinality(Counted) /\ Cardinality(Counted) > 0
      BY <3>1, CountBounds DEF CountInv, Counted
    <3>3. Cardinality(Counted) = 1
      BY <2>1, <3>2, CountBounds DEF LastOut, Released
    <3>4. \A q \in Counted : q = p
      BY <3>2, <3>3, CountBounds, FS_Singleton
    <3>5. Told = {p}
      BY <3>1, <3>4 DEF Counted
    <3> QED BY <1>1, <1>2, <1>11, <2>1, <3>1, <3>5 DEF Release
  <2>2. CASE ~LastOut(Released(cnt))
    BY <1>1, <1>2, <1>11, <2>2 DEF Release, Holding
  <2> QED BY <2>1, <2>2
<1>12. CASE Wake(p)
  BY <1>1, <1>2, <1>12 DEF Wake
<1> QED BY <1>3, <1>4, <1>5, <1>6, <1>7, <1>8, <1>9, <1>10, <1>11, <1>12 DEF PauserStep

-----------------------------------------------------------------------------
(* The wait screen's owner and the appliers. *)

LEMMA OwnerCount ==
  ASSUME CountIInv, BeginWait \/ OwnerStep \/ TuneSuspend \/ TuneResume
  PROVE  CountIInv'
<1> USE DEF CountIInv, flags, display, screen, OwnerAt
<1>1. ASSUME ~EspRestart PROVE TypeOk' /\ CountInv'
  <2>0. UNCHANGED <<cnt, pc>>
    BY <1>1 DEF BeginWait, OwnerStep, AskPark, OwnerSeesParked, OwnerTimesOut, HardSuspend,
           EndDraw, ResumeAfterWait, OwnerWake, TuneSuspend, TuneResume
  <2>1. CountInv'
    BY <1>1, <2>0, CountSame DEF CountInv, WaitInv, BeginWait, OwnerStep, AskPark, OwnerSeesParked,
           OwnerTimesOut, HardSuspend, EndDraw, ResumeAfterWait, OwnerWake, TuneSuspend,
           TuneResume
  <2>2. TypeOk'
    BY <1>1, <2>0 DEF TypeOk, BeginWait, OwnerStep, AskPark, OwnerSeesParked, OwnerTimesOut, HardSuspend,
           AfterHard, EndDraw, ResumeAfterWait, OwnerWake, TuneSuspend, TuneResume,
           DispPcs, OwnerPcs
  <2> QED BY <2>1, <2>2
<1>2. ASSUME EspRestart PROVE TypeOk' /\ CountInv'
  <2>1. Counted' = {} /\ Cardinality(Counted') = 0
    BY <1>2, FS_EmptySet DEF EspRestart, Counted
  <2>2. CountInv' /\ cnt' \in -Cardinality(Pausers) .. Cardinality(Pausers)
    BY <1>2, <2>1, CountBounds DEF EspRestart, CountInv
  <2> QED BY <1>2, <2>2 DEF EspRestart, TypeOk, PausePcs, DispPcs, OwnerPcs
<1>3. WaitInv' /\ LateInv'
  BY DEF WaitInv, LateInv, Late, TypeOk, BeginWait, OwnerStep, AskPark, OwnerSeesParked, OwnerTimesOut,
         HardSuspend, AfterHard, EndDraw, ResumeAfterWait, OwnerWake, EspRestart, TuneSuspend,
         TuneResume
<1> QED BY <1>1, <1>2, <1>3

LEMMA OwnerPark ==
  ASSUME Apart, CountIInv, ParkIInv, BeginWait \/ OwnerStep \/ TuneSuspend \/ TuneResume
  PROVE  ParkIInv'
<1> USE DEF CountIInv, ParkIInv, WaitInv, LateInv, ParkInv, WakeInv, WakeOnce, HoldInv, Late, Told,
            WakeDue, Engaged, flags, display, screen, OwnerAt, TypeOk
<1>1. CASE BeginWait
  BY <1>1 DEF BeginWait, Undisturbed, Apart
<1>2. CASE AskPark
  BY <1>2 DEF AskPark
<1>3. CASE OwnerSeesParked \/ OwnerTimesOut
  BY <1>3 DEF OwnerSeesParked, OwnerTimesOut
<1>4. CASE HardSuspend
  BY <1>4 DEF HardSuspend, AfterHard
<1>5. CASE EndDraw
  BY <1>5 DEF EndDraw
<1>6. CASE ResumeAfterWait
  \* With no reference out nobody has been told that the display is parked.
  <2>1. cnt = 0 => Told = {}
    BY <1>6, CountBounds DEF ResumeAfterWait, CountInv, Counted
  <2> QED BY <1>6, <2>1 DEF ResumeAfterWait
<1>7. CASE OwnerWake
  BY <1>7 DEF OwnerWake
<1>8. CASE EspRestart
  BY <1>8 DEF EspRestart
<1>9. CASE TuneSuspend
  BY <1>9 DEF TuneSuspend, Apart
<1>10. CASE TuneResume
  BY <1>10 DEF TuneResume
<1> QED BY <1>1, <1>2, <1>3, <1>4, <1>5, <1>6, <1>7, <1>8, <1>9, <1>10 DEF OwnerStep

-----------------------------------------------------------------------------
LEMMA CountInductive == ASSUME NoneLate PROVE CountIInv /\ [Next]_vars => CountIInv'
<1> SUFFICES ASSUME CountIInv, [Next]_vars PROVE CountIInv'
  OBVIOUS
<1>1. CASE DisplayStep
  BY <1>1, DisplayInv
<1>2. CASE \E p \in Pausers : ReadWait(p) \/ PauserStep(p)
  BY <1>2, PauserCount
<1>3. CASE BeginWait \/ OwnerStep \/ TuneSuspend \/ TuneResume
  BY <1>3, OwnerCount
<1>4. CASE UNCHANGED vars
  BY <1>4, CountSame DEF vars, CountIInv, TypeOk, WaitInv, LateInv, CountInv, Late
<1> QED BY <1>1, <1>2, <1>3, <1>4 DEF Next

LEMMA ParkInductive == ASSUME Apart PROVE CountIInv /\ ParkIInv /\ [Next]_vars => ParkIInv'
<1> SUFFICES ASSUME CountIInv, ParkIInv, [Next]_vars PROVE ParkIInv'
  OBVIOUS
<1>1. CASE DisplayStep
  BY <1>1, DisplayInv
<1>2. CASE \E p \in Pausers : ReadWait(p) \/ PauserStep(p)
  BY <1>2, PauserPark
<1>3. CASE BeginWait \/ OwnerStep \/ TuneSuspend \/ TuneResume
  BY <1>3, OwnerPark
<1>4. CASE UNCHANGED vars
  BY <1>4 DEF vars, ParkIInv, ParkInv, WakeInv, WakeOnce, HoldInv, Told, WakeDue, Engaged
<1> QED BY <1>1, <1>2, <1>3, <1>4 DEF Next

\* Every task stands at one of its steps, and the count stays within the number
\* of callers in both directions (display_pause_for_spi, display_unpause).
THEOREM TypeCorrect == ASSUME NoneLate PROVE Spec => []TypeOk
<1>1. CountIInv => TypeOk
  BY DEF CountIInv
<1> QED BY <1>1, InitInv, CountInductive, PTL DEF Spec

\* s_pause_refcount never drifts: no order of timeouts, grants, releases and wait
\* screens loses a reference or counts one twice.
THEOREM RefcountIsExact == ASSUME NoneLate PROVE Spec => []RefcountExact
<1>1. CountIInv => RefcountExact
  BY DEF CountIInv, CountInv, RefcountExact
<1> QED BY <1>1, InitInv, CountInductive, PTL DEF Spec

\* However many callers overlap, one that was counted and told that the display
\* is parked has the bus to itself until it lets go, and the wait screen is drawn
\* on a bus the display task has left (display.c display_pause_for_spi,
\* display_unpause, display_show_wait).
THEOREM BusIsOfOne == ASSUME Apart PROVE Spec => []BusOfOne
<1>1. NoneLate
  BY DEF Apart
<1>2. ParkIInv => BusOfOne
  BY DEF ParkIInv, HoldInv, ParkInv, BusOfOne
<1> QED BY <1>1, <1>2, InitInv, CountInductive, ParkInductive, PTL DEF Spec
=============================================================================
