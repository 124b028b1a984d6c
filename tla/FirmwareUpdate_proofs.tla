----------------------- MODULE FirmwareUpdate_proofs -----------------------
(***************************************************************************)
(* Proofs about FirmwareUpdate, for every number of versions, every limit  *)
(* of the probation and every number of resets.                            *)
(*                                                                         *)
(* NeverBricked is not inductive: a step that changes the chosen slot must *)
(* know what the running slot holds.  SlotInv adds the relation between    *)
(* the running slot, the chosen slot and the step the update job is at;    *)
(* PbInv ties the probation record in NVS to the running version.  AuInv   *)
(* says what each step of an automatic update knows of au_try, au_tries    *)
(* and au_done, and that the failures of the version tried last are among  *)
(* the attempts counted for it.                                            *)
(***************************************************************************)
EXTENDS FirmwareUpdate, TLAPS

Judged == {"condemn", "cleared", "blamed", "probated", "services", "up"}

\* How the chosen slot follows the running one, and when they differ.
BootFollowsRun ==
  phase # "reset" =>
    IF job.step = "reboot"
      THEN /\ boot = Other(run) /\ slots[boot].st = "NEW" /\ Intact(boot)
           /\ Usable(run)
      ELSE /\ boot = run /\ Intact(run)
           /\ slots[run].st \in Trusted \cup {"PENDING_VERIFY"}

JobsWhileServing ==
  /\ job.kind = "none" => job.step = "begin"
  /\ job.kind # "none" => Serving
  /\ job.step = "write" => ~Pending

SlotInv == NeverBricked /\ BootFollowsRun /\ JobsWhileServing

PbInv ==
  /\ pb.active => /\ pb.lastBad <= pb.up /\ pb.up < PbEnd
                  /\ pb.bad < PbBadMax \/ condemned
  /\ phase \in Judged /\ pb.active => pb.ver = RunVer
  /\ phase \in {"cleared", "blamed"} => ~pb.active

IInv == TypeOk /\ SlotInv /\ PbInv

-----------------------------------------------------------------------------
(* What the record updates of the actions yield. *)

LEMMA SetStType ==
  ASSUME slots \in [Slots -> SlotRecord], NEW s \in Slots, NEW st \in ImgStates
  PROVE  SetSt(s, st) \in [Slots -> SlotRecord]
BY DEF SetSt, SlotRecord

LEMMA NoJobType == NoJob \in JobRecord
BY DEF NoJob, JobRecord, MaybeVersion, JobSteps

LEMMA JobStepType ==
  ASSUME job \in JobRecord, NEW st \in JobSteps
  PROVE  [job EXCEPT !.step = st] \in JobRecord
BY DEF JobRecord

LEMMA PbFields ==
  ASSUME pb \in PbRecord
  PROVE  /\ pb.active \in BOOLEAN /\ pb.bad \in Nat /\ pb.up \in 0 .. PbEnd
         /\ pb.lastBad \in 0 .. PbEnd /\ pb.ver \in MaybeVersion
BY DEF PbRecord

LEMMA PbTickType ==
  ASSUME pb \in PbRecord, NEW u \in 0 .. PbEnd, NEW a \in BOOLEAN
  PROVE  [pb EXCEPT !.up = u, !.active = a] \in PbRecord
BY DEF PbRecord

LEMMA PbBadType ==
  ASSUME pb \in PbRecord, NEW b \in Nat, NEW u \in 0 .. PbEnd
  PROVE  [pb EXCEPT !.bad = b, !.lastBad = u] \in PbRecord
BY DEF PbRecord

LEMMA Bounds ==
  /\ 0 \in 0 .. PbEnd /\ 0 \in 0 .. AuMaxTries
  /\ PbEnd \in Nat /\ PbEnd > 0 /\ PbBadMax \in Nat /\ PbBadMax > 0
  /\ \A n \in 0 .. AuMaxTries : Min2(n + 1, AuMaxTries) \in 0 .. AuMaxTries
  /\ \A n \in 0 .. ResetBound : n < ResetBound => n + 1 \in 0 .. ResetBound
  /\ \A v \in Versions : v < MaxVer => v + 1 \in Versions
BY BoundsAssumption DEF BoundsAssumption, Min2, Versions

LEMMA PbFreshType ==
  ASSUME NEW v \in MaybeVersion
  PROVE  [PbIdle EXCEPT !.active = TRUE, !.ver = v] \in PbRecord
BY Bounds DEF PbIdle, PbRecord

LEMMA AuType ==
  ASSUME au \in AuRecord, NEW v \in MaybeVersion
  PROVE  /\ [au EXCEPT !.try = v] \in AuRecord
         /\ [au EXCEPT !.done = v] \in AuRecord
BY DEF AuRecord

LEMMA OtherType == \A s \in Slots : Other(s) \in Slots /\ Other(s) # s /\ Other(Other(s)) = s
BY DEF Other, Slots

-----------------------------------------------------------------------------
\* Every step keeps every variable in its type.
LEMMA TypeStep == TypeOk /\ PbInv /\ [Next]_vars => TypeOk'
<1> SUFFICES ASSUME TypeOk, PbInv, [Next]_vars
             PROVE  TypeOk'
    OBVIOUS
<1> USE SetStType, NoJobType, OtherType DEF TypeOk
<1>1. CASE Bootloader
  <2>1. slots[boot].ver \in MaybeVersion
    BY DEF SlotRecord
  <2> QED BY <1>1, <2>1 DEF Bootloader, BootSelected, BootNew, BootRevert, Phases,
             ImgStates, Trusted, Unproven, Rejected, nvs, history
<1>2. CASE Startup
  <2>0. RunVer \in MaybeVersion /\ None \in MaybeVersion
    BY DEF RunVer, SlotRecord, MaybeVersion
  <2>1. CASE WarmBoot
    BY <2>1 DEF WarmBoot, ToReset, Phases, Reasons, nvs, history
  <2>2. CASE ProbationFresh
    <3>1. pb' \in PbRecord
      BY <2>0, <2>2, PbFreshType DEF ProbationFresh
    <3> QED BY <2>2, <3>1 DEF ProbationFresh, Phases
  <2>3. CASE ProbationOther
    <3>1. pb' \in PbRecord
      BY <2>3 DEF ProbationOther, PbRecord
    <3> QED BY <2>3, <3>1 DEF ProbationOther, Phases
  <2>4. CASE ProbationBad
    <3>1. pb' \in PbRecord
      <4>1. pb' = [pb EXCEPT !.bad = pb.bad + 1, !.lastBad = pb.up]
        BY <2>4 DEF ProbationBad
      <4>2. pb.bad + 1 \in Nat /\ pb.up \in 0 .. PbEnd
        BY PbFields
      <4> QED BY <4>1, <4>2, PbBadType
    <3> QED BY <2>4, <3>1 DEF ProbationBad, Phases
  <2>5. CASE ProbationQuiet
    BY <2>5 DEF ProbationQuiet, Phases, nvs, history
  <2>6. CASE RollbackClear
    <3>1. pb' \in PbRecord
      BY <2>6 DEF RollbackClear, PbRecord
    <3> QED BY <2>6, <3>1 DEF RollbackClear, Phases, history
  <2>7. CASE RollbackBlame
    BY <2>0, <2>7 DEF RollbackBlame, Phases, MaybeVersion, history
  <2>8. CASE RollbackReboot
    BY <2>0, <2>8 DEF RollbackReboot, ToReset, Phases, Reasons, ImgStates, Rejected, nvs
  <2>9. CASE RollbackImpossible
    BY <2>9 DEF RollbackImpossible, Phases, nvs
  <2>10. CASE AuBootNote
    <3>1. au' \in AuRecord
      BY <2>0, <2>10 DEF AuBootNote, AuRecord
    <3>2. failed' \in [Versions -> 0 .. AuMaxTries]
      BY <2>10, Bounds DEF AuBootNote
    <3> QED BY <2>10, <3>1, <3>2 DEF AuBootNote, Phases
  <2>11. CASE FinishBoot
    BY <2>11 DEF FinishBoot, Phases, ImgStates, Trusted, history
  <2> QED BY <1>2, <2>1, <2>2, <2>3, <2>4, <2>5, <2>6, <2>7, <2>8, <2>9, <2>10,
             <2>11 DEF Startup
<1>3. CASE ConfirmTimer
  BY <1>3 DEF ConfirmTimer, ImgStates, Trusted, nvs, history
<1>4. CASE ProbationTick
  <2>1. pb' \in PbRecord
    <3>1. pb' = [pb EXCEPT !.up = pb.up + 1, !.active = ~DayOver]
      BY <1>4 DEF ProbationTick
    <3>2. pb.up + 1 \in 0 .. PbEnd
      BY <1>4, PbFields, Bounds DEF ProbationTick, PbInv
    <3> QED BY <3>1, <3>2, PbTickType
  <2> QED BY <1>4, <2>1 DEF ProbationTick
<1>5. CASE Restart
  BY <1>5 DEF Restart, ToReset, Phases, Reasons, ImgStates, Trusted, nvs, history
<1>6. CASE \E r \in {"poweron", "ext", "crash"} : HardReset(r)
  BY <1>6, Bounds DEF HardReset, ToReset, Phases, Reasons, nvs, history
<1>7. CASE \E v \in Versions : UserUpdate(v)
  <2>1. PICK v \in Versions : UserUpdate(v)
    BY <1>7
  <2>2. job' \in JobRecord
    BY <2>1 DEF UserUpdate, NoJob, JobRecord, JobSteps, MaybeVersion
  <2> QED BY <2>1, <2>2 DEF UserUpdate, nvs, history
<1>8. CASE Publish
  BY <1>8, Bounds DEF Publish, nvs, history
<1>9. CASE AutoUpdate
  <2>1. ASSUME NEW f \in BOOLEAN, AuLook(f) PROVE TypeOk'
    <3>1. job' \in JobRecord
      BY <2>1 DEF AuLook, JobRecord, JobSteps, MaybeVersion
    <3> QED BY <2>1, <3>1 DEF AuLook, nvs, history
  <2>2. job.ver \in MaybeVersion
    BY DEF JobRecord
  <2>3. CASE AuSaveTry \/ AuSaveDone
    BY <2>2, <2>3, AuType, JobStepType DEF AuSaveTry, AuSaveDone, JobSteps, history
  <2>4. CASE AuSaveTries
    <3>1. au' \in AuRecord
      BY <2>4 DEF AuSaveTries, NextTries, AuRecord
    <3> QED BY <2>4, <3>1, JobStepType DEF AuSaveTries, JobSteps, history
  <2> QED BY <1>9, <2>1, <2>3, <2>4 DEF AutoUpdate
<1>10. CASE Flash
  <2>1. CASE FlashBegin
    <3>1. slots' \in [Slots -> SlotRecord]
      BY <2>1 DEF FlashBegin, SlotRecord
    <3> QED BY <2>1, <3>1, JobStepType DEF FlashBegin, JobSteps, nvs, history
  <2>2. CASE FlashFail
    <3>1. au' \in AuRecord
      BY <2>2, AuType DEF FlashFail, MaybeVersion
    <3>2. failed' \in [Versions -> 0 .. AuMaxTries]
      BY <2>2, Bounds DEF FlashFail
    <3> QED BY <2>2, <3>1, <3>2 DEF FlashFail
  <2>3. CASE FlashDone
    <3>1. slots' \in [Slots -> SlotRecord]
      BY <2>3 DEF FlashDone, SlotRecord, JobRecord, ImgStates, Unproven
    <3> QED BY <2>3, <3>1, JobStepType DEF FlashDone, JobSteps, nvs, history
  <2> QED BY <1>10, <2>1, <2>2, <2>3 DEF Flash
<1>11. CASE UNCHANGED vars
  BY <1>11 DEF vars, nvs, history
<1> QED BY <1>1, <1>2, <1>3, <1>4, <1>5, <1>6, <1>7, <1>8, <1>9, <1>10, <1>11 DEF Next

-----------------------------------------------------------------------------
\* What SetSt leaves of the other slot and of the contents.
LEMMA SetStAt ==
  ASSUME slots \in [Slots -> SlotRecord], NEW s \in Slots, NEW t \in Slots, NEW st
  PROVE  /\ SetSt(s, st)[t].img = slots[t].img
         /\ SetSt(s, st)[t].ver = slots[t].ver
         /\ SetSt(s, st)[t].st = IF t = s THEN st ELSE slots[t].st
BY DEF SetSt, SlotRecord

\* Every step keeps the chosen slot bootable.
LEMMA SlotStep == TypeOk /\ SlotInv /\ PbInv /\ [Next]_vars => SlotInv'
<1> SUFFICES ASSUME TypeOk, SlotInv, PbInv, [Next]_vars
             PROVE  SlotInv'
    OBVIOUS
<1>0. slots \in [Slots -> SlotRecord] /\ boot \in Slots /\ run \in Slots /\ job \in JobRecord
  BY DEF TypeOk
<1> USE <1>0, OtherType, SetStAt
    DEF SlotInv, NeverBricked, BootFollowsRun, JobsWhileServing, Intact, Usable,
        Pending, Serving, Trusted, Unproven, Rejected
<1>1. CASE Bootloader
  <2>1. CASE BootSelected
    BY <2>1 DEF BootSelected, SlotRecord, ImgStates
  <2>2. CASE BootNew
    BY <2>2 DEF BootNew
  <2>3. CASE BootRevert
    BY <2>3 DEF BootRevert
  <2> QED BY <1>1, <2>1, <2>2, <2>3 DEF Bootloader
<1>2. CASE Startup
  <2>1. CASE WarmBoot
    BY <2>1 DEF WarmBoot, ToReset, NoJob
  <2>2. CASE ProbationFresh \/ ProbationOther \/ ProbationBad \/ ProbationQuiet
    <3>1. /\ UNCHANGED <<slots, boot, run, job>>
          /\ phase = "early" /\ phase' \in {"condemn", "probated"}
      BY <2>2 DEF ProbationFresh, ProbationOther, ProbationBad, ProbationQuiet
    <3> QED BY <3>1
  <2>3. CASE RollbackClear \/ RollbackBlame \/ RollbackImpossible
    BY <2>3 DEF RollbackClear, RollbackBlame, RollbackImpossible
  <2>4. CASE RollbackReboot
    BY <2>4 DEF RollbackReboot, MayRollBack, ToReset, NoJob
  <2>5. CASE AuBootNote
    BY <2>5 DEF AuBootNote
  <2>6. CASE FinishBoot
    BY <2>6 DEF FinishBoot
  <2> QED BY <1>2, <2>1, <2>2, <2>3, <2>4, <2>5, <2>6 DEF Startup
<1>3. CASE ConfirmTimer
  BY <1>3 DEF ConfirmTimer
<1>4. CASE ProbationTick
  BY <1>4 DEF ProbationTick
<1>5. CASE Restart
  BY <1>5 DEF Restart, ToReset, NoJob
<1>6. CASE \E r \in {"poweron", "ext", "crash"} : HardReset(r)
  BY <1>6 DEF HardReset, ToReset, NoJob
<1>7. CASE \E v \in Versions : UserUpdate(v)
  BY <1>7 DEF UserUpdate, NoJob
<1>8. CASE Publish
  BY <1>8 DEF Publish
<1>9. CASE AutoUpdate
  <2>1. ASSUME NEW f \in BOOLEAN, AuLook(f) PROVE SlotInv'
    BY <2>1 DEF AuLook
  <2>2. CASE AuSaveTry \/ AuSaveTries \/ AuSaveDone
    BY <2>2 DEF AuSaveTry, AuSaveTries, AuSaveDone, JobRecord
  <2> QED BY <1>9, <2>1, <2>2 DEF AutoUpdate
<1>10. CASE Flash
  <2>1. CASE FlashBegin
    BY <2>1 DEF FlashBegin, MayFlash, JobRecord, SlotRecord
  <2>2. CASE FlashFail
    BY <2>2 DEF FlashFail, NoJob
  <2>3. CASE FlashDone
    BY <2>3 DEF FlashDone, JobRecord, SlotRecord
  <2> QED BY <1>10, <2>1, <2>2, <2>3 DEF Flash
<1>11. CASE UNCHANGED vars
  BY <1>11 DEF vars
<1> QED BY <1>1, <1>2, <1>3, <1>4, <1>5, <1>6, <1>7, <1>8, <1>9, <1>10, <1>11 DEF Next

-----------------------------------------------------------------------------
\* Every step keeps the probation record about the running firmware.
LEMMA PbStep == TypeOk /\ SlotInv /\ PbInv /\ [Next]_vars => PbInv'
<1> SUFFICES ASSUME TypeOk, SlotInv, PbInv, [Next]_vars
             PROVE  PbInv'
    OBVIOUS
<1>0. /\ slots \in [Slots -> SlotRecord] /\ boot \in Slots /\ run \in Slots
      /\ pb \in PbRecord
  BY DEF TypeOk
<1> USE <1>0, OtherType, SetStAt DEF PbInv, RunVer, Judged
<1>1. CASE Bootloader
  BY <1>1 DEF Bootloader, BootSelected, BootNew, BootRevert, nvs, history
<1>2. CASE Startup
  <2>1. CASE WarmBoot
    BY <2>1 DEF WarmBoot, ToReset, nvs, history
  <2>2. CASE ProbationFresh
    <3>1. pb' = [active |-> TRUE, bad |-> 0, up |-> 0, lastBad |-> 0, ver |-> RunVer]
      BY <2>2 DEF ProbationFresh, PbIdle
    <3>2. /\ pb'.bad = 0 /\ pb'.up = 0 /\ pb'.lastBad = 0 /\ pb'.ver = RunVer
      BY <3>1
    <3>3. UNCHANGED <<slots, run>> /\ phase' = "probated"
      BY <2>2 DEF ProbationFresh
    <3> QED BY <3>2, <3>3, Bounds
  <2>3. CASE ProbationOther
    BY <2>3 DEF ProbationOther, PbRecord
  <2>4. CASE ProbationBad
    <3>1. /\ pb' = [pb EXCEPT !.bad = pb.bad + 1, !.lastBad = pb.up]
          /\ UNCHANGED <<slots, run>> /\ BadBoot
          /\ \/ phase' = "condemn" /\ condemned' = TRUE
             \/ phase' = "probated" /\ ~Verdict
      BY <2>4 DEF ProbationBad
    <3>2. /\ pb'.active = pb.active /\ pb'.up = pb.up /\ pb'.ver = pb.ver
          /\ pb'.bad = pb.bad + 1 /\ pb'.lastBad = pb.up
      BY <3>1 DEF PbRecord
    <3>3. ~Verdict => pb'.bad < PbBadMax
      BY <3>2, PbFields, Bounds DEF Verdict
    <3> QED BY <3>1, <3>2, <3>3, PbFields DEF BadBoot
  <2>5. CASE ProbationQuiet
    BY <2>5 DEF ProbationQuiet, Strayed, nvs, history
  <2>6. CASE RollbackClear
    BY <2>6 DEF RollbackClear, PbRecord
  <2>7. CASE RollbackBlame
    BY <2>7 DEF RollbackBlame, history
  <2>8. CASE RollbackReboot
    BY <2>8 DEF RollbackReboot, ToReset, nvs
  <2>9. CASE RollbackImpossible
    BY <2>9 DEF RollbackImpossible, nvs
  <2>10. CASE AuBootNote
    BY <2>10 DEF AuBootNote
  <2>11. CASE FinishBoot
    BY <2>11 DEF FinishBoot, history
  <2> QED BY <1>2, <2>1, <2>2, <2>3, <2>4, <2>5, <2>6, <2>7, <2>8, <2>9, <2>10,
             <2>11 DEF Startup
<1>3. CASE ConfirmTimer
  BY <1>3 DEF ConfirmTimer, nvs, history
<1>4. CASE ProbationTick
  <2>1. /\ pb'.up = pb.up + 1 /\ (pb'.active => ~DayOver) /\ pb'.ver = pb.ver
        /\ pb'.bad = pb.bad /\ pb'.lastBad = pb.lastBad
    BY <1>4 DEF ProbationTick, PbRecord
  <2>2. /\ pb.active /\ (condemned /\ ~DayOver => condemned')
        /\ UNCHANGED <<slots, run, phase>> /\ phase = "up"
    BY <1>4 DEF ProbationTick
  <2>3. ~DayOver => pb.up + 1 < PbEnd
    BY PbFields, Bounds DEF DayOver
  <2> QED BY <2>1, <2>2, <2>3, PbFields
<1>5. CASE Restart
  BY <1>5 DEF Restart, ToReset, nvs, history
<1>6. CASE \E r \in {"poweron", "ext", "crash"} : HardReset(r)
  BY <1>6 DEF HardReset, ToReset, nvs, history
<1>7. CASE (\E v \in Versions : UserUpdate(v)) \/ Publish
  BY <1>7 DEF UserUpdate, Publish, nvs, history
<1>8. CASE AutoUpdate
  BY <1>8 DEF AutoUpdate, AuLook, AuSaveTry, AuSaveTries, AuSaveDone, nvs, history
<1>9. CASE Flash
  <2>1. slots'[run].ver = slots[run].ver
    BY <1>9 DEF Flash, FlashBegin, FlashFail, FlashDone, SlotRecord
  <2>2. UNCHANGED <<pb, run, phase, condemned>>
    BY <1>9 DEF Flash, FlashBegin, FlashFail, FlashDone, nvs, history
  <2> QED BY <2>1, <2>2
<1>10. CASE UNCHANGED vars
  BY <1>10 DEF vars, nvs, history
<1> QED BY <1>1, <1>2, <1>3, <1>4, <1>5, <1>6, <1>7, <1>8, <1>9, <1>10 DEF Next

-----------------------------------------------------------------------------
LEMMA InitIInv == Init => IInv
<1> SUFFICES ASSUME Init PROVE IInv
    OBVIOUS
<1>1. slots \in [Slots -> SlotRecord] /\ 1 \in Versions
  BY BoundsAssumption DEF BoundsAssumption, Init, Slots, SlotRecord, MaybeVersion,
     Versions, ImgStates, Trusted
<1>2. pb \in PbRecord /\ au \in AuRecord /\ job \in JobRecord
  BY Bounds, NoJobType DEF Init, PbIdle, PbRecord, AuRecord, MaybeVersion
<1>3. failed \in [Versions -> 0 .. AuMaxTries] /\ resets \in 0 .. ResetBound
  BY Bounds, BoundsAssumption DEF BoundsAssumption, Init
<1>4. TypeOk
  BY <1>1, <1>2, <1>3 DEF Init, TypeOk, Slots, Phases, Reasons, MaybeVersion
<1>5. SlotInv
  BY DEF Init, SlotInv, NeverBricked, BootFollowsRun, JobsWhileServing, Intact,
     NoJob, Slots, Rejected, Unproven
<1>6. PbInv
  BY DEF Init, PbInv, PbIdle, Judged
<1> QED BY <1>4, <1>5, <1>6 DEF IInv

LEMMA Inductive == Spec => []IInv
<1>1. IInv /\ [Next]_vars => IInv'
  BY TypeStep, SlotStep, PbStep DEF IInv
<1> QED BY InitIInv, <1>1, PTL DEF Spec

\* Every reachable state is of the declared types.
THEOREM TypeCorrect == Spec => []TypeOk
<1>1. IInv => TypeOk
  BY DEF IInv
<1> QED BY Inductive, <1>1, PTL

\* Whatever is reset, cut or flashed, and whenever, the clock can always boot:
\* the chosen slot is complete and not rejected, and an unproven one has a
\* complete and trusted image behind it.
THEOREM AlwaysBootable == Spec => []NeverBricked
<1>1. IInv => NeverBricked
  BY DEF IInv, SlotInv
<1> QED BY Inductive, <1>1, PTL

\* No rejected image ever runs again, until something else is flashed over it.
THEOREM RejectedStaysOut == Spec => []RejectedNeverRuns
<1>1. IInv => RejectedNeverRuns
  BY DEF IInv, SlotInv, BootFollowsRun, RejectedNeverRuns, Usable, Trusted, Rejected
<1> QED BY Inductive, <1>1, PTL

\* The probation in NVS always judges the firmware that is running, for the
\* length of its day and no longer.
THEOREM ProbationOfTheRunning == Spec => []ProbationWatchesRunning
<1>1. IInv => ProbationWatchesRunning
  BY DEF IInv, PbInv, Judged, ProbationWatchesRunning
<1> QED BY Inductive, <1>1, PTL

-----------------------------------------------------------------------------
(* The attempts at an automatic update *)

AutoJob == job.kind \in {"auto", "forced"}

\* What the job knows of the three keys at each of its steps.
AuJobInv ==
  /\ job.kind = "user" => job.step \in {"begin", "write", "reboot"}
  /\ AutoJob => /\ job.ver \in Versions /\ au.try <= job.ver /\ job.ver <= newest
                /\ IF job.step = "try" THEN job.same <=> au.try = job.ver
                                       ELSE au.try = job.ver
                /\ job.step = "tries" /\ ~job.same => failed[job.ver] = 0
                /\ job.step \in {"mark", "begin", "write"} => failed[job.ver] < au.tries

\* While requests are served, the version in au_done is being written.
AuDoneInv ==
  /\ au.done \in {None, au.try}
  /\ Serving => au.done = IF AutoJob /\ job.step \in {"begin", "write", "reboot"}
                            THEN job.ver ELSE None

\* No failure is of a version newer than the last tried one, and those of the last
\* tried one have been counted.
TriesInv ==
  /\ au.try <= newest
  /\ \A v \in Versions : failed[v] > 0 => v <= au.try
  /\ au.try \in Versions => failed[au.try] <= au.tries

\* A complete image has a version.
VersionsInv ==
  /\ \A s \in Slots : Intact(s) => slots[s].ver \in Versions
  /\ job.kind # "none" => job.ver \in Versions

AuInv == AuJobInv /\ AuDoneInv /\ TriesInv

LEMMA VersionsStep == TypeOk /\ SlotInv /\ VersionsInv /\ [Next]_vars => VersionsInv'
<1> SUFFICES ASSUME TypeOk, SlotInv, VersionsInv, [Next]_vars
             PROVE  VersionsInv'
    OBVIOUS
<1>0. slots \in [Slots -> SlotRecord] /\ boot \in Slots /\ run \in Slots /\ job \in JobRecord
  BY DEF TypeOk
<1> USE <1>0, OtherType, SetStAt DEF VersionsInv, Intact
<1>1. CASE Bootloader
  BY <1>1 DEF Bootloader, BootSelected, BootNew, BootRevert
<1>2. CASE Startup
  <2>1. CASE WarmBoot \/ RollbackReboot
    BY <2>1 DEF WarmBoot, RollbackReboot, ToReset, NoJob
  <2>2. CASE ProbationFresh \/ ProbationOther \/ ProbationBad \/ ProbationQuiet
    BY <2>2 DEF ProbationFresh, ProbationOther, ProbationBad, ProbationQuiet
  <2>3. CASE RollbackClear \/ RollbackBlame \/ RollbackImpossible \/ FinishBoot \/ AuBootNote
    BY <2>3 DEF RollbackClear, RollbackBlame, RollbackImpossible, FinishBoot, AuBootNote
  <2> QED BY <1>2, <2>1, <2>2, <2>3 DEF Startup
<1>3. CASE ConfirmTimer \/ ProbationTick \/ Publish
  BY <1>3 DEF ConfirmTimer, ProbationTick, Publish
<1>4. CASE Restart
  BY <1>4 DEF Restart, ToReset, NoJob
<1>5. CASE \E r \in {"poweron", "ext", "crash"} : HardReset(r)
  BY <1>5 DEF HardReset, ToReset, NoJob
<1>6. CASE \E v \in Versions : UserUpdate(v)
  BY <1>6 DEF UserUpdate, NoJob
<1>7. CASE AutoUpdate
  <2>1. ASSUME NEW f \in BOOLEAN, AuLook(f) PROVE VersionsInv'
    BY <2>1 DEF AuLook, TypeOk
  <2>2. CASE AuSaveTry \/ AuSaveTries \/ AuSaveDone
    BY <2>2 DEF AuSaveTry, AuSaveTries, AuSaveDone, JobRecord
  <2> QED BY <1>7, <2>1, <2>2 DEF AutoUpdate
<1>8. CASE Flash
  <2>1. CASE FlashBegin
    BY <2>1 DEF FlashBegin, JobRecord, SlotRecord
  <2>2. CASE FlashFail
    BY <2>2 DEF FlashFail, NoJob
  <2>3. CASE FlashDone
    <3>1. job.kind # "none" /\ job.ver \in Versions
      BY <2>3 DEF FlashDone, SlotInv, JobsWhileServing
    <3> QED BY <2>3, <3>1 DEF FlashDone, JobRecord, SlotRecord
  <2> QED BY <1>8, <2>1, <2>2, <2>3 DEF Flash
<1>9. CASE UNCHANGED vars
  BY <1>9 DEF vars
<1> QED BY <1>1, <1>2, <1>3, <1>4, <1>5, <1>6, <1>7, <1>8, <1>9 DEF Next

LEMMA AuTypes ==
  ASSUME TypeOk
  PROVE  /\ au \in AuRecord /\ au.try \in Nat /\ au.tries \in Nat /\ au.done \in Nat
         /\ newest \in Versions /\ newest \in Nat
         /\ job \in JobRecord /\ job.ver \in Nat
         /\ failed \in [Versions -> 0 .. AuMaxTries] /\ \A v \in Versions : failed[v] \in Nat
         /\ au.try \in MaybeVersion /\ \A v \in Versions : v \in Nat /\ v # None /\ v > 0
         /\ RunVer \in MaybeVersion
BY BoundsAssumption DEF BoundsAssumption, TypeOk, AuRecord, JobRecord, MaybeVersion, Versions,
   None, RunVer, SlotRecord

\* A step that leaves the keys and the job alone, and begins no service.
LEMMA AuRest ==
  ASSUME TypeOk, AuInv, UNCHANGED <<au, failed, job>>, newest' \in Nat, newest <= newest',
         Serving' => Serving
  PROVE  AuInv'
<1> USE AuTypes
<1>1. AuJobInv'
  BY DEF AuInv, AuJobInv, AutoJob
<1>2. AuDoneInv'
  BY DEF AuInv, AuDoneInv, AutoJob
<1>3. TriesInv'
  BY DEF AuInv, TriesInv
<1> QED BY <1>1, <1>2, <1>3 DEF AuInv

\* A reset forgets the job, and the keys stay.
LEMMA AuReset ==
  ASSUME TypeOk, AuInv, UNCHANGED <<au, failed, newest>>, NEW r, ToReset(r)
  PROVE  AuInv'
<1>1. AuJobInv'
  BY DEF AuJobInv, AutoJob, ToReset, NoJob
<1>2. AuDoneInv' /\ TriesInv'
  BY DEF AuInv, AuDoneInv, TriesInv, ToReset, Serving
<1> QED BY <1>1, <1>2 DEF AuInv

\* Whatever is cut off and when, the failures of the version that was tried last are
\* among the attempts that are counted, and no other version in question has any.
LEMMA AuStep == TypeOk /\ SlotInv /\ VersionsInv /\ AuInv /\ [Next]_vars => AuInv'
<1> SUFFICES ASSUME TypeOk, SlotInv, VersionsInv, AuInv, [Next]_vars
             PROVE  AuInv'
    OBVIOUS
<1> USE AuTypes
<1>1. CASE Bootloader
  BY <1>1, AuRest DEF Bootloader, BootSelected, BootNew, BootRevert, nvs, history, Serving
<1>2. CASE Startup
  <2>1. CASE WarmBoot \/ RollbackReboot
    BY <2>1, AuReset DEF WarmBoot, RollbackReboot, nvs, history
  <2>2. CASE ProbationFresh \/ ProbationOther \/ ProbationBad \/ ProbationQuiet
    <3>1. UNCHANGED <<au, failed, job, newest>> /\ phase' \in {"condemn", "probated"}
      BY <2>2 DEF ProbationFresh, ProbationOther, ProbationBad, ProbationQuiet, nvs, history
    <3> QED BY <3>1, AuRest DEF Serving
  <2>3. CASE RollbackClear \/ RollbackBlame \/ RollbackImpossible \/ FinishBoot
    BY <2>3, AuRest DEF RollbackClear, RollbackBlame, RollbackImpossible, FinishBoot, nvs,
       history, Serving
  <2>4. CASE AuBootNote
    <3>1. job.kind = "none" /\ UNCHANGED <<job, newest>> /\ phase' = "services"
      BY <2>4 DEF AuBootNote, SlotInv, JobsWhileServing, Serving
    <3>0. RunVer # None
      BY <2>4, <3>1 DEF AuBootNote, SlotInv, JobsWhileServing, BootFollowsRun, VersionsInv,
         RunVer, TypeOk
    <3>2. /\ au'.try = au.try /\ au'.done = None
          /\ au'.tries = IF au.done = RunVer THEN 0 ELSE au.tries
      BY <2>4 DEF AuBootNote, AuRecord
    <3>3. \A v \in Versions : failed'[v] = IF au.done = RunVer /\ v = RunVer THEN 0 ELSE failed[v]
      BY <2>4 DEF AuBootNote
    <3>4. AuJobInv' /\ AuDoneInv'
      BY <3>1, <3>2 DEF AuJobInv, AuDoneInv, AutoJob, Serving
    <3>5. TriesInv'
      <4>1. au'.try <= newest' /\ \A v \in Versions : failed'[v] > 0 => v <= au'.try
        BY <3>1, <3>2, <3>3 DEF AuInv, TriesInv
      <4>2. ASSUME au.try \in Versions PROVE failed'[au.try] <= au'.tries
        BY <3>0, <3>2, <3>3, <4>2 DEF AuInv, TriesInv, AuDoneInv
      <4> QED BY <3>2, <4>1, <4>2 DEF TriesInv
    <3> QED BY <3>4, <3>5 DEF AuInv
  <2> QED BY <1>2, <2>1, <2>2, <2>3, <2>4 DEF Startup
<1>3. CASE ConfirmTimer \/ ProbationTick
  BY <1>3, AuRest DEF ConfirmTimer, ProbationTick, nvs, history, Serving
<1>4. CASE Restart \/ \E r \in {"poweron", "ext", "crash"} : HardReset(r)
  BY <1>4, AuReset DEF Restart, HardReset, nvs, history
<1>5. CASE Publish
  BY <1>5, AuRest DEF Publish, nvs, history, Serving
<1>6. CASE \E v \in Versions : UserUpdate(v)
  <2>1. PICK v \in Versions : UserUpdate(v)
    BY <1>6
  <2>2. /\ job.kind = "none" /\ job'.kind = "user" /\ job'.step = "begin"
        /\ UNCHANGED <<au, failed, newest, phase>>
    BY <2>1 DEF UserUpdate, NoJob, nvs, history
  <2>3. AuJobInv' /\ AuDoneInv' /\ TriesInv'
    BY <2>2 DEF AuInv, AuJobInv, AuDoneInv, TriesInv, AutoJob, Serving
  <2> QED BY <2>3 DEF AuInv
<1>7. CASE AutoUpdate
  <2>1. ASSUME NEW f \in BOOLEAN, AuLook(f) PROVE AuInv'
    <3>1. /\ job.kind = "none" /\ job'.kind \in {"auto", "forced"} /\ job'.ver = newest
          /\ job'.step = "try" /\ (job'.same <=> au.try = newest)
          /\ UNCHANGED <<au, failed, newest, phase>>
      BY <2>1 DEF AuLook, nvs, history
    <3>2. AuJobInv' /\ AuDoneInv' /\ TriesInv'
      BY <3>1 DEF AuInv, AuJobInv, AuDoneInv, TriesInv, AutoJob, Serving
    <3> QED BY <3>2 DEF AuInv
  <2>2. CASE AuSaveTry
    <3>1. /\ AutoJob /\ job.step = "try" /\ job'.kind = job.kind /\ job'.ver = job.ver
          /\ job'.same = job.same /\ job'.step = "tries"
          /\ au'.try = job.ver /\ au'.tries = au.tries /\ au'.done = au.done
          /\ UNCHANGED <<failed, newest, phase>>
      BY <2>2 DEF AuSaveTry, AuInv, AuJobInv, AutoJob, JobRecord, AuRecord, history
    <3>2. Serving
      BY <3>1 DEF SlotInv, JobsWhileServing, AutoJob
    <3>3. ~job.same => failed[job.ver] = 0
      BY <3>1 DEF AuInv, AuJobInv, TriesInv
    <3>4. AuJobInv' /\ AuDoneInv'
      BY <3>1, <3>2, <3>3 DEF AuInv, AuJobInv, AuDoneInv, AutoJob, Serving
    <3>5. TriesInv'
      BY <3>1, <3>3 DEF AuInv, AuJobInv, TriesInv
    <3> QED BY <3>4, <3>5 DEF AuInv
  <2>3. CASE AuSaveTries
    <3>1. /\ AutoJob /\ job.step = "tries" /\ job'.kind = job.kind /\ job'.ver = job.ver
          /\ job'.same = job.same /\ job'.step = "mark"
          /\ au'.try = au.try /\ au'.tries = NextTries /\ au'.done = au.done
          /\ UNCHANGED <<failed, newest, phase>>
      BY <2>3 DEF AuSaveTries, SlotInv, JobsWhileServing, AuInv, AuJobInv, AutoJob, JobRecord,
         AuRecord, history
    <3>2. failed[job.ver] < NextTries /\ NextTries \in Nat
      BY <3>1 DEF AuInv, AuJobInv, TriesInv, NextTries
    <3>3. AuJobInv' /\ AuDoneInv'
      BY <3>1, <3>2 DEF AuInv, AuJobInv, AuDoneInv, AutoJob, Serving
    <3>4. TriesInv'
      BY <3>1, <3>2 DEF AuInv, AuJobInv, TriesInv
    <3> QED BY <3>3, <3>4 DEF AuInv
  <2>4. CASE AuSaveDone
    <3>1. /\ AutoJob /\ job.step = "mark" /\ job'.kind = job.kind /\ job'.ver = job.ver
          /\ job'.same = job.same /\ job'.step = "begin"
          /\ au'.try = au.try /\ au'.tries = au.tries /\ au'.done = job.ver
          /\ UNCHANGED <<failed, newest, phase>>
      BY <2>4 DEF AuSaveDone, SlotInv, JobsWhileServing, AuInv, AuJobInv, AutoJob, JobRecord,
         AuRecord, history
    <3>2. AuJobInv' /\ AuDoneInv' /\ TriesInv'
      BY <3>1 DEF AuInv, AuJobInv, AuDoneInv, TriesInv, AutoJob, Serving
    <3> QED BY <3>2 DEF AuInv
  <2> QED BY <1>7, <2>1, <2>2, <2>3, <2>4 DEF AutoUpdate
<1>8. CASE Flash
  <2>1. CASE FlashBegin
    <3>1. /\ job.step = "begin" /\ job'.kind = job.kind /\ job'.ver = job.ver
          /\ job'.same = job.same /\ job'.step = "write"
          /\ UNCHANGED <<au, failed, newest, phase>>
      BY <2>1 DEF FlashBegin, JobRecord, nvs, history
    <3>2. AuJobInv' /\ AuDoneInv' /\ TriesInv'
      BY <3>1 DEF AuInv, AuJobInv, AuDoneInv, TriesInv, AutoJob, Serving
    <3> QED BY <3>2 DEF AuInv
  <2>2. CASE FlashDone
    <3>1. /\ job.step = "write" /\ job'.kind = job.kind /\ job'.ver = job.ver
          /\ job'.same = job.same /\ job'.step = "reboot"
          /\ UNCHANGED <<au, failed, newest, phase>>
      BY <2>2 DEF FlashDone, JobRecord, nvs, history
    <3>2. AuJobInv' /\ AuDoneInv' /\ TriesInv'
      BY <3>1 DEF AuInv, AuJobInv, AuDoneInv, TriesInv, AutoJob, Serving
    <3> QED BY <3>2 DEF AuInv
  <2>3. CASE FlashFail /\ job.kind = "user"
    <3>1. job'.kind = "none" /\ ~AutoJob /\ UNCHANGED <<au, failed, newest, phase>>
      BY <2>3 DEF FlashFail, NoJob, AutoJob
    <3>2. AuJobInv' /\ AuDoneInv' /\ TriesInv'
      BY <3>1 DEF AuInv, AuJobInv, AuDoneInv, TriesInv, AutoJob, Serving
    <3> QED BY <3>2 DEF AuInv
  <2>4. CASE FlashFail /\ job.kind # "user"
    <3>1. /\ AutoJob /\ job.step \in {"begin", "write"} /\ job'.kind = "none"
          /\ au'.try = au.try /\ au'.tries = au.tries /\ au'.done = None
          /\ UNCHANGED <<newest, phase>>
      BY <2>4 DEF FlashFail, NoJob, AutoJob, JobRecord, AuRecord
    <3>2. job.ver \in Versions /\ au.try = job.ver /\ failed[job.ver] < au.tries
      BY <3>1 DEF AuInv, AuJobInv
    <3>3. \A v \in Versions : failed'[v] = IF v = job.ver THEN Min2(failed[v] + 1, AuMaxTries)
                                                         ELSE failed[v]
      BY <2>4, <3>2 DEF FlashFail
    <3>4. \A n \in Nat : Min2(n + 1, AuMaxTries) <= n + 1
      BY BoundsAssumption DEF BoundsAssumption, Min2
    <3>5. AuJobInv' /\ AuDoneInv'
      BY <3>1 DEF AuJobInv, AuDoneInv, AutoJob
    <3>6. failed'[job.ver] <= failed[job.ver] + 1 /\ failed'[job.ver] \in Nat
      BY <3>2, <3>3, <3>4, Bounds, BoundsAssumption DEF BoundsAssumption
    <3>7. TriesInv'
      BY <3>1, <3>2, <3>3, <3>6 DEF AuInv, TriesInv
    <3> QED BY <3>5, <3>7 DEF AuInv
  <2> QED BY <1>8, <2>1, <2>2, <2>3, <2>4 DEF Flash
<1>9. CASE UNCHANGED vars
  BY <1>9, AuRest DEF vars, nvs, history, Serving
<1> QED BY <1>1, <1>2, <1>3, <1>4, <1>5, <1>6, <1>7, <1>8, <1>9 DEF Next

LEMMA AuInit == Init => VersionsInv /\ AuInv
<1> SUFFICES ASSUME Init PROVE VersionsInv /\ AuInv
    OBVIOUS
<1>0. VersionsInv
  BY BoundsAssumption DEF BoundsAssumption, Init, VersionsInv, Intact, Slots, Versions, NoJob
<1>1. newest = 1 /\ au.try = None /\ au.done = None /\ job.kind = "none"
  BY DEF Init, NoJob
<1>2. \A v \in Versions : failed[v] = 0
  BY DEF Init
<1>3. AuJobInv /\ AuDoneInv /\ TriesInv
  BY <1>1, <1>2 DEF AuJobInv, AuDoneInv, TriesInv, AutoJob, None, Versions, Init
<1> QED BY <1>0, <1>3 DEF AuInv

\* A scheduled update never starts on a version that has failed as often as the
\* firmware allows, whatever resets came between the failures and between the commits
\* of the three keys that count them.
THEOREM SpentVersionsSkipped == Spec => FailedInstallsSkipped
<1>1. ASSUME TypeOk, SlotInv, AuInv, [Next]_vars, job.kind = "none", job'.kind = "auto"
      PROVE  failed[newest] < AuMaxTries
  <2>1. AuLook(FALSE)
    <3>1. ASSUME Bootloader \/ Startup \/ ConfirmTimer \/ ProbationTick \/ Publish PROVE FALSE
      <4>1. job' = job \/ job' = NoJob
        <5>1. CASE Bootloader \/ ConfirmTimer \/ ProbationTick \/ Publish
          BY <5>1 DEF Bootloader, BootSelected, BootNew, BootRevert, ConfirmTimer,
             ProbationTick, Publish
        <5>2. CASE ProbationFresh \/ ProbationOther \/ ProbationBad \/ ProbationQuiet
          BY <5>2 DEF ProbationFresh, ProbationOther, ProbationBad, ProbationQuiet
        <5>3. CASE \/ WarmBoot \/ RollbackClear \/ RollbackBlame \/ RollbackReboot
                   \/ RollbackImpossible \/ AuBootNote \/ FinishBoot
          BY <5>3 DEF WarmBoot, RollbackClear, RollbackBlame, RollbackReboot,
             RollbackImpossible, AuBootNote, FinishBoot, ToReset
        <5> QED BY <3>1, <5>1, <5>2, <5>3 DEF Startup
      <4> QED BY <1>1, <4>1 DEF NoJob
    <3>2. ASSUME \/ Restart \/ \E r \in {"poweron", "ext", "crash"} : HardReset(r)
                 \/ \E v \in Versions : UserUpdate(v)
          PROVE  FALSE
      <4>1. job' = NoJob \/ job'.kind = "user"
        BY <3>2 DEF Restart, HardReset, UserUpdate, ToReset, NoJob
      <4> QED BY <1>1, <4>1 DEF NoJob
    <3>3. ASSUME AuLook(TRUE) \/ AuSaveTry \/ AuSaveTries \/ AuSaveDone \/ Flash PROVE FALSE
      BY <1>1, <3>3 DEF AuLook, AuSaveTry, AuSaveTries, AuSaveDone, Flash, FlashBegin,
         FlashFail, FlashDone, SlotInv, JobsWhileServing
    <3>4. ASSUME UNCHANGED vars PROVE FALSE
      BY <1>1, <3>4 DEF vars
    <3> QED BY <1>1, <3>1, <3>2, <3>3, <3>4 DEF Next, AutoUpdate
  <2>2. ~TriesSpent
    BY <2>1 DEF AuLook
  <2> QED BY <1>1, <2>2, AuTypes, BoundsAssumption
          DEF BoundsAssumption, TriesSpent, AuInv, TriesInv
<1>2. IInv /\ VersionsInv /\ AuInv /\ [Next]_vars => VersionsInv' /\ AuInv'
  BY VersionsStep, AuStep DEF IInv
<1>3. IInv /\ AuInv /\ [Next]_vars =>
        [job.kind = "none" /\ job'.kind = "auto" => failed[newest] < AuMaxTries]_vars
  BY <1>1 DEF IInv
<1> QED BY Inductive, AuInit, <1>2, <1>3, PTL DEF Spec, FailedInstallsSkipped

=============================================================================
