--------------------------- MODULE FirmwareUpdate ---------------------------
(***************************************************************************)
(* Installing firmware and deciding whether to keep it: the two OTA slots, *)
(* the bootloader's rollback, the health gate and the one-day probation of *)
(* src/main/main.c, the flash sequence shared by the firmware uploads and  *)
(* pulls of web_server.c, and the automatic update with the attempt        *)
(* bookkeeping it keeps in NVS.                                            *)
(*                                                                         *)
(* The clock can be reset at any point: between any two NVS commits, in    *)
(* the middle of a flash write, in the middle of a boot.  Only slots,      *)
(* boot, pb, pbFailed, au and note survive a reset.                        *)
(*                                                                         *)
(* Versions are naturals, compared as au_cmp compares them.  Uptime is     *)
(* counted in steps of PB_STEP_S.  Concurrent update requests are the      *)
(* business of module UpdateJobs: here one job at a time writes.           *)
(*                                                                         *)
(* A definition named Slip... is a plausible wrong version of the one that *)
(* follows it; nothing refers to it.  README.md says which property each   *)
(* slip breaks.                                                            *)
(***************************************************************************)
EXTENDS Integers, FiniteSets

CONSTANTS
  MaxVer,      \* versions are 1..MaxVer; the cable-flashed one is 1
  PbBadMax,    \* PB_BAD_MAX: bad resets that end the probation
  PbBadGap,    \* PB_BAD_GAP_S, in steps of PB_STEP_S
  PbEnd,       \* PB_END_S, in steps of PB_STEP_S
  AuMaxTries,  \* AU_MAX_TRIES
  TriesBound,  \* bound of the model: forced installs stop at this count
  ResetBound   \* bound of the model: resets that are not restarts

ASSUME BoundsAssumption ==
  /\ MaxVer \in Nat \ {0}
  /\ PbBadMax \in Nat \ {0}
  /\ PbBadGap \in Nat
  /\ PbEnd \in Nat \ {0}
  /\ AuMaxTries \in Nat \ {0}
  /\ TriesBound \in Nat
  /\ ResetBound \in Nat

Versions == 1 .. MaxVer
None     == 0            \* the empty version string
Slots    == {0, 1}       \* app0 and app1
Other(s) == 1 - s        \* esp_ota_get_next_update_partition

Trusted  == {"UNDEFINED", "VALID"}     \* UNDEFINED: flashed by cable
Unproven == {"NEW", "PENDING_VERIFY"}
Rejected == {"ABORTED", "INVALID"}
ImgStates == Trusted \cup Unproven \cup Rejected

Phases == {"reset",      \* the bootloader is about to choose a slot
           "early",      \* app_main before ota_probation_start
           "condemn",    \* verdict reached, pb_rollback entered
           "cleared",    \* pb_rollback has saved active = 0
           "blamed",     \* pb_rollback has saved pb_failed
           "probated",   \* probation done, web server not started
           "services",   \* web server up, boot not finished
           "up"}         \* app_main has returned

Reasons  == {"poweron", "ext", "sw", "crash"}
JobSteps == {"try", "tries", "mark", "begin", "write", "reboot"}
NoJob    == [kind |-> "none", ver |-> None, step |-> "begin", same |-> FALSE]

VARIABLES
  slots,     \* per slot: version, contents intact or torn, otadata state
  boot,      \* the slot otadata selects
  run,       \* esp_ota_get_running_partition
  phase, reason,
  pb,        \* pb_state_t in NVS
  pbTimer,   \* ota_probation_start got its periodic timer
  pbFailed,  \* NVS pb_failed
  au,        \* NVS au_try, au_tries, au_done
  note,      \* NVS ota_rollback
  job,       \* the one update job (s_ota_active while kind # "none")
  newest,    \* the newest release on GitHub
  resets,    \* resets so far (bounded)
  condemned,  \* history: the probation's verdict is not yet carried out
  rolledBack, \* history: versions reverted by the bootloader or the probation
  failed      \* history: failed automatic installs of a version, until one
              \* succeeds, capped at AuMaxTries

nvs     == <<pb, pbFailed, au, note>>
history == <<condemned, rolledBack, failed>>
vars    == <<slots, boot, run, phase, reason, pbTimer, job, newest, resets,
             nvs, history>>

Intact(s)  == slots[s].img = "ok"
Usable(s)  == Intact(s) /\ slots[s].st \in Trusted
RunVer     == slots[run].ver
Pending    == slots[run].st = "PENDING_VERIFY"
SetSt(s, st) == [slots EXCEPT ![s].st = st]
PbIdle     == [active |-> FALSE, bad |-> 0, up |-> 0, lastBad |-> 0, ver |-> None]
Min2(a, b) == IF a < b THEN a ELSE b

Init ==
  /\ slots = [s \in Slots |-> IF s = 0
                THEN [ver |-> 1,    img |-> "ok",   st |-> "UNDEFINED"]
                ELSE [ver |-> None, img |-> "torn", st |-> "UNDEFINED"]]
  /\ boot = 0 /\ run = 0
  /\ phase = "reset" /\ reason = "poweron"
  /\ pb = PbIdle /\ pbTimer = FALSE /\ pbFailed = None /\ note = FALSE
  /\ au = [try |-> None, tries |-> 0, done |-> None]
  /\ job = NoJob /\ newest = 1 /\ resets = 0
  /\ condemned = FALSE /\ rolledBack = {}
  /\ failed = [v \in Versions |-> 0]

-----------------------------------------------------------------------------
(* The bootloader, with CONFIG_BOOTLOADER_APP_ROLLBACK_ENABLE. *)

BootSelected ==
  /\ phase = "reset"
  /\ slots[boot].st \notin Unproven
  /\ run' = boot /\ phase' = "early"
  /\ UNCHANGED <<slots, boot, reason, pbTimer, job, newest, resets, nvs, history>>

BootNew ==
  /\ phase = "reset"
  /\ slots[boot].st = "NEW"
  /\ slots' = SetSt(boot, "PENDING_VERIFY")
  /\ run' = boot /\ phase' = "early"
  /\ UNCHANGED <<boot, reason, pbTimer, job, newest, resets, nvs, history>>

BootRevert ==
  /\ phase = "reset"
  /\ slots[boot].st = "PENDING_VERIFY"
  /\ slots' = SetSt(boot, "ABORTED")
  /\ boot' = Other(boot) /\ run' = Other(boot) /\ phase' = "early"
  /\ rolledBack' = rolledBack \cup {slots[boot].ver}
  /\ UNCHANGED <<reason, pbTimer, job, newest, resets, nvs,
                 condemned, failed>>

-----------------------------------------------------------------------------
(* app_main *)

ToReset(r) ==
  /\ phase' = "reset" /\ reason' = r
  /\ job' = NoJob /\ pbTimer' = FALSE

SlipNeedsWarmBoot == reason \in {"ext", "sw"}
NeedsWarmBoot     == reason = "ext"

\* The WiFi-safe warm boot: one extra esp_restart() after an EN-pin reset,
\* before any shutdown handler is registered.  RTC memory is cleared by the
\* same reset, so s_warm_boot never equals its magic here.
WarmBoot ==
  /\ phase = "early" /\ NeedsWarmBoot
  /\ ToReset("sw")
  /\ UNCHANGED <<slots, boot, run, newest, resets, nvs, history>>

StartsProbation == Pending
SlipStrayed == FALSE
Strayed == pb.active /\ pb.ver # RunVer
BadBoot == pb.active /\ pb.ver = RunVer /\ reason = "crash"
Verdict == \/ pb.bad >= 1 /\ pb.up - pb.lastBad < PbBadGap
           \/ pb.bad + 1 >= PbBadMax

\* ota_probation_start(), up to the call of pb_rollback() it may make.
ProbationFresh ==
  /\ phase = "early" /\ ~NeedsWarmBoot
  /\ StartsProbation
  /\ pb' = [PbIdle EXCEPT !.active = TRUE, !.ver = RunVer]
  /\ pbTimer' \in BOOLEAN
  /\ phase' = "probated" /\ condemned' = FALSE
  /\ UNCHANGED <<slots, boot, run, reason, job, newest, resets, pbFailed, au,
                 note, rolledBack, failed>>

ProbationOther ==
  /\ phase = "early" /\ ~NeedsWarmBoot
  /\ ~StartsProbation /\ Strayed
  /\ pb' = [pb EXCEPT !.active = FALSE]
  /\ phase' = "probated" /\ condemned' = FALSE
  /\ UNCHANGED <<slots, boot, run, reason, pbTimer, job, newest, resets,
                 pbFailed, au, note, rolledBack, failed>>

ProbationBad ==
  /\ phase = "early" /\ ~NeedsWarmBoot
  /\ ~StartsProbation /\ BadBoot
  /\ pb' = [pb EXCEPT !.bad = @ + 1, !.lastBad = pb.up]
  /\ IF Verdict
       THEN /\ phase' = "condemn"
            /\ condemned' = TRUE
            /\ UNCHANGED pbTimer
       ELSE /\ phase' = "probated"
            /\ pbTimer' \in BOOLEAN
            /\ UNCHANGED condemned
  /\ UNCHANGED <<slots, boot, run, reason, job, newest, resets, pbFailed, au,
                 note, rolledBack, failed>>

ProbationQuiet ==
  /\ phase = "early" /\ ~NeedsWarmBoot
  /\ ~StartsProbation /\ ~Strayed /\ ~BadBoot
  /\ pbTimer' \in (IF pb.active THEN BOOLEAN ELSE {FALSE})
  /\ phase' = "probated"
  /\ UNCHANGED <<slots, boot, run, reason, job, newest, resets, nvs, history>>

\* pb_rollback(): two commits, then the partition call.
RollbackClear ==
  /\ phase = "condemn"
  /\ pb' = [pb EXCEPT !.active = FALSE]
  /\ phase' = "cleared"
  /\ UNCHANGED <<slots, boot, run, reason, pbTimer, job, newest, resets,
                 pbFailed, au, note, history>>

RollbackBlame ==
  /\ phase = "cleared"
  /\ pbFailed' = RunVer
  /\ phase' = "blamed"
  /\ UNCHANGED <<slots, boot, run, reason, pbTimer, job, newest, resets,
                 pb, au, note, history>>

\* esp_ota_mark_app_invalid_rollback_and_reboot(): reboots into the other
\* slot, or returns when that slot cannot be booted.
SlipMayRollBack == TRUE
MayRollBack     == Usable(Other(run))

RollbackReboot ==
  /\ phase = "blamed" /\ MayRollBack
  /\ slots' = SetSt(run, "INVALID")
  /\ boot' = Other(run)
  /\ rolledBack' = rolledBack \cup {RunVer}
  /\ condemned' = FALSE
  /\ ToReset("sw")
  /\ UNCHANGED <<run, newest, resets, nvs, failed>>

RollbackImpossible ==
  /\ phase = "blamed" /\ ~MayRollBack
  /\ phase' = "probated" /\ condemned' = FALSE
  /\ UNCHANGED <<slots, boot, run, reason, pbTimer, job, newest, resets, nvs,
                 rolledBack, failed>>

\* web_server_start() calls au_boot_note(); from here on requests are served.
AuBootNote ==
  /\ phase = "probated"
  /\ au' = [au EXCEPT !.tries = IF au.done = RunVer THEN 0 ELSE @, !.done = None]
  /\ failed' = IF au.done = RunVer THEN [failed EXCEPT ![RunVer] = 0] ELSE failed
  /\ phase' = "services"
  /\ UNCHANGED <<slots, boot, run, reason, pbTimer, job, newest, resets, pb,
                 pbFailed, note, condemned, rolledBack>>

\* The end of app_main: the rollback note, then the confirm timer and the
\* shutdown handler (or, without a timer, the confirmation itself).
FinishBoot ==
  /\ phase = "services"
  /\ note' = (note \/ slots[Other(run)].st \in Rejected)
  /\ \/ UNCHANGED slots
     \/ Pending /\ slots' = SetSt(run, "VALID")
  /\ phase' = "up"
  /\ UNCHANGED <<boot, run, reason, pbTimer, job, newest, resets, pb, pbFailed,
                 au, history>>

\* ota_valid_timer_cb, OTA_VALID_AFTER_S after the end of app_main.
ConfirmTimer ==
  /\ phase = "up" /\ Pending
  /\ slots' = SetSt(run, "VALID")
  /\ UNCHANGED <<boot, run, phase, reason, pbTimer, job, newest, resets, nvs,
                 history>>

SlipDayOver == pb.up + 1 > PbEnd
DayOver     == pb.up + 1 >= PbEnd

\* pb_timer_cb.  PB_STEP_S is longer than OTA_VALID_AFTER_S and the boot
\* together, so the image is confirmed by then.
ProbationTick ==
  /\ phase = "up" /\ ~Pending /\ pbTimer /\ pb.active
  /\ pb' = [pb EXCEPT !.up = @ + 1, !.active = ~DayOver]
  /\ condemned' = (condemned /\ ~DayOver)
  /\ UNCHANGED <<slots, boot, run, phase, reason, pbTimer, job, newest, resets,
                 pbFailed, au, note, rolledBack, failed>>

-----------------------------------------------------------------------------
(* Resets *)

Serving == phase \in {"services", "up"}

\* esp_restart() from a handler or a timer.  ota_mark_valid_if_pending runs
\* as a shutdown handler only once FinishBoot has registered it.
Restart ==
  /\ Serving
  /\ slots' = IF phase = "up" /\ Pending THEN SetSt(run, "VALID") ELSE slots
  /\ ToReset("sw")
  /\ UNCHANGED <<boot, run, newest, resets, nvs, history>>

\* A power cut, an EN-pin reset, a panic or a watchdog reset.
HardReset(r) ==
  /\ phase # "reset" /\ resets < ResetBound
  /\ resets' = resets + 1
  /\ ToReset(r)
  /\ UNCHANGED <<slots, boot, run, newest, nvs, history>>

-----------------------------------------------------------------------------
(* Update jobs *)

\* api_ota, api_ota_pull: the user chooses any image.
UserUpdate(v) ==
  /\ Serving /\ job.kind = "none"
  /\ job' = [NoJob EXCEPT !.kind = "user", !.ver = v, !.step = "begin"]
  /\ UNCHANGED <<slots, boot, run, phase, reason, pbTimer, newest, resets, nvs,
                 history>>

Publish ==
  /\ newest < MaxVer
  /\ newest' = newest + 1
  /\ UNCHANGED <<slots, boot, run, phase, reason, pbTimer, job, resets, nvs,
                 history>>

TriesSpent == au.try = newest /\ au.tries >= AuMaxTries

\* au_run() with install set, up to its first NVS write.  A scheduled look
\* needs AU_MIN_UPTIME_US of uptime, by when the image is confirmed.
AuLook(force) ==
  /\ job.kind = "none"
  /\ IF force THEN Serving /\ au.tries < TriesBound
              ELSE phase = "up" /\ ~Pending /\ ~TriesSpent
  /\ newest > RunVer /\ newest # pbFailed
  /\ job' = [kind |-> IF force THEN "forced" ELSE "auto", ver |-> newest,
             step |-> "try", same |-> au.try = newest]
  /\ UNCHANGED <<slots, boot, run, phase, reason, pbTimer, newest, resets, nvs,
                 history>>

\* au_try, au_tries and au_done are committed one after the other.
AuSaveTry ==
  /\ job.step = "try" /\ job.kind # "none"
  /\ au' = [au EXCEPT !.try = job.ver]
  /\ job' = [job EXCEPT !.step = "tries"]
  /\ UNCHANGED <<slots, boot, run, phase, reason, pbTimer, newest, resets, pb,
                 pbFailed, note, history>>

SlipNextTries == IF job.same THEN au.tries ELSE 0
NextTries == (IF job.same THEN au.tries ELSE 0) + 1

AuSaveTries ==
  /\ job.step = "tries"
  /\ au' = [au EXCEPT !.tries = NextTries]
  /\ job' = [job EXCEPT !.step = "mark"]
  /\ UNCHANGED <<slots, boot, run, phase, reason, pbTimer, newest, resets, pb,
                 pbFailed, note, history>>

AuSaveDone ==
  /\ job.step = "mark"
  /\ au' = [au EXCEPT !.done = job.ver]
  /\ job' = [job EXCEPT !.step = "begin"]
  /\ UNCHANGED <<slots, boot, run, phase, reason, pbTimer, newest, resets, pb,
                 pbFailed, note, history>>

\* esp_ota_begin() refuses while the running image is unconfirmed.
SlipMayFlash == TRUE
MayFlash     == ~Pending

FlashBegin ==
  /\ job.kind # "none" /\ job.step = "begin"
  /\ MayFlash
  /\ slots' = [slots EXCEPT ![Other(run)].img = "torn"]
  /\ job' = [job EXCEPT !.step = "write"]
  /\ UNCHANGED <<boot, run, phase, reason, pbTimer, newest, resets, nvs, history>>

\* Every error exit: download, hash, esp_ota_begin, write, esp_ota_end.
FlashFail ==
  /\ job.kind # "none" /\ job.step \in {"begin", "write"}
  /\ job' = NoJob
  /\ IF job.kind = "user"
       THEN UNCHANGED <<au, failed>>
       ELSE /\ au' = [au EXCEPT !.done = None]
            /\ failed' = [failed EXCEPT ![job.ver] = Min2(@ + 1, AuMaxTries)]
  /\ UNCHANGED <<slots, boot, run, phase, reason, pbTimer, newest, resets, pb,
                 pbFailed, note, condemned, rolledBack>>

\* esp_ota_end() has verified the image; esp_ota_set_boot_partition().
\* s_ota_active stays set until the restart.
FlashDone ==
  /\ job.step = "write"
  /\ slots' = [slots EXCEPT ![Other(run)] =
                 [ver |-> job.ver, img |-> "ok", st |-> "NEW"]]
  /\ boot' = Other(run)
  /\ job' = [job EXCEPT !.step = "reboot"]
  /\ UNCHANGED <<run, phase, reason, pbTimer, newest, resets, nvs, history>>

-----------------------------------------------------------------------------
Bootloader == BootSelected \/ BootNew \/ BootRevert

Startup ==
  \/ WarmBoot
  \/ ProbationFresh \/ ProbationOther \/ ProbationBad \/ ProbationQuiet
  \/ RollbackClear \/ RollbackBlame \/ RollbackReboot \/ RollbackImpossible
  \/ AuBootNote \/ FinishBoot

Flash == FlashBegin \/ FlashFail \/ FlashDone

AutoUpdate == AuLook(FALSE) \/ AuLook(TRUE) \/ AuSaveTry \/ AuSaveTries \/ AuSaveDone

Next ==
  \/ Bootloader \/ Startup
  \/ ConfirmTimer \/ ProbationTick
  \/ Restart
  \/ \E r \in {"poweron", "ext", "crash"} : HardReset(r)
  \/ \E v \in Versions : UserUpdate(v)
  \/ Publish \/ AutoUpdate \/ Flash

Spec == Init /\ [][Next]_vars

\* The bootloader and app_main run to completion unless they are reset.
Fairness == WF_vars(Bootloader) /\ WF_vars(Startup)
FairSpec == Spec /\ Fairness

-----------------------------------------------------------------------------
(* Properties *)

MaybeVersion == Versions \cup {None}
SlotRecord == [ver : MaybeVersion, img : {"ok", "torn"}, st : ImgStates]
PbRecord   == [active : BOOLEAN, bad : Nat, up : 0 .. PbEnd, lastBad : 0 .. PbEnd,
               ver : MaybeVersion]
AuRecord   == [try : MaybeVersion, tries : Nat, done : MaybeVersion]
JobRecord  == [kind : {"none", "user", "auto", "forced"}, ver : MaybeVersion,
               step : JobSteps, same : BOOLEAN]

\* Every variable stays in its range; healthy uptime never passes PB_END_S.
TypeOk ==
  /\ slots \in [Slots -> SlotRecord]
  /\ boot \in Slots /\ run \in Slots
  /\ phase \in Phases /\ reason \in Reasons
  /\ pb \in PbRecord /\ pbTimer \in BOOLEAN
  /\ pbFailed \in MaybeVersion /\ note \in BOOLEAN
  /\ au \in AuRecord /\ job \in JobRecord
  /\ newest \in Versions /\ resets \in 0 .. ResetBound
  /\ condemned \in BOOLEAN /\ rolledBack \subseteq MaybeVersion
  /\ failed \in [Versions -> 0 .. AuMaxTries]

\* Whatever is cut off and when, the slot the bootloader will choose holds a
\* complete image that has not been rejected, and while that image is still
\* unproven the other slot holds a complete one to return to.
NeverBricked ==
  /\ Intact(boot) /\ slots[boot].st \notin Rejected
  /\ slots[boot].st \in Unproven => Usable(Other(boot))

\* An image the bootloader or the probation has rejected does not run again.
RejectedNeverRuns ==
  phase # "reset" => slots[run].st \notin Rejected

\* Past ota_probation_start, a probation in progress is about the firmware
\* that runs, its day has not passed, and it has seen fewer bad resets than
\* PB_BAD_MAX unless a reset interrupted the rollback they call for.
ProbationWatchesRunning ==
  phase \in {"probated", "services", "up"} /\ pb.active =>
    /\ pb.ver = RunVer
    /\ pb.lastBad <= pb.up /\ pb.up < PbEnd
    /\ pb.bad < PbBadMax \/ condemned

\* A scheduled update never starts on a version whose installation has already
\* failed AU_MAX_TRIES times, whatever resets came in between.
FailedInstallsSkipped ==
  [][job.kind = "none" /\ job'.kind = "auto" => failed[newest] < AuMaxTries]_vars

\* A boot always reaches the web server: neither the warm boot nor a rollback
\* can go round for ever.
BootCompletes == phase = "reset" ~> Serving

(* What README.md and comments say, and the code does not keep. *)

\* README.md:265: restarting from the web UI keeps the new firmware.
RestartKeepsImage ==
  [][Serving /\ phase' = "reset" /\ reason' = "sw"
       => slots'[boot'].st # "PENDING_VERIFY"]_vars

\* README.md:269: a version that was rolled back is skipped.
RolledBackSkipped ==
  [][job.kind = "none" /\ job'.kind = "auto" => newest \notin rolledBack]_vars

=============================================================================
