------------------------------ MODULE UpdateJobs ------------------------------
(***************************************************************************)
(* Who may update what, and when: the request handlers of web_server.c on  *)
(* the httpd task, the jobs, the theme manager and the stock-file scan on  *)
(* the shared net_poll task, the automatic update and the daily catalog    *)
(* check the same task starts by itself, the one-shot task that finishes   *)
(* an update after the reboot, and the timer that asks for a scan.         *)
(*                                                                         *)
(* They keep out of each other's way with plain flags; a step here reads   *)
(* or writes one flag, or a group no other task looks at in between.       *)
(* What an update does to its slot is module FirmwareUpdate's business,    *)
(* and how the display is parked that of DisplayPark.                      *)
(*                                                                         *)
(* A definition named Slip... is a plausible wrong version of the one that *)
(* follows it; nothing refers to it.                                       *)
(***************************************************************************)
EXTENDS FiniteSets, Naturals

CONSTANTS
  Requests,   \* the requests that reach the httpd task
  Scheduled,  \* what starts without a request: "update" and "catalog" on
              \* net_poll, "autostart" after an update's restart
  Meeting     \* an update may start while another stands between its look at
              \* s_ota_active and setting it

Uploads    == {"upload"}                     \* api_ota, api_fs_ota
Jobs       == {"pull", "webui", "repair"}    \* handed over with np_job_start
ThemeJobs  == {"install", "refresh", "local"}
AllRequests ==
  Uploads \cup Jobs \cup ThemeJobs
    \cup {"hotpatch",   \* api_fs_hotpatch
          "staged",     \* api_webui_pull_reboot
          "look",       \* api_auto_update_check
          "rescan"}     \* settings saved: exceptions withdrawn

ASSUME RequestAssumption ==
  /\ Requests \subseteq AllRequests /\ Scheduled \subseteq {"update", "catalog", "autostart"}
  /\ Meeting \in BOOLEAN

VARIABLES
  active,      \* s_ota_active
  job,         \* s_np_job
  tmRunning,   \* s_tm.state = TM_RUNNING
  tmPending,   \* s_tm_pending, with the kind of job in s_tm
  tmBusy,      \* s_tm_busy
  scanActive,  \* s_stock_scan_active
  scanPending, \* s_stock_scan_pending
  deferred,    \* s_stock_spawn_deferred
  auBusy,      \* s_au.busy
  tls,         \* who owns the TLS semaphore
  wait,        \* the wait screen is up
  quiet,       \* the tasks on the pause list other than net_poll are suspended
  frozen,      \* net_poll is suspended
  restart,     \* the one-shot restart timer runs
  h, req,      \* the httpd task and the request it serves
  n, kind, ret, \* net_poll, the kind of work it does and where that returns to
  auto,        \* post_ota_autostart_task
  timer        \* stock_files_check_timer_cb

flags   == <<active, job, auBusy>>
theme   == <<tmRunning, tmPending, tmBusy>>
scan    == <<scanActive, scanPending, deferred>>
pauses  == <<wait, quiet, frozen>>
net     == <<n, kind, ret>>
vars    == <<flags, theme, scan, tls, pauses, restart, h, req, net, auto, timer>>

\* The post-OTA task runs when the NVS flag post_ota is set.
Autostart == {"done"} \cup (IF "autostart" \in Scheduled THEN {"start"} ELSE {})

\* What every task finds after a reset.
Reset ==
  /\ active' = FALSE /\ job' = "none" /\ auBusy' = FALSE
  /\ tmRunning' = FALSE /\ tmPending' = "none" /\ tmBusy' = FALSE
  /\ scanActive' = FALSE /\ scanPending' = FALSE /\ deferred' = FALSE
  /\ tls' = "free" /\ wait' = FALSE /\ quiet' = FALSE /\ frozen' = FALSE
  /\ restart' = FALSE
  /\ h' = "idle" /\ req' = "none"
  /\ n' = "asleep" /\ kind' = "none" /\ ret' = "none"
  /\ auto' \in Autostart /\ timer' = "idle"

Init ==
  /\ active = FALSE /\ job = "none" /\ auBusy = FALSE
  /\ tmRunning = FALSE /\ tmPending = "none" /\ tmBusy = FALSE
  /\ scanActive = FALSE /\ scanPending = FALSE /\ deferred = FALSE
  /\ tls = "free" /\ wait = FALSE /\ quiet = FALSE /\ frozen = FALSE
  /\ restart = FALSE
  /\ h = "idle" /\ req = "none"
  /\ n = "asleep" /\ kind = "none" /\ ret = "none"
  /\ auto \in Autostart /\ timer = "idle"

-----------------------------------------------------------------------------
(* Updates that have looked at s_ota_active and not set it yet.  A look at   *)
(* GitHub sets it only when it goes on to install.                          *)

Stages == {"begin", "show", "take", "fetch", "write", "spawn", "resume", "clear"}
HttpdLooked == h \in {"body", "tmBusy", "tmScan", "tmSet"}
AutoLooked  == auto = "set"
LookLooked  == auBusy /\ ~(kind = "update" /\ n \in Stages \cup {"lookEnd"})
DailyLooked == n \in {"dailyBusy", "dailySet"}
MayStart    ==
  Meeting \/ ~(HttpdLooked \/ AutoLooked \/ LookLooked \/ DailyLooked)

(* stock_files_check_spawn: what it reads, then what it writes. *)

SpawnReads == IF tmBusy THEN "defer" ELSE IF scanActive THEN "skip" ELSE "set"
SpawnNext(done) == IF SpawnReads = "skip" THEN done ELSE SpawnReads

SpawnWrites(found) ==
  /\ deferred' = (deferred \/ found = "defer")
  /\ scanActive' = (scanActive \/ found = "set")
  /\ scanPending' = (scanPending \/ found = "set")

Give(t) == tls' = IF tls = t THEN "free" ELSE tls

\* tls_sem_take waits at most 30 s and then goes on without the semaphore.
Take(t) == tls' = IF tls = "free" THEN t ELSE tls

-----------------------------------------------------------------------------
(* The httpd task serves one request at a time. *)

HttpdAt(to)         == h' = to /\ req' = IF to = "idle" THEN "none" ELSE req
HttpdGoes(from, to) == h = from /\ HttpdAt(to)
Serves(k, to)       == h = "idle" /\ h' = to /\ req' = k

\* The look at s_ota_active (and, in tm_start, at s_tm.state).
Free(k)     == ~active /\ (k \in ThemeJobs => ~tmRunning)

Accept(k) ==
  /\ k \notin {"look", "rescan"} /\ Free(k)
  /\ Serves(k, IF k \in ThemeJobs THEN "tmBusy" ELSE "body")
  /\ MayStart
  /\ UNCHANGED <<flags, theme, scan, tls, pauses, restart, net, auto, timer>>

\* The body of the request is read between the look and the assignment, and
\* may be turned down; uploads, hotpatches and repairs read none there.
BodyRefused ==
  /\ HttpdGoes("body", "idle") /\ req \in {"pull", "webui", "staged"}
  /\ UNCHANGED <<flags, theme, scan, tls, pauses, restart, net, auto, timer>>

After(k)     == IF k \in Jobs THEN "check" ELSE IF k = "staged" THEN "idle" ELSE "show"

SetActive ==
  /\ HttpdGoes("body", After(req))
  /\ active' = TRUE
  /\ restart' = (restart \/ req = "staged")
  /\ UNCHANGED <<job, auBusy, theme, scan, tls, pauses, net, auto, timer>>

AcceptLook ==
  /\ ~active /\ ~auBusy
  /\ Serves("look", "check")
  /\ auBusy' = TRUE
  /\ MayStart
  /\ UNCHANGED <<active, job, theme, scan, tls, pauses, restart, net, auto, timer>>

\* np_job_start: the slot must be free and the network up.
SlotSeenFree ==
  /\ HttpdGoes("check", "queue") /\ job = "none"
  /\ UNCHANGED <<flags, theme, scan, tls, pauses, restart, net, auto, timer>>

JobRefused ==
  /\ HttpdGoes("check", "clear")
  /\ UNCHANGED <<flags, theme, scan, tls, pauses, restart, net, auto, timer>>

QueueJob ==
  /\ HttpdGoes("queue", "idle")
  /\ job' = req
  /\ UNCHANGED <<active, auBusy, theme, scan, tls, pauses, restart, net, auto, timer>>

ClearFailed ==
  /\ HttpdGoes("clear", "idle")
  /\ IF req = "look" THEN auBusy' = FALSE /\ UNCHANGED active
                      ELSE active' = FALSE /\ UNCHANGED auBusy
  /\ UNCHANGED <<job, theme, scan, tls, pauses, restart, net, auto, timer>>

\* tm_start: s_tm_busy first, then the look at the scan, then the rest.
TmBusy ==
  /\ HttpdGoes("tmBusy", "tmScan")
  /\ tmBusy' = TRUE
  /\ UNCHANGED <<flags, tmRunning, tmPending, scan, tls, pauses, restart, net, auto, timer>>

TmScan ==
  /\ HttpdGoes("tmScan", IF scanActive THEN "idle" ELSE "tmSet")
  /\ tmBusy' = (tmBusy /\ ~scanActive)
  /\ UNCHANGED <<flags, tmRunning, tmPending, scan, tls, pauses, restart, net, auto, timer>>

TmSet ==
  /\ HttpdGoes("tmSet", "tmQueue")
  /\ tmRunning' = TRUE /\ active' = TRUE
  /\ UNCHANGED <<job, auBusy, tmPending, tmBusy, scan, tls, pauses, restart, net, auto, timer>>

TmQueue ==
  /\ HttpdGoes("tmQueue", "idle")
  /\ tmPending' = req
  /\ UNCHANGED <<flags, tmRunning, tmBusy, scan, tls, pauses, restart, net, auto, timer>>

TmStart == TmBusy \/ TmScan \/ TmSet \/ TmQueue

\* api_ota_impl, api_fs_ota_impl, api_fs_hotpatch_impl.
BadUpload ==
  /\ HttpdGoes("show", "clear")
  /\ UNCHANGED <<flags, theme, scan, tls, pauses, restart, net, auto, timer>>

ShowWait ==
  /\ HttpdGoes("show", IF req = "hotpatch" THEN "take" ELSE "hush")
  /\ wait' = TRUE
  /\ UNCHANGED <<flags, theme, scan, tls, quiet, frozen, restart, net, auto, timer>>

TakeTls ==
  /\ HttpdGoes("take", "hush")
  /\ Take("httpd")
  /\ UNCHANGED <<flags, theme, scan, pauses, restart, net, auto, timer>>

\* ota_suspend_tasks from a task that is not on its list.
SuspendTasks ==
  /\ HttpdGoes("hush", "write")
  /\ quiet' = TRUE /\ frozen' = TRUE
  /\ UNCHANGED <<flags, theme, scan, tls, wait, restart, net, auto, timer>>

\* A firmware or filesystem upload ends in a restart, or in an error exit that
\* resumes nothing.
UploadEnds ==
  /\ h = "write" /\ req = "upload"
  /\ \/ HttpdAt("idle") /\ restart' = TRUE
     \/ HttpdAt("clear") /\ UNCHANGED restart
  /\ UNCHANGED <<flags, theme, scan, tls, pauses, net, auto, timer>>

Extracted ==
  /\ HttpdGoes("write", "spawn") /\ req = "hotpatch"
  /\ UNCHANGED <<flags, theme, scan, tls, pauses, restart, net, auto, timer>>

\* stock_missing_recompute_after_exception_change.
AskRescan ==
  /\ Serves("rescan", "spawn")
  /\ UNCHANGED <<flags, theme, scan, tls, pauses, restart, net, auto, timer>>

HttpdSpawned == IF req = "hotpatch" THEN "resume" ELSE "idle"

HttpdSpawnReads ==
  /\ HttpdGoes("spawn", SpawnNext(HttpdSpawned))
  /\ UNCHANGED <<flags, theme, scan, tls, pauses, restart, net, auto, timer>>

HttpdSpawnWrites ==
  /\ h \in {"defer", "set"}
  /\ SpawnWrites(h)
  /\ HttpdAt(HttpdSpawned)
  /\ UNCHANGED <<flags, theme, tls, pauses, restart, net, auto, timer>>

ResumeTasks ==
  /\ HttpdGoes("resume", "unshow")
  /\ quiet' = FALSE /\ frozen' = FALSE
  /\ UNCHANGED <<flags, theme, scan, tls, wait, restart, net, auto, timer>>

ResumeDisplay ==
  /\ HttpdGoes("unshow", "clear")
  /\ Give("httpd") /\ wait' = FALSE
  /\ UNCHANGED <<flags, theme, scan, quiet, frozen, restart, net, auto, timer>>

HttpdStep ==
  \/ BodyRefused \/ SetActive \/ SlotSeenFree \/ JobRefused \/ QueueJob
  \/ ClearFailed \/ TmStart \/ BadUpload \/ ShowWait \/ TakeTls
  \/ SuspendTasks \/ UploadEnds \/ Extracted \/ HttpdSpawnReads
  \/ HttpdSpawnWrites \/ ResumeTasks \/ ResumeDisplay

-----------------------------------------------------------------------------
(* net_poll: one pass over np_job_tick, and the work it calls. *)

Awake == ~frozen
NetGoes(from, to) == Awake /\ n = from /\ n' = to
Begins(k, from)   == n' = "begin" /\ kind' = k /\ ret' = from
Flagless == UNCHANGED <<h, req, auto, timer, restart>>

\* Woken by periodic_net_poll_force, or by its own deadline.
Wake ==
  /\ NetGoes("asleep", "job")
  /\ UNCHANGED <<flags, theme, scan, tls, pauses, kind, ret>> /\ Flagless

\* Weather, subscribers and update check fetch under the TLS semaphore, in the
\* same pass over the entries.
PollBegins ==
  /\ NetGoes("au", "poll")
  /\ Take("net")
  /\ UNCHANGED <<flags, theme, scan, pauses, kind, ret>> /\ Flagless

PollEnds ==
  /\ NetGoes("poll", "asleep")
  /\ Give("net")
  /\ UNCHANGED <<flags, theme, scan, pauses, kind, ret>> /\ Flagless

\* np_job_tick: the queued job stays in s_np_job until it has returned.
TickJob ==
  /\ Awake /\ n = "job"
  /\ CASE job = "none" -> n' = "theme" /\ UNCHANGED <<auBusy, kind, ret>>
       [] job = "look" -> /\ n' = "lookTake" /\ kind' = "look" /\ ret' = "job"
                          /\ auBusy' = TRUE
       [] OTHER        -> Begins(job, "job") /\ UNCHANGED auBusy
  /\ UNCHANGED <<active, job, theme, scan, tls, pauses>> /\ Flagless

TickTheme ==
  /\ Awake /\ n = "theme"
  /\ IF tmPending # "none"
       THEN Begins(tmPending, "theme") /\ tmRunning' = TRUE
       ELSE n' = "scan" /\ UNCHANGED <<kind, ret, tmRunning>>
  /\ tmPending' = "none"
  /\ UNCHANGED <<flags, tmBusy, scan, tls, pauses>> /\ Flagless

\* The scan starts 5 s after it was asked for; the passes before that leave it
\* alone and are left out.
ScanBegins ==
  /\ NetGoes("scan", "scanning") /\ scanPending
  /\ scanPending' = FALSE
  /\ UNCHANGED <<flags, theme, scanActive, deferred, tls, pauses, kind, ret>> /\ Flagless

NoScan ==
  /\ NetGoes("scan", "daily") /\ ~scanPending
  /\ UNCHANGED <<flags, theme, scan, tls, pauses, kind, ret>> /\ Flagless

\* It may stop early, when the display does not pause.
ScanEnds ==
  /\ NetGoes("scanning", "daily")
  /\ scanActive' = FALSE
  /\ UNCHANGED <<flags, theme, scanPending, deferred, tls, pauses, kind, ret>> /\ Flagless

\* tm_auto_check.
DailyDue ==
  /\ NetGoes("daily", "dailyBusy")
  /\ "catalog" \in Scheduled
  /\ ~active /\ ~tmRunning /\ ~scanActive
  /\ MayStart
  /\ UNCHANGED <<flags, theme, scan, tls, pauses, kind, ret>> /\ Flagless

DailyBusy ==
  /\ NetGoes("dailyBusy", "dailySet")
  /\ tmBusy' = TRUE
  /\ UNCHANGED <<flags, tmRunning, tmPending, scan, tls, pauses, kind, ret>> /\ Flagless

DailySet ==
  /\ Awake /\ n = "dailySet"
  /\ Begins("refresh", "daily")
  /\ tmRunning' = TRUE /\ active' = TRUE
  /\ UNCHANGED <<job, auBusy, tmPending, tmBusy, scan, tls, pauses>> /\ Flagless

DailySkip ==
  /\ NetGoes("daily", "au")
  /\ UNCHANGED <<flags, theme, scan, tls, pauses, kind, ret>> /\ Flagless

\* au_tick.
AuDue ==
  /\ NetGoes("au", "lookTake") /\ kind' = "look" /\ ret' = "au"
  /\ "update" \in Scheduled
  /\ ~active /\ ~tmRunning /\ ~scanActive /\ ~auBusy
  /\ auBusy' = TRUE
  /\ MayStart
  /\ UNCHANGED <<active, job, theme, scan, tls, pauses>> /\ Flagless

TickEnds ==
  /\ NetGoes("au", "asleep")
  /\ UNCHANGED <<flags, theme, scan, tls, pauses, kind, ret>> /\ Flagless

Tick ==
  \/ Wake \/ PollBegins \/ PollEnds \/ TickJob \/ TickTheme
  \/ ScanBegins \/ NoScan \/ ScanEnds
  \/ DailyDue \/ DailyBusy \/ DailySet \/ DailySkip \/ AuDue \/ TickEnds

\* au_run: the release is fetched under the TLS semaphore; s_ota_active is set
\* only when there is something to install, without another look at it.
LookTake ==
  /\ NetGoes("lookTake", "lookRead")
  /\ Take("net")
  /\ UNCHANGED <<flags, theme, scan, pauses, kind, ret>> /\ Flagless

LookRead ==
  /\ Awake /\ n = "lookRead"
  /\ n' \in {"lookSet", "lookEnd"}
  /\ Give("net")
  /\ UNCHANGED <<flags, theme, scan, pauses, kind, ret>> /\ Flagless

LookSet ==
  /\ NetGoes("lookSet", "begin") /\ kind' = "update"
  /\ active' = TRUE
  /\ UNCHANGED <<job, auBusy, theme, scan, tls, pauses, ret>> /\ Flagless

LookEnd ==
  /\ NetGoes("lookEnd", "return")
  /\ auBusy' = FALSE
  /\ UNCHANGED <<active, job, theme, scan, tls, pauses, kind, ret>> /\ Flagless

Look == LookTake \/ LookRead \/ LookSet \/ LookEnd

-----------------------------------------------------------------------------
(* ota_pull_task, webui_pull_task, stock_repair_task and tm_job go through   *)
(* the same stages in the same order; where a failure leads depends on which *)
(* of them runs.                                                             *)

Pulls   == {"pull", "update"}               \* "update": au_run calls ota_pull_task
Shows   == Pulls \cup {"webui", "repair", "install"}
Resumes == {"webui", "repair", "install"}    \* a failed firmware pull resumes nothing

\* The clock has no valid time, or the theme job finds nothing to fetch.  Web UI
\* pull and repair resume the display on that exit too.
BeginFails ==
  /\ NetGoes("begin", "clear")
  /\ wait' = (wait /\ kind \notin {"webui", "repair"})
  /\ UNCHANGED <<flags, theme, scan, tls, quiet, frozen, kind, ret>> /\ Flagless

Begin ==
  /\ NetGoes("begin", IF kind \in Shows THEN "show"
                      ELSE IF kind = "refresh" THEN "take" ELSE "clear")
  /\ kind \in ThemeJobs => ~scanActive
  /\ UNCHANGED <<flags, theme, scan, tls, pauses, kind, ret>> /\ Flagless

SlipShown == wait
Shown     == TRUE

Show ==
  /\ NetGoes("show", "take")
  /\ wait' = Shown
  /\ UNCHANGED <<flags, theme, scan, tls, quiet, frozen, kind, ret>> /\ Flagless

\* ota_suspend_tasks leaves the task that calls it running.
TakeAndSuspend ==
  /\ NetGoes("take", "fetch")
  /\ Take("net")
  /\ quiet' = (quiet \/ kind # "refresh")
  /\ UNCHANGED <<flags, theme, scan, wait, frozen, kind, ret>> /\ Flagless

Fetched ==
  /\ NetGoes("fetch", IF kind = "refresh" THEN "clear" ELSE "write")
  /\ IF kind = "repair" THEN UNCHANGED tls ELSE Give("net")
  /\ UNCHANGED <<flags, theme, scan, pauses, kind, ret>> /\ Flagless

FetchFails ==
  /\ NetGoes("fetch", IF kind = "repair" THEN "spawn"
                      ELSE IF kind \in Resumes THEN "resume" ELSE "clear")
  /\ IF kind = "repair" THEN UNCHANGED tls ELSE Give("net")
  /\ UNCHANGED <<flags, theme, scan, pauses, kind, ret>> /\ Flagless

Written ==
  /\ kind \notin Pulls
  /\ NetGoes("write", IF kind = "install" THEN "resume" ELSE "spawn")
  /\ UNCHANGED <<flags, theme, scan, tls, pauses, kind, ret>> /\ Flagless

\* Short download, wrong hash, or the flash refuses.
WriteFails ==
  /\ kind # "repair"
  /\ NetGoes("write", IF kind \in Pulls THEN "clear" ELSE "resume")
  /\ UNCHANGED <<flags, theme, scan, tls, pauses, kind, ret>> /\ Flagless

Spawn ==
  /\ NetGoes("spawn", "resume")
  /\ SpawnWrites(SpawnReads)
  /\ UNCHANGED <<flags, theme, tls, pauses, kind, ret>> /\ Flagless

\* webui_resume_tasks, display_resume_after_wait.
Resume ==
  /\ NetGoes("resume", "clear")
  /\ quiet' = FALSE /\ wait' = FALSE
  /\ IF kind = "repair" THEN Give("net") ELSE UNCHANGED tls
  /\ UNCHANGED <<flags, theme, scan, frozen, kind, ret>> /\ Flagless

\* The end of each task; a pull that au_run called returns to it.
Clear ==
  /\ NetGoes("clear", IF kind \in ThemeJobs THEN "unbusy"
                      ELSE IF kind = "update" THEN "lookEnd" ELSE "return")
  /\ active' = FALSE
  /\ tmRunning' = (tmRunning /\ kind \notin ThemeJobs)
  /\ UNCHANGED <<job, auBusy, tmPending, tmBusy, scan, tls, pauses, kind, ret>> /\ Flagless

Unbusy ==
  /\ NetGoes("unbusy", "revive")
  /\ tmBusy' = FALSE
  /\ UNCHANGED <<flags, tmRunning, tmPending, scan, tls, pauses, kind, ret>> /\ Flagless

\* A scan asked for while the theme job ran.
Revive ==
  /\ NetGoes("revive", "return")
  /\ IF deferred
       THEN /\ deferred' = (SpawnReads = "defer")
            /\ scanActive' = (scanActive \/ SpawnReads = "set")
            /\ scanPending' = (scanPending \/ SpawnReads = "set")
       ELSE UNCHANGED scan
  /\ UNCHANGED <<flags, theme, tls, pauses, kind, ret>> /\ Flagless

Following(from) == CASE from = "job" -> "theme" [] from = "theme" -> "scan"
                     [] from = "daily" -> "au"  [] OTHER -> "asleep"

SlipSlot == job
Slot     == IF ret = "job" THEN "none" ELSE job

Return ==
  /\ NetGoes("return", Following(ret))
  /\ job' = Slot
  /\ kind' = "none" /\ ret' = "none"
  /\ UNCHANGED <<active, auBusy, theme, scan, tls, pauses>> /\ Flagless

Work ==
  \/ BeginFails \/ Begin \/ Show \/ TakeAndSuspend \/ Fetched \/ FetchFails
  \/ Written \/ WriteFails \/ Spawn \/ Resume \/ Clear \/ Unbusy
  \/ Revive \/ Return

NetStep == Tick \/ Look \/ Work

-----------------------------------------------------------------------------
(* post_ota_autostart_task, and the timer that asks for the scan at boot. *)

AutoGoes(from, to) ==
  /\ auto = from /\ auto' = to
  /\ UNCHANGED <<auBusy, theme, scan, tls, pauses, restart, h, req, net, timer>>

AutoLook ==
  /\ AutoGoes("start", IF active THEN "done" ELSE "set")
  /\ active \/ MayStart
  /\ UNCHANGED <<active, job>>

AutoSet   == AutoGoes("set", "check") /\ active' = TRUE /\ UNCHANGED job
AutoCheck == AutoGoes("check", "queue") /\ job = "none" /\ UNCHANGED <<active, job>>
AutoFails == AutoGoes("check", "done") /\ active' = FALSE /\ UNCHANGED job
AutoQueue == AutoGoes("queue", "done") /\ job' = "webui" /\ UNCHANGED active
AutoStep  == AutoLook \/ AutoSet \/ AutoCheck \/ AutoFails \/ AutoQueue

TimerGoes(from, to) ==
  /\ timer = from /\ timer' = to
  /\ UNCHANGED <<flags, theme, tls, pauses, restart, h, req, net, auto>>

TimerFires == TimerGoes("idle", "spawn") /\ ~active /\ UNCHANGED scan
TimerReads == TimerGoes("spawn", SpawnNext("done")) /\ UNCHANGED scan
TimerWrites ==
  /\ timer \in {"defer", "set"}
  /\ TimerGoes(timer, "done")
  /\ SpawnWrites(timer)
TimerStep == TimerReads \/ TimerWrites

\* esp_restart at the end of a firmware pull, or from the one-shot timer.
Restart ==
  /\ restart \/ (Awake /\ n = "write" /\ kind \in Pulls)
  /\ Reset

-----------------------------------------------------------------------------
Next ==
  \/ \E k \in Requests \ {"look", "rescan"} : Accept(k)
  \/ "look" \in Requests /\ AcceptLook
  \/ "rescan" \in Requests /\ AskRescan
  \/ HttpdStep \/ NetStep \/ AutoStep
  \/ TimerFires \/ TimerStep
  \/ Restart

Spec == Init /\ [][Next]_vars

\* FreeRTOS runs every ready task, and net_poll gets its turns even when
\* hotpatches suspend it again and again.
Fairness ==
  /\ WF_vars(HttpdStep) /\ WF_vars(TimerStep) /\ WF_vars(AutoStep)
  /\ SF_vars(NetStep)
FairSpec == Spec /\ Fairness

-----------------------------------------------------------------------------
(* Properties *)

\* The flags are Booleans, and every task stands at a step of its own with the
\* kind of work that step belongs to.
TypeOk ==
  /\ {active, tmRunning, tmBusy, scanActive, scanPending, deferred,
      auBusy, wait, quiet, frozen, restart} \subseteq BOOLEAN
  /\ job \in Jobs \cup {"none", "look"} /\ tmPending \in ThemeJobs \cup {"none"}
  /\ tls \in {"free", "httpd", "net"}
  /\ req \in AllRequests \cup {"none"}
  /\ kind \in Jobs \cup ThemeJobs \cup {"none", "look", "update"}
  /\ ret \in {"none", "job", "theme", "daily", "au"}
  /\ auto \in {"start", "set", "check", "queue", "done"}
  /\ timer \in {"idle", "spawn", "defer", "set", "done"}
  /\ h \in {"idle", "body", "check", "queue", "clear", "tmBusy", "tmScan", "tmSet",
            "tmQueue", "show", "take", "hush", "write", "spawn", "defer", "set",
            "resume", "unshow"}
  /\ h = "idle" <=> req = "none"
  /\ h \in {"check", "queue"} => req \in Jobs \cup {"look"}

\* Updates under way: held by a handler, by the post-OTA task, queued for
\* net_poll, or run by it until it clears s_ota_active.
HeldBy(who) ==
  CASE who = "httpd"  -> req \notin {"look", "rescan", "none"}
    [] who = "auto"   -> auto \in {"set", "check", "queue"}
    [] who = "queued" -> job \notin {"none", "look"} /\ ret # "job"
    [] who = "theme"  -> tmPending # "none"
    [] who = "net"    -> n \in Stages \/ n \in {"dailyBusy", "dailySet"}
Underway == {who \in {"httpd", "auto", "queued", "theme", "net"} : HeldBy(who)}

\* s_ota_active lets one update through at a time, from the request to the last
\* step on net_poll, as long as no two of them stand between their look at it
\* and setting it at the same time (Meeting; SecondRejected is the same without
\* that assumption).  And flash is written behind the wait screen, with the other
\* tasks suspended.
UpdatesApart ==
  /\ Cardinality(Underway) <= 1
  /\ h = "write" \/ n = "write" => wait /\ quiet

\* A queued job gets done and frees the slot, and a scan ends, unless a failed
\* upload has left net_poll suspended.
QueueDrains ==
  \/ <>[]frozen
  \/ (job # "none" ~> job = "none") /\ (scanActive ~> ~scanActive)

(* What comments say, and the code does not keep. *)

\* web_server.c:1732: a second update request is rejected while one is already
\* running (its s_ota_active is cleared "only if the flash fails").
SecondRejected ==
  [][h = "idle" /\ h' \in {"body", "tmBusy"} => n \notin Stages]_vars

\* web_server.c:2572: the TLS semaphore is taken before net_poll is suspended,
\* in every path that writes flash, so that net_poll is never suspended with it.
NotFrozenWithTls == frozen => tls # "net"

=============================================================================
