--------------------------- MODULE UpdateJobs_proofs ---------------------------
(***************************************************************************)
(* Proofs about UpdateJobs, for any set of requests and schedules.         *)
(*                                                                         *)
(* UpdatesApart is about what is under way; the code keeps it with a flag  *)
(* that says nothing of who set it.  The invariant therefore counts claims *)
(* (an update under way, or a look at GitHub that may become one): there   *)
(* is one at most, each claim past its assignment finds s_ota_active set,  *)
(* and s_np_job and s_au.busy have one owner each.  Whoever clears a flag  *)
(* then clears its own.                                                    *)
(***************************************************************************)
EXTENDS UpdateJobs, FiniteSetTheorems, TLAPS

Passing == {"asleep", "job", "theme", "scan", "scanning", "daily", "dailyBusy", "dailySet", "au", "poll"}
Looking == {"lookTake", "lookRead", "lookSet", "lookEnd"}
NetPcs  == Passing \cup Looking \cup Stages \cup {"unbusy", "revive", "return"}

\* TypeOk, flag by flag.
FlagsOk ==
  /\ active \in BOOLEAN /\ tmRunning \in BOOLEAN /\ tmBusy \in BOOLEAN
  /\ scanActive \in BOOLEAN /\ scanPending \in BOOLEAN /\ deferred \in BOOLEAN
  /\ auBusy \in BOOLEAN /\ wait \in BOOLEAN /\ quiet \in BOOLEAN /\ frozen \in BOOLEAN
  /\ restart \in BOOLEAN

PcsOk ==
  /\ job \in Jobs \cup {"none", "look"} /\ tmPending \in ThemeJobs \cup {"none"}
  /\ tls \in {"free", "httpd", "net"}
  /\ req \in AllRequests \cup {"none"}
  /\ kind \in Jobs \cup ThemeJobs \cup {"none", "look", "update"}
  /\ ret \in {"none", "job", "theme", "daily", "au"}
  /\ auto \in {"start", "set", "check", "queue", "done"}
  /\ timer \in {"idle", "spawn", "defer", "set", "done"}
  /\ h \in {"idle", "body", "check", "queue", "clear", "tmBusy", "tmScan", "tmSet",
            "tmQueue", "show", "take", "hush", "write", "spawn", "defer", "set",
            "resume", "unshow"}
  /\ h = "idle" <=> req = "none"

\* What each step of the httpd task can be serving, and each of net_poll.
PlaceInv ==
  /\ h = "body" => req \in Uploads \cup Jobs \cup {"hotpatch", "staged"}
  /\ h \in {"check", "queue"} => req \in Jobs \cup {"look"}
  /\ h = "clear" => req \in Jobs \cup Uploads \cup {"look", "hotpatch"}
  /\ h \in {"tmBusy", "tmScan", "tmSet", "tmQueue"} => req \in ThemeJobs
  /\ h \in {"show", "hush", "write"} => req \in Uploads \cup {"hotpatch"}
  /\ h \in {"spawn", "defer", "set"} => req \in {"hotpatch", "rescan"}
  /\ h \in {"take", "resume", "unshow"} => req = "hotpatch"
  /\ n \in NetPcs
  /\ n \in Passing => ret = "none" /\ kind = "none"
  /\ n \in Looking \ {"lookEnd"} => kind = "look"
  /\ n \in Stages => kind \in Jobs \cup ThemeJobs \cup {"update"}
  /\ n = "lookEnd" => kind \in {"look", "update"}

-----------------------------------------------------------------------------
(* Claims: updates under way, and looks at GitHub that have not installed. *)

HttpdClaim == req \notin {"look", "rescan", "none"}
AutoClaim  == auto \in {"set", "check", "queue"}
QueueClaim == job \notin {"none", "look"} /\ ret # "job"
ThemeClaim == tmPending # "none"
NetClaim   == n \in Stages \/ n \in {"dailyBusy", "dailySet"}

OneClaim ==
  /\ HttpdClaim => ~(AutoClaim \/ QueueClaim \/ ThemeClaim \/ NetClaim \/ LookLooked)
  /\ AutoClaim  => ~(QueueClaim \/ ThemeClaim \/ NetClaim \/ LookLooked)
  /\ QueueClaim => ~(ThemeClaim \/ NetClaim \/ LookLooked)
  /\ ThemeClaim => ~(NetClaim \/ LookLooked)
  /\ NetClaim   => ~LookLooked

\* Past its assignment, a claim finds s_ota_active set.
ActiveInv ==
  /\ HttpdClaim => HttpdLooked \/ active
  /\ AutoClaim => AutoLooked \/ active
  /\ QueueClaim \/ ThemeClaim \/ n \in Stages => active

\* s_np_job is written by whoever saw it free, and freed by the work it started.
SlotInv ==
  /\ h = "queue" \/ auto = "queue" => job = "none"
  /\ ret = "job" => job # "none"

\* s_au.busy belongs to a request, to the queued job or to the look net_poll does.
LookHttpd  == req = "look"
LookQueued == job = "look" /\ ret # "job"
LookNet    == n \in Looking \/ (kind = "update" /\ n \in Stages)
LookInv ==
  /\ LookHttpd \/ LookQueued \/ LookNet => auBusy
  /\ LookHttpd => ~(LookQueued \/ LookNet)
  /\ LookQueued => ~LookNet

\* Behind the wait screen and with the other tasks suspended.
FlashInv ==
  /\ h \in {"take", "hush", "write"} => wait
  /\ h = "write" => quiet
  /\ n \in {"take", "fetch", "write"} => wait \/ kind = "refresh"
  /\ n \in {"fetch", "write"} => quiet \/ kind = "refresh"
  /\ n = "write" => kind # "refresh"

Coupled == PlaceInv /\ OneClaim /\ ActiveInv /\ SlotInv /\ LookInv /\ FlashInv
IInv == FlagsOk /\ PcsOk /\ Coupled

-----------------------------------------------------------------------------
LEMMA InitInv == Init => IInv
<1> SUFFICES ASSUME Init PROVE IInv
  OBVIOUS
<1> USE DEF Init
<1>1. FlagsOk /\ PcsOk
  BY DEF FlagsOk, PcsOk, Jobs, AllRequests, Autostart
<1>2. PlaceInv /\ SlotInv /\ LookInv /\ FlashInv
  BY DEF PlaceInv, SlotInv, LookInv, FlashInv, LookHttpd, LookQueued, LookNet, NetPcs, Passing, Looking,
         Stages, Autostart
<1>3. OneClaim /\ ActiveInv
  BY DEF OneClaim, ActiveInv, HttpdClaim, AutoClaim, QueueClaim, ThemeClaim, NetClaim, LookLooked,
         Stages, Autostart
<1> QED BY <1>1, <1>2, <1>3 DEF IInv, Coupled

LEMMA RestartInv == Reset => IInv'
<1> SUFFICES ASSUME Reset PROVE IInv'
  OBVIOUS
<1> USE DEF Reset
<1>1. (FlagsOk /\ PcsOk)'
  BY DEF FlagsOk, PcsOk, Jobs, AllRequests, Autostart
<1>2. (PlaceInv /\ SlotInv /\ LookInv /\ FlashInv)'
  BY DEF PlaceInv, SlotInv, LookInv, FlashInv, LookHttpd, LookQueued, LookNet, NetPcs, Passing, Looking,
         Stages, Autostart
<1>3. (OneClaim /\ ActiveInv)'
  BY DEF OneClaim, ActiveInv, HttpdClaim, AutoClaim, QueueClaim, ThemeClaim, NetClaim, LookLooked,
         Stages, Autostart
<1> QED BY <1>1, <1>2, <1>3 DEF IInv, Coupled

-----------------------------------------------------------------------------
(* Requests come in. *)

LEMMA AcceptInv ==
  ASSUME ~Meeting, IInv, NEW k \in Requests \ {"look", "rescan"}, Accept(k)
  PROVE  IInv'
<1> USE RequestAssumption
        DEF IInv, Coupled, Accept, Serves, Free, MayStart, flags, theme, scan, pauses, net, RequestAssumption,
            Uploads, Jobs, ThemeJobs
<1>1. (FlagsOk /\ PcsOk /\ PlaceInv)'
  BY DEF FlagsOk, PcsOk, PlaceInv, AllRequests
<1>2. (OneClaim /\ ActiveInv)'
  BY DEF OneClaim, ActiveInv, HttpdClaim, AutoClaim, QueueClaim, ThemeClaim, NetClaim, LookLooked,
         HttpdLooked, AutoLooked, DailyLooked, Stages
<1>3. (SlotInv /\ LookInv /\ FlashInv)'
  BY DEF SlotInv, LookInv, FlashInv, LookHttpd, LookQueued, LookNet, PcsOk
<1> QED BY <1>1, <1>2, <1>3

LEMMA LookAskedType ==
  ASSUME FlagsOk, PcsOk, PlaceInv, AcceptLook \/ AskRescan
  PROVE  FlagsOk' /\ PcsOk'
<1> USE DEF flags, theme, scan, pauses, net
<1>1. FlagsOk'
  <2> USE DEF FlagsOk
  <2>1. CASE AcceptLook
    BY <2>1 DEF AcceptLook, Serves
  <2>2. CASE AskRescan
    BY <2>2 DEF AskRescan, Serves
  <2> QED BY <2>1, <2>2
<1>2. PcsOk'
  <2> USE DEF PcsOk, PlaceInv, Uploads, Jobs, ThemeJobs, AllRequests
  <2>1. CASE AcceptLook \/ AskRescan
    BY <2>1 DEF AcceptLook, Serves, AskRescan
  <2> QED BY <2>1
<1> QED BY <1>1, <1>2

LEMMA LookAsked ==
  ASSUME ~Meeting, IInv, AcceptLook \/ AskRescan
  PROVE  Coupled'
<1> USE DEF IInv, Coupled, FlagsOk, PcsOk, PlaceInv, OneClaim, ActiveInv, SlotInv, LookInv, FlashInv,
            HttpdClaim, AutoClaim, QueueClaim, ThemeClaim, NetClaim, LookLooked, LookHttpd,
            LookQueued, LookNet, HttpdLooked, AutoLooked, DailyLooked, MayStart, Stages, Passing,
            Looking, NetPcs, Uploads, Jobs, ThemeJobs, AllRequests, flags, theme, scan, pauses, net
<1>1. CASE AcceptLook
  BY <1>1 DEF AcceptLook, Serves
<1>2. CASE AskRescan
  BY <1>2 DEF AskRescan, Serves
<1> QED BY <1>1, <1>2

-----------------------------------------------------------------------------
(* The httpd task. *)

LEMMA HttpdType ==
  ASSUME FlagsOk, PcsOk, PlaceInv, HttpdStep
  PROVE  FlagsOk' /\ PcsOk'
<1> USE DEF flags, theme, scan, pauses, net
<1>1. FlagsOk'
  <2> USE DEF FlagsOk
  <2>1. CASE BodyRefused
    BY <2>1 DEF BodyRefused, HttpdGoes, HttpdAt
  <2>2. CASE SetActive
    BY <2>2 DEF SetActive, HttpdGoes, HttpdAt, After
  <2>3. CASE SlotSeenFree
    BY <2>3 DEF SlotSeenFree, HttpdGoes, HttpdAt
  <2>4. CASE JobRefused
    BY <2>4 DEF JobRefused, HttpdGoes, HttpdAt
  <2>5. CASE QueueJob
    BY <2>5 DEF QueueJob, HttpdGoes, HttpdAt
  <2>6. CASE TmBusy
    BY <2>6 DEF TmBusy, HttpdGoes, HttpdAt
  <2>7. CASE TmSet
    BY <2>7 DEF TmSet, HttpdGoes, HttpdAt
  <2>8. CASE TmQueue
    BY <2>8 DEF TmQueue, HttpdGoes, HttpdAt
  <2>9. CASE BadUpload
    BY <2>9 DEF BadUpload, HttpdGoes, HttpdAt
  <2>10. CASE ShowWait
    BY <2>10 DEF ShowWait, HttpdGoes, HttpdAt
  <2>11. CASE TakeTls
    BY <2>11 DEF TakeTls, HttpdGoes, HttpdAt, Take
  <2>12. CASE SuspendTasks
    BY <2>12 DEF SuspendTasks, HttpdGoes, HttpdAt
  <2>13. CASE Extracted
    BY <2>13 DEF Extracted, HttpdGoes, HttpdAt
  <2>14. CASE HttpdSpawnReads
    BY <2>14 DEF HttpdSpawnReads, HttpdGoes, HttpdAt, SpawnNext, SpawnReads,
      HttpdSpawned
  <2>15. CASE HttpdSpawnWrites
    BY <2>15 DEF HttpdSpawnWrites, HttpdGoes, HttpdAt, SpawnWrites, HttpdSpawned
  <2>16. CASE ClearFailed
    BY <2>16 DEF ClearFailed, HttpdGoes, HttpdAt
  <2>17. CASE TmScan
    BY <2>17 DEF TmScan, HttpdGoes, HttpdAt
  <2>18. CASE UploadEnds
    BY <2>18 DEF UploadEnds, HttpdGoes, HttpdAt
  <2>19. CASE ResumeTasks
    BY <2>19 DEF ResumeTasks, HttpdGoes, HttpdAt
  <2>20. CASE ResumeDisplay
    BY <2>20 DEF ResumeDisplay, HttpdGoes, HttpdAt, Give
  <2> QED BY <2>1, <2>2, <2>3, <2>4, <2>5, <2>6, <2>7, <2>8, <2>9, <2>10, <2>11, <2>12, <2>13, <2>14, <2>15, <2>16, <2>17, <2>18, <2>19, <2>20 DEF HttpdStep, TmStart
<1>2. PcsOk'
  <2> USE DEF PcsOk, PlaceInv, Uploads, Jobs, ThemeJobs, AllRequests
  <2>1. CASE BodyRefused \/ SetActive \/ SlotSeenFree \/ JobRefused
    BY <2>1 DEF BodyRefused, HttpdGoes, HttpdAt, SetActive, After, SlotSeenFree,
      JobRefused
  <2>2. CASE QueueJob \/ ClearFailed \/ TmBusy \/ TmScan
    BY <2>2 DEF QueueJob, HttpdGoes, HttpdAt, ClearFailed, TmBusy, TmScan
  <2>3. CASE TmSet \/ TmQueue \/ BadUpload \/ ShowWait
    BY <2>3 DEF TmSet, HttpdGoes, HttpdAt, TmQueue, BadUpload, ShowWait
  <2>4. CASE TakeTls \/ SuspendTasks \/ UploadEnds \/ Extracted
    BY <2>4 DEF TakeTls, HttpdGoes, HttpdAt, Take, SuspendTasks, UploadEnds, Extracted
  <2>5. CASE HttpdSpawnReads \/ HttpdSpawnWrites \/ ResumeTasks \/ ResumeDisplay
    BY <2>5 DEF HttpdSpawnReads, HttpdGoes, HttpdAt, SpawnNext, SpawnReads,
      HttpdSpawned, HttpdSpawnWrites, SpawnWrites, ResumeTasks, ResumeDisplay, Give
  <2> QED BY <2>1, <2>2, <2>3, <2>4, <2>5 DEF HttpdStep, TmStart
<1> QED BY <1>1, <1>2

LEMMA HttpdInv ==
  ASSUME IInv, HttpdStep
  PROVE  Coupled'
<1> USE DEF IInv, Coupled, FlagsOk, PcsOk, PlaceInv, OneClaim, ActiveInv, SlotInv, LookInv, FlashInv,
            HttpdClaim, AutoClaim, QueueClaim, ThemeClaim, NetClaim, LookLooked, LookHttpd,
            LookQueued, LookNet, HttpdLooked, AutoLooked, DailyLooked, MayStart, Stages, Passing,
            Looking, NetPcs, Uploads, Jobs, ThemeJobs, AllRequests, flags, theme, scan, pauses, net
<1>1. CASE BodyRefused
  BY <1>1 DEF BodyRefused, HttpdGoes, HttpdAt
<1>2. CASE SetActive
  BY <1>2 DEF SetActive, HttpdGoes, HttpdAt, After
<1>3. CASE SlotSeenFree
  BY <1>3 DEF SlotSeenFree, HttpdGoes, HttpdAt
<1>4. CASE JobRefused
  BY <1>4 DEF JobRefused, HttpdGoes, HttpdAt
<1>5. CASE QueueJob
  BY <1>5 DEF QueueJob, HttpdGoes, HttpdAt
<1>6. CASE ClearFailed
  <2> USE <1>6 DEF ClearFailed, HttpdGoes, HttpdAt
  <2>1. PlaceInv'
    OBVIOUS
  <2>2. OneClaim'
    OBVIOUS
  <2>3. ActiveInv'
    OBVIOUS
  <2>4. (SlotInv /\ LookInv)'
    OBVIOUS
  <2>5. FlashInv'
    OBVIOUS
  <2> QED BY <2>1, <2>2, <2>3, <2>4, <2>5
<1>7. CASE TmBusy
  BY <1>7 DEF TmBusy, HttpdGoes, HttpdAt
<1>8. CASE TmScan
  BY <1>8 DEF TmScan, HttpdGoes, HttpdAt
<1>9. CASE TmSet
  BY <1>9 DEF TmSet, HttpdGoes, HttpdAt
<1>10. CASE TmQueue
  BY <1>10 DEF TmQueue, HttpdGoes, HttpdAt
<1>11. CASE BadUpload
  BY <1>11 DEF BadUpload, HttpdGoes, HttpdAt
<1>12. CASE ShowWait
  BY <1>12 DEF ShowWait, HttpdGoes, HttpdAt
<1>13. CASE TakeTls
  BY <1>13 DEF TakeTls, HttpdGoes, HttpdAt, Take
<1>14. CASE SuspendTasks
  BY <1>14 DEF SuspendTasks, HttpdGoes, HttpdAt
<1>15. CASE UploadEnds
  <2> USE <1>15 DEF UploadEnds, HttpdGoes, HttpdAt
  <2>1. PlaceInv'
    OBVIOUS
  <2>2. OneClaim'
    OBVIOUS
  <2>3. ActiveInv'
    OBVIOUS
  <2>4. (SlotInv /\ LookInv)'
    OBVIOUS
  <2>5. FlashInv'
    OBVIOUS
  <2> QED BY <2>1, <2>2, <2>3, <2>4, <2>5
<1>16. CASE Extracted
  BY <1>16 DEF Extracted, HttpdGoes, HttpdAt
<1>17. CASE HttpdSpawnReads
  BY <1>17 DEF HttpdSpawnReads, HttpdGoes, HttpdAt, SpawnNext, SpawnReads, HttpdSpawned
<1>18. CASE HttpdSpawnWrites
  BY <1>18 DEF HttpdSpawnWrites, HttpdGoes, HttpdAt, SpawnWrites, HttpdSpawned
<1>19. CASE ResumeTasks
  <2> USE <1>19 DEF ResumeTasks, HttpdGoes, HttpdAt
  <2>1. PlaceInv'
    OBVIOUS
  <2>2. OneClaim'
    OBVIOUS
  <2>3. ActiveInv'
    OBVIOUS
  <2>4. (SlotInv /\ LookInv)'
    OBVIOUS
  <2>5. FlashInv'
    OBVIOUS
  <2> QED BY <2>1, <2>2, <2>3, <2>4, <2>5
<1>20. CASE ResumeDisplay
  <2> USE <1>20 DEF ResumeDisplay, HttpdGoes, HttpdAt, Give
  <2>1. PlaceInv'
    OBVIOUS
  <2>2. OneClaim'
    OBVIOUS
  <2>3. ActiveInv'
    OBVIOUS
  <2>4. (SlotInv /\ LookInv)'
    OBVIOUS
  <2>5. FlashInv'
    OBVIOUS
  <2> QED BY <2>1, <2>2, <2>3, <2>4, <2>5
<1> QED BY <1>1, <1>2, <1>3, <1>4, <1>5, <1>6, <1>7, <1>8, <1>9, <1>10, <1>11, <1>12, <1>13, <1>14, <1>15, <1>16, <1>17, <1>18, <1>19, <1>20 DEF HttpdStep, TmStart

-----------------------------------------------------------------------------
(* net_poll. *)

LEMMA TickType ==
  ASSUME FlagsOk, PcsOk, PlaceInv, Tick
  PROVE  FlagsOk' /\ PcsOk'
<1> USE DEF flags, theme, scan, pauses, net, NetGoes, Begins, Flagless, Take, Give
<1>1. FlagsOk'
  <2> USE DEF FlagsOk
  <2>1. CASE Wake
    BY <2>1 DEF Wake
  <2>2. CASE PollBegins
    BY <2>2 DEF PollBegins
  <2>3. CASE PollEnds
    BY <2>3 DEF PollEnds
  <2>4. CASE NoScan
    BY <2>4 DEF NoScan
  <2>5. CASE DailyDue
    BY <2>5 DEF DailyDue
  <2>6. CASE DailyBusy
    BY <2>6 DEF DailyBusy
  <2>7. CASE DailySet
    BY <2>7 DEF DailySet
  <2>8. CASE DailySkip
    BY <2>8 DEF DailySkip
  <2>9. CASE AuDue
    BY <2>9 DEF AuDue
  <2>10. CASE TickEnds
    BY <2>10 DEF TickEnds
  <2>11. CASE TickJob
    BY <2>11 DEF TickJob
  <2>12. CASE TickTheme
    BY <2>12 DEF TickTheme
  <2>13. CASE ScanBegins
    BY <2>13 DEF ScanBegins
  <2>14. CASE ScanEnds
    BY <2>14 DEF ScanEnds
  <2> QED BY <2>1, <2>2, <2>3, <2>4, <2>5, <2>6, <2>7, <2>8, <2>9, <2>10, <2>11, <2>12, <2>13, <2>14 DEF Tick
<1>2. PcsOk'
  <2> USE DEF PcsOk, PlaceInv, Uploads, Jobs, ThemeJobs, AllRequests
  <2>1. CASE Wake \/ PollBegins \/ PollEnds \/ TickJob
    BY <2>1 DEF Wake, PollBegins, PollEnds, TickJob
  <2>2. CASE TickTheme \/ ScanBegins \/ NoScan \/ ScanEnds
    BY <2>2 DEF TickTheme, ScanBegins, NoScan, ScanEnds
  <2>3. CASE DailyDue \/ DailyBusy \/ DailySet \/ DailySkip
    BY <2>3 DEF DailyDue, DailyBusy, DailySet, DailySkip
  <2>4. CASE AuDue \/ TickEnds
    BY <2>4 DEF AuDue, TickEnds
  <2> QED BY <2>1, <2>2, <2>3, <2>4 DEF Tick
<1> QED BY <1>1, <1>2

LEMMA TickInv ==
  ASSUME ~Meeting, IInv, Tick
  PROVE  Coupled'
<1> USE DEF IInv, Coupled, FlagsOk, PcsOk, PlaceInv, OneClaim, ActiveInv, SlotInv, LookInv, FlashInv,
            HttpdClaim, AutoClaim, QueueClaim, ThemeClaim, NetClaim, LookLooked, LookHttpd,
            LookQueued, LookNet, HttpdLooked, AutoLooked, DailyLooked, MayStart, Stages, Passing,
            Looking, NetPcs, Uploads, Jobs, ThemeJobs, AllRequests, flags, theme, scan, pauses, net
<1> USE DEF NetGoes, Begins, Flagless, Take, Give
<1>1. CASE Wake
  BY <1>1 DEF Wake
<1>2. CASE PollBegins
  BY <1>2 DEF PollBegins
<1>3. CASE PollEnds
  BY <1>3 DEF PollEnds
<1>4. CASE TickJob
  <2> USE <1>4 DEF TickJob
  <2>1. PlaceInv'
    OBVIOUS
  <2>2. OneClaim'
    OBVIOUS
  <2>3. ActiveInv'
    OBVIOUS
  <2>4. (SlotInv /\ LookInv)'
    OBVIOUS
  <2>5. FlashInv'
    OBVIOUS
  <2> QED BY <2>1, <2>2, <2>3, <2>4, <2>5
<1>5. CASE TickTheme
  <2> USE <1>5 DEF TickTheme
  <2>1. PlaceInv'
    OBVIOUS
  <2>2. OneClaim'
    OBVIOUS
  <2>3. ActiveInv'
    OBVIOUS
  <2>4. (SlotInv /\ LookInv)'
    OBVIOUS
  <2>5. FlashInv'
    OBVIOUS
  <2> QED BY <2>1, <2>2, <2>3, <2>4, <2>5
<1>6. CASE ScanBegins
  BY <1>6 DEF ScanBegins
<1>7. CASE NoScan
  BY <1>7 DEF NoScan
<1>8. CASE ScanEnds
  <2> USE <1>8 DEF ScanEnds
  <2>1. PlaceInv'
    OBVIOUS
  <2>2. OneClaim'
    OBVIOUS
  <2>3. ActiveInv'
    OBVIOUS
  <2>4. (SlotInv /\ LookInv)'
    OBVIOUS
  <2>5. FlashInv'
    OBVIOUS
  <2> QED BY <2>1, <2>2, <2>3, <2>4, <2>5
<1>9. CASE DailyDue
  BY <1>9 DEF DailyDue
<1>10. CASE DailyBusy
  BY <1>10 DEF DailyBusy
<1>11. CASE DailySet
  BY <1>11 DEF DailySet
<1>12. CASE DailySkip
  BY <1>12 DEF DailySkip
<1>13. CASE AuDue
  BY <1>13 DEF AuDue
<1>14. CASE TickEnds
  BY <1>14 DEF TickEnds
<1> QED BY <1>1, <1>2, <1>3, <1>4, <1>5, <1>6, <1>7, <1>8, <1>9, <1>10, <1>11, <1>12, <1>13, <1>14 DEF Tick

LEMMA GitHubType ==
  ASSUME FlagsOk, PcsOk, PlaceInv, Look
  PROVE  FlagsOk' /\ PcsOk'
<1> USE DEF flags, theme, scan, pauses, net, NetGoes, Begins, Flagless, Take, Give
<1>1. FlagsOk'
  <2> USE DEF FlagsOk
  <2>1. CASE LookTake
    BY <2>1 DEF LookTake
  <2>2. CASE LookRead
    BY <2>2 DEF LookRead
  <2>3. CASE LookSet
    BY <2>3 DEF LookSet
  <2>4. CASE LookEnd
    BY <2>4 DEF LookEnd
  <2> QED BY <2>1, <2>2, <2>3, <2>4 DEF Look
<1>2. PcsOk'
  <2> USE DEF PcsOk, PlaceInv, Uploads, Jobs, ThemeJobs, AllRequests
  <2>1. CASE LookTake \/ LookRead \/ LookSet \/ LookEnd
    BY <2>1 DEF LookTake, LookRead, LookSet, LookEnd
  <2> QED BY <2>1 DEF Look
<1> QED BY <1>1, <1>2

LEMMA GitHubInv ==
  ASSUME IInv, Look
  PROVE  Coupled'
<1> USE DEF IInv, Coupled, FlagsOk, PcsOk, PlaceInv, OneClaim, ActiveInv, SlotInv, LookInv, FlashInv,
            HttpdClaim, AutoClaim, QueueClaim, ThemeClaim, NetClaim, LookLooked, LookHttpd,
            LookQueued, LookNet, HttpdLooked, AutoLooked, DailyLooked, MayStart, Stages, Passing,
            Looking, NetPcs, Uploads, Jobs, ThemeJobs, AllRequests, flags, theme, scan, pauses, net
<1> USE DEF NetGoes, Begins, Flagless, Take, Give
<1>1. CASE LookTake
  BY <1>1 DEF LookTake
<1>2. CASE LookRead
  BY <1>2 DEF LookRead
<1>3. CASE LookSet
  BY <1>3 DEF LookSet
<1>4. CASE LookEnd
  <2> USE <1>4 DEF LookEnd
  <2>1. PlaceInv'
    OBVIOUS
  <2>2. OneClaim'
    OBVIOUS
  <2>3. ActiveInv'
    OBVIOUS
  <2>4. (SlotInv /\ LookInv)'
    OBVIOUS
  <2>5. FlashInv'
    OBVIOUS
  <2> QED BY <2>1, <2>2, <2>3, <2>4, <2>5
<1> QED BY <1>1, <1>2, <1>3, <1>4 DEF Look

LEMMA WorkType ==
  ASSUME FlagsOk, PcsOk, PlaceInv, Work
  PROVE  FlagsOk' /\ PcsOk'
<1> USE DEF flags, theme, scan, pauses, net, NetGoes, Begins, Flagless, Take, Give
<1>1. FlagsOk'
  <2> USE DEF FlagsOk
  <2>1. CASE Begin
    BY <2>1 DEF Begin, Shows, Pulls
  <2>2. CASE Show
    BY <2>2 DEF Show, Shown
  <2>3. CASE TakeAndSuspend
    BY <2>3 DEF TakeAndSuspend
  <2>4. CASE Fetched
    BY <2>4 DEF Fetched
  <2>5. CASE FetchFails
    BY <2>5 DEF FetchFails, Resumes
  <2>6. CASE Written
    BY <2>6 DEF Written, Pulls
  <2>7. CASE WriteFails
    BY <2>7 DEF WriteFails, Pulls
  <2>8. CASE Spawn
    BY <2>8 DEF Spawn, SpawnWrites, SpawnReads
  <2>9. CASE Revive
    BY <2>9 DEF Revive, SpawnReads
  <2>10. CASE Return
    BY <2>10 DEF Return, Following, Slot
  <2>11. CASE BeginFails
    BY <2>11 DEF BeginFails
  <2>12. CASE Resume
    BY <2>12 DEF Resume
  <2>13. CASE Clear
    BY <2>13 DEF Clear
  <2>14. CASE Unbusy
    BY <2>14 DEF Unbusy
  <2> QED BY <2>1, <2>2, <2>3, <2>4, <2>5, <2>6, <2>7, <2>8, <2>9, <2>10, <2>11, <2>12, <2>13, <2>14 DEF Work
<1>2. PcsOk'
  <2> USE DEF PcsOk, PlaceInv, Uploads, Jobs, ThemeJobs, AllRequests
  <2>1. CASE BeginFails \/ Begin \/ Show \/ TakeAndSuspend
    BY <2>1 DEF BeginFails, Begin, Shows, Pulls, Show, Shown, TakeAndSuspend
  <2>2. CASE Fetched \/ FetchFails \/ Written \/ WriteFails
    BY <2>2 DEF Fetched, FetchFails, Resumes, Written, Pulls, WriteFails
  <2>3. CASE Spawn \/ Resume \/ Clear \/ Unbusy
    BY <2>3 DEF Spawn, SpawnWrites, SpawnReads, Resume, Clear, Unbusy
  <2>4. CASE Revive \/ Return
    BY <2>4 DEF Revive, SpawnReads, Return, Following, Slot
  <2> QED BY <2>1, <2>2, <2>3, <2>4 DEF Work
<1> QED BY <1>1, <1>2

LEMMA WorkInv ==
  ASSUME IInv, Work
  PROVE  Coupled'
<1> USE DEF IInv, Coupled, FlagsOk, PcsOk, PlaceInv, OneClaim, ActiveInv, SlotInv, LookInv, FlashInv,
            HttpdClaim, AutoClaim, QueueClaim, ThemeClaim, NetClaim, LookLooked, LookHttpd,
            LookQueued, LookNet, HttpdLooked, AutoLooked, DailyLooked, MayStart, Stages, Passing,
            Looking, NetPcs, Uploads, Jobs, ThemeJobs, AllRequests, flags, theme, scan, pauses, net
<1> USE DEF NetGoes, Begins, Flagless, Take, Give
<1>1. CASE BeginFails
  BY <1>1 DEF BeginFails
<1>2. CASE Begin
  BY <1>2 DEF Begin, Shows, Pulls
<1>3. CASE Show
  BY <1>3 DEF Show, Shown
<1>4. CASE TakeAndSuspend
  BY <1>4 DEF TakeAndSuspend
<1>5. CASE Fetched
  BY <1>5 DEF Fetched
<1>6. CASE FetchFails
  BY <1>6 DEF FetchFails, Resumes
<1>7. CASE Written
  BY <1>7 DEF Written, Pulls
<1>8. CASE WriteFails
  BY <1>8 DEF WriteFails, Pulls
<1>9. CASE Spawn
  BY <1>9 DEF Spawn, SpawnWrites, SpawnReads
<1>10. CASE Resume
  <2> USE <1>10 DEF Resume
  <2>1. PlaceInv'
    OBVIOUS
  <2>2. OneClaim'
    OBVIOUS
  <2>3. ActiveInv'
    OBVIOUS
  <2>4. (SlotInv /\ LookInv)'
    OBVIOUS
  <2>5. FlashInv'
    OBVIOUS
  <2> QED BY <2>1, <2>2, <2>3, <2>4, <2>5
<1>11. CASE Clear
  <2> USE <1>11 DEF Clear
  <2>1. PlaceInv'
    OBVIOUS
  <2>2. OneClaim'
    OBVIOUS
  <2>3. ActiveInv'
    OBVIOUS
  <2>4. (SlotInv /\ LookInv)'
    OBVIOUS
  <2>5. FlashInv'
    OBVIOUS
  <2> QED BY <2>1, <2>2, <2>3, <2>4, <2>5
<1>12. CASE Unbusy
  <2> USE <1>12 DEF Unbusy
  <2>1. PlaceInv'
    OBVIOUS
  <2>2. OneClaim'
    OBVIOUS
  <2>3. ActiveInv'
    OBVIOUS
  <2>4. (SlotInv /\ LookInv)'
    OBVIOUS
  <2>5. FlashInv'
    OBVIOUS
  <2> QED BY <2>1, <2>2, <2>3, <2>4, <2>5
<1>13. CASE Revive
  BY <1>13 DEF Revive, SpawnReads
<1>14. CASE Return
  BY <1>14 DEF Return, Following, Slot
<1> QED BY <1>1, <1>2, <1>3, <1>4, <1>5, <1>6, <1>7, <1>8, <1>9, <1>10, <1>11, <1>12, <1>13, <1>14 DEF Work

-----------------------------------------------------------------------------
(* The task after an update's restart, and the timer. *)

LEMMA AutoType ==
  ASSUME FlagsOk, PcsOk, PlaceInv, AutoStep
  PROVE  FlagsOk' /\ PcsOk'
<1> USE DEF flags, theme, scan, pauses, net, AutoGoes
<1>1. FlagsOk'
  <2> USE DEF FlagsOk
  <2>1. CASE AutoLook
    BY <2>1 DEF AutoLook
  <2>2. CASE AutoSet
    BY <2>2 DEF AutoSet
  <2>3. CASE AutoCheck
    BY <2>3 DEF AutoCheck
  <2>4. CASE AutoQueue
    BY <2>4 DEF AutoQueue
  <2>5. CASE AutoFails
    BY <2>5 DEF AutoFails
  <2> QED BY <2>1, <2>2, <2>3, <2>4, <2>5 DEF AutoStep
<1>2. PcsOk'
  <2> USE DEF PcsOk, PlaceInv, Uploads, Jobs, ThemeJobs, AllRequests
  <2>1. CASE AutoLook \/ AutoSet \/ AutoCheck \/ AutoFails
    BY <2>1 DEF AutoLook, AutoSet, AutoCheck, AutoFails
  <2>2. CASE AutoQueue
    BY <2>2 DEF AutoQueue
  <2> QED BY <2>1, <2>2 DEF AutoStep
<1> QED BY <1>1, <1>2

LEMMA AutoInv ==
  ASSUME ~Meeting, IInv, AutoStep
  PROVE  Coupled'
<1> USE DEF IInv, Coupled, FlagsOk, PcsOk, PlaceInv, OneClaim, ActiveInv, SlotInv, LookInv, FlashInv,
            HttpdClaim, AutoClaim, QueueClaim, ThemeClaim, NetClaim, LookLooked, LookHttpd,
            LookQueued, LookNet, HttpdLooked, AutoLooked, DailyLooked, MayStart, Stages, Passing,
            Looking, NetPcs, Uploads, Jobs, ThemeJobs, AllRequests, flags, theme, scan, pauses, net
<1> USE DEF AutoGoes
<1>1. CASE AutoLook
  BY <1>1 DEF AutoLook
<1>2. CASE AutoSet
  BY <1>2 DEF AutoSet
<1>3. CASE AutoCheck
  BY <1>3 DEF AutoCheck
<1>4. CASE AutoFails
  <2> USE <1>4 DEF AutoFails
  <2>1. PlaceInv'
    OBVIOUS
  <2>2. OneClaim'
    OBVIOUS
  <2>3. ActiveInv'
    OBVIOUS
  <2>4. (SlotInv /\ LookInv)'
    OBVIOUS
  <2>5. FlashInv'
    OBVIOUS
  <2> QED BY <2>1, <2>2, <2>3, <2>4, <2>5
<1>5. CASE AutoQueue
  BY <1>5 DEF AutoQueue
<1> QED BY <1>1, <1>2, <1>3, <1>4, <1>5 DEF AutoStep

LEMMA TimerType ==
  ASSUME FlagsOk, PcsOk, PlaceInv, TimerFires \/ TimerStep
  PROVE  FlagsOk' /\ PcsOk'
<1> USE DEF flags, theme, scan, pauses, net, TimerGoes
<1>1. FlagsOk'
  <2> USE DEF FlagsOk
  <2>1. CASE TimerFires
    BY <2>1 DEF TimerFires
  <2>2. CASE TimerReads
    BY <2>2 DEF TimerReads, SpawnNext, SpawnReads
  <2>3. CASE TimerWrites
    BY <2>3 DEF TimerWrites, SpawnWrites
  <2> QED BY <2>1, <2>2, <2>3 DEF TimerStep
<1>2. PcsOk'
  <2> USE DEF PcsOk, PlaceInv, Uploads, Jobs, ThemeJobs, AllRequests
  <2>1. CASE TimerFires \/ TimerReads \/ TimerWrites
    BY <2>1 DEF TimerFires, TimerReads, SpawnNext, SpawnReads, TimerWrites, SpawnWrites
  <2> QED BY <2>1 DEF TimerStep
<1> QED BY <1>1, <1>2

LEMMA TimerInv ==
  ASSUME IInv, TimerFires \/ TimerStep
  PROVE  Coupled'
<1> USE DEF IInv, Coupled, FlagsOk, PcsOk, PlaceInv, OneClaim, ActiveInv, SlotInv, LookInv, FlashInv,
            HttpdClaim, AutoClaim, QueueClaim, ThemeClaim, NetClaim, LookLooked, LookHttpd,
            LookQueued, LookNet, HttpdLooked, AutoLooked, DailyLooked, MayStart, Stages, Passing,
            Looking, NetPcs, Uploads, Jobs, ThemeJobs, AllRequests, flags, theme, scan, pauses, net
<1> USE DEF TimerGoes
<1>1. CASE TimerFires
  BY <1>1 DEF TimerFires
<1>2. CASE TimerReads
  BY <1>2 DEF TimerReads, SpawnNext, SpawnReads
<1>3. CASE TimerWrites
  BY <1>3 DEF TimerWrites, SpawnWrites
<1> QED BY <1>1, <1>2, <1>3 DEF TimerStep

-----------------------------------------------------------------------------
LEMMA Inductive == ASSUME ~Meeting PROVE IInv /\ [Next]_vars => IInv'
<1> SUFFICES ASSUME IInv, [Next]_vars PROVE IInv'
  OBVIOUS
<1>1. ASSUME NEW k \in Requests \ {"look", "rescan"}, Accept(k) PROVE IInv'
  BY <1>1, AcceptInv
<1>2. CASE AcceptLook \/ AskRescan
  BY <1>2, LookAsked, LookAskedType DEF IInv, Coupled
<1>3. CASE HttpdStep
  BY <1>3, HttpdInv, HttpdType DEF IInv, Coupled
<1>4. CASE NetStep
  BY <1>4, TickInv, GitHubInv, WorkInv, TickType, GitHubType, WorkType DEF NetStep, IInv, Coupled
<1>5. CASE AutoStep
  BY <1>5, AutoInv, AutoType DEF IInv, Coupled
<1>6. CASE TimerFires \/ TimerStep
  BY <1>6, TimerInv, TimerType DEF IInv, Coupled
<1>7. CASE Restart
  BY <1>7, RestartInv DEF Restart
<1>8. CASE UNCHANGED vars
  BY <1>8 DEF vars, flags, theme, scan, pauses, net, IInv, FlagsOk, PcsOk, Coupled, PlaceInv, OneClaim, ActiveInv,
      SlotInv, LookInv, FlashInv, HttpdClaim, AutoClaim, QueueClaim, ThemeClaim, NetClaim,
      LookLooked, LookHttpd, LookQueued, LookNet, HttpdLooked, AutoLooked
<1> QED BY <1>1, <1>2, <1>3, <1>4, <1>5, <1>6, <1>7, <1>8 DEF Next

LEMMA Invariant == ASSUME ~Meeting PROVE Spec => []IInv
BY InitInv, Inductive, PTL DEF Spec

\* Claims are what UpdatesApart counts.
LEMMA OneUnderway == IInv => Cardinality(Underway) <= 1
<1> SUFFICES ASSUME IInv PROVE Cardinality(Underway) <= 1
  OBVIOUS
<1>1. \A a, b \in Underway : a = b
  BY DEF Underway, HeldBy, IInv, Coupled, OneClaim, HttpdClaim, AutoClaim, QueueClaim, ThemeClaim, NetClaim
<1>2. CASE Underway = {}
  BY <1>2, FS_EmptySet
<1>3. ASSUME NEW a \in Underway PROVE Cardinality(Underway) <= 1
  <2>1. \A b \in Underway : b = a
    BY <1>1, <1>3
  <2>2. Underway \in SUBSET {a}
    BY <2>1
  <2>3. IsFiniteSet({a}) /\ Cardinality({a}) = 1
    BY FS_Singleton
  <2>4. Cardinality(Underway) <= Cardinality({a})
    BY <2>2, <2>3, FS_Subset
  <2> QED BY <2>3, <2>4
<1> QED BY <1>2, <1>3

\* Every flag is a Boolean, s_np_job and s_tm hold a job or none, and the httpd
\* task stands at a step of the request it serves.
THEOREM TypeCorrect == ASSUME ~Meeting PROVE Spec => []TypeOk
<1>1. IInv => TypeOk
  BY DEF IInv, Coupled, PlaceInv, TypeOk, FlagsOk, PcsOk
<1> QED BY <1>1, Invariant, PTL

\* s_ota_active lets one update through at a time, whichever of the handlers, the
\* scheduled checks and the task after the restart start them, as long as no two
\* stand between the look and the assignment together; and flash is written behind
\* the wait screen with the other tasks suspended.
THEOREM UpdatesKeptApart == ASSUME ~Meeting PROVE Spec => []UpdatesApart
<1>1. IInv => UpdatesApart
  BY OneUnderway DEF IInv, Coupled, FlashInv, UpdatesApart
<1> QED BY <1>1, Invariant, PTL
=============================================================================
