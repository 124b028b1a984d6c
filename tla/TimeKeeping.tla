----------------------------- MODULE TimeKeeping -----------------------------
(***************************************************************************)
(* How the system clock is kept (ntp_time.c, rtc_pcf8563.c): SNTP sets it, *)
(* the battery-backed clock chip holds it between answers and seeds it at  *)
(* boot, and three tasks reach the same settings: the "ntp" task, the SNTP *)
(* callback, and the web server saving another zone or server list.        *)
(*                                                                         *)
(* Clocks are offsets from the true time.  The chip counts LOCAL time, so  *)
(* what it says in UTC depends on the zone it is read in.  A definition    *)
(* named Slip... is a plausible wrong version of the one that follows it.  *)
(***************************************************************************)
EXTENDS Integers

CONSTANTS
  Zones,       \* offsets of the zones the settings choose from
  Summer,      \* what the zone's rule adds in summer
  Chips,       \* states of the clock chip: "ok", "low" after its battery died, "none" fitted
  Slew,        \* the largest correction of one minute (2 s)
  Drift,       \* how far the crystal strays between two answers, at most
  Far,         \* bound on the offset of the system clock
  Events       \* bound on the settings saves, changes of season and restarts

VARIABLES
  saved,    \* the settings: zone, servers and time_discipline_mode
  clock,    \* the system clock: its offset, what adjtime has left to add, the zone of tzset
  season,   \* what the season adds to the zone now
  chip,     \* the clock chip: whether it answers, and its offset in local time
  stray,    \* what the crystal has strayed since the last answer
  flags,    \* s_time_valid, s_synced, s_discipline_mode_cached, and the learned drift rate
  staged,   \* s_rtc_write_pending and s_rtc_write_tm
  sntp,     \* lwIP's client: running, the buffer its names point to, static servers, the mutex
  ntp,      \* the "ntp" task: where it is, its copy of the servers, the error it measured
  web,      \* where the settings handler is
  crashed,  \* lwIP's assertion failed
  agreed,   \* history: the chip has been given the answer's time since zone, season or
            \* mode changed last
  events    \* settings saves, changes of season and restarts so far

timeVars == <<saved, clock, season, chip, stray, flags, staged, sntp, ntp, web, crashed, agreed, events>>

Settings == [zone : Zones, servers : {"a", "b"}, mode : 0..2]
Size(x) == IF x < 0 THEN -x ELSE x
Within(x, n) == IF x > n THEN n ELSE IF x < -n THEN -n ELSE x
Offsets(n) == -n..n

\* mktime and localtime_r, in the zone the C library has been given.
LocalShift == clock.zone + season
FromChip(local) == local - LocalShift

-----------------------------------------------------------------------------
\* The first reading of the chip, in app_main or when the task starts.
Seeded(zone) ==
  IF chip.state = "ok" THEN [offset |-> Within(chip.local - zone - season, Far), slew |-> 0, zone |-> zone]
  ELSE [clock EXCEPT !.offset = Far, !.slew = 0, !.zone = zone]

AtBoot == [valid |-> chip.state = "ok", synced |-> FALSE, mode |-> 2, rate |-> 0]
NoJob == [pc |-> "start", servers |-> "a", err |-> 0]
IdleSntp == [running |-> FALSE, names |-> "task", buffer |-> "a", mutex |-> "free"]

Init ==
  /\ saved \in {[zone |-> z, servers |-> "a", mode |-> 2] : z \in Zones}
  /\ season = 0
  /\ chip \in [state : Chips, local : {saved.zone}]
  /\ clock = [offset |-> IF chip.state = "ok" THEN 0 ELSE Far, slew |-> 0, zone |-> saved.zone]
  /\ flags = AtBoot /\ stray = 0 /\ staged = [on |-> FALSE, local |-> 0]
  /\ sntp = IdleSntp /\ ntp = NoJob /\ web = "idle" /\ crashed = FALSE /\ agreed = FALSE /\ events = 0

Reboot ==
  /\ events < Events /\ events' = events + 1
  /\ clock' = Seeded(saved.zone) /\ flags' = AtBoot /\ stray' = 0
  /\ staged' = [staged EXCEPT !.on = FALSE] /\ sntp' = IdleSntp /\ ntp' = NoJob /\ web' = "idle" /\ agreed' = FALSE
  /\ UNCHANGED <<saved, season, chip, crashed>>

\* A minute: the crystal strays, adjtime adds its correction, and the task's wait is over.
Minute ==
  /\ ntp.pc \in {"idle", "delay"}
  /\ \E d \in Offsets(1) :
       /\ Size(stray + d) <= Drift /\ stray' = stray + d
       /\ clock' = [clock EXCEPT !.offset = Within(clock.offset + d + clock.slew, Far), !.slew = 0]
  /\ ntp' = [ntp EXCEPT !.pc = IF @ = "idle" THEN "tick" ELSE "stop"]
  /\ UNCHANGED <<saved, season, chip, flags, staged, sntp, web, crashed, agreed, events>>

\* The rule of the zone moves local time; the chip does not know.
SeasonTurns ==
  /\ events < Events /\ events' = events + 1 /\ season' = Summer - season
  /\ agreed' = FALSE
  /\ UNCHANGED <<saved, clock, chip, stray, flags, staged, sntp, ntp, web, crashed>>

-----------------------------------------------------------------------------
\* The task starts: the zone again, a copy of the server list, another try at the chip.
NtpStart ==
  /\ ntp.pc = "start" /\ ntp' = [ntp EXCEPT !.pc = "delay", !.servers = saved.servers]
  /\ clock' = IF flags.valid THEN [clock EXCEPT !.zone = saved.zone] ELSE Seeded(saved.zone)
  /\ flags' = [flags EXCEPT !.valid = @ \/ chip.state = "ok"]
  /\ UNCHANGED <<saved, season, chip, stray, staged, sntp, web, crashed, agreed, events>>

Names == IF sntp.names = "task" THEN ntp.servers ELSE sntp.buffer

\* Each reconfiguration stops the client and starts it again, under one mutex.
SlipMayStop(who) == TRUE
MayStop(who) == sntp.mutex = "free"
Stopped(who) == [sntp EXCEPT !.running = FALSE, !.mutex = who]
Started(names) == [sntp EXCEPT !.running = TRUE, !.names = names, !.mutex = "free"]

NtpStop ==
  /\ ntp.pc \in {"stop", "daily"} /\ MayStop("ntp")
  /\ sntp' = Stopped("ntp") /\ ntp' = [ntp EXCEPT !.pc = IF @ = "stop" THEN "init" ELSE "again"]
  /\ UNCHANGED <<saved, clock, season, chip, stray, flags, staged, web, crashed, agreed, events>>

\* The first start also sets the operating mode, which lwIP forbids while it runs.
NtpInit ==
  /\ ntp.pc \in {"init", "again"} /\ ntp' = [ntp EXCEPT !.pc = "idle"]
  /\ crashed' = (crashed \/ (ntp.pc = "init" /\ sntp.running))
  /\ sntp' = Started(IF ntp.pc = "init" THEN "task" ELSE "static")
  /\ UNCHANGED <<saved, clock, season, chip, stray, flags, staged, web, agreed, events>>

\* The write the callback left, when the task wakes for it or for its minute.
Written == chip.state # "none"
WriteChip ==
  /\ ntp.pc \in {"idle", "tick"} /\ staged.on /\ staged' = [staged EXCEPT !.on = FALSE]
  /\ chip' = IF Written THEN [state |-> "ok", local |-> staged.local] ELSE chip
  /\ agreed' = (chip.state # "none" /\ web \notin {"zone", "both"} /\ staged.local = LocalShift)
  /\ UNCHANGED <<saved, clock, season, stray, flags, sntp, ntp, web, crashed, events>>

\* discipline_tick: nothing, the learned rate, or the error against the chip's next tick.
Discipline ==
  /\ ntp.pc = "tick" /\ ~staged.on
  /\ flags' = IF flags.valid THEN [flags EXCEPT !.mode = saved.mode] ELSE flags
  /\ LET nudge == flags.valid /\ saved.mode = 1 /\ flags.rate # 0
         edge == flags.valid /\ saved.mode = 2 /\ chip.state = "ok"
     IN /\ clock' = IF nudge THEN [clock EXCEPT !.slew = flags.rate] ELSE clock
        /\ \/ edge /\ ntp' = [ntp EXCEPT !.pc = "adjust", !.err = clock.offset - FromChip(chip.local)]
           \/ ntp' = [ntp EXCEPT !.pc = "day"]     \* or the chip did not answer
  /\ UNCHANGED <<saved, season, chip, stray, staged, sntp, web, crashed, agreed, events>>

Pull(err) == Within(-err, Slew)
Adjust ==
  /\ ntp.pc = "adjust" /\ ntp' = [ntp EXCEPT !.pc = "day", !.err = 0]
  /\ clock' = [clock EXCEPT !.slew = Pull(ntp.err)]
  /\ UNCHANGED <<saved, season, chip, stray, flags, staged, sntp, web, crashed, agreed, events>>

\* Once a day the task applies the server list again.
Copied == [sntp EXCEPT !.buffer = saved.servers]
Daily ==
  /\ ntp.pc = "day" /\ ntp' = [ntp EXCEPT !.pc = "daily"] /\ sntp' = Copied
  /\ UNCHANGED <<saved, clock, season, chip, stray, flags, staged, web, crashed, agreed, events>>
SameDay ==
  /\ ntp.pc = "day" /\ ntp' = [ntp EXCEPT !.pc = "idle"]
  /\ UNCHANGED <<saved, clock, season, chip, stray, flags, staged, sntp, web, crashed, agreed, events>>

-----------------------------------------------------------------------------
\* time_sync_cb: lwIP has set the clock.  With discipline off a small error is undone and
\* slewed instead; the crystal's rate is learned, and the chip's next time is left for
\* the task to write.
Answer ==
  /\ sntp.running
  /\ clock' = IF flags.synced /\ flags.mode = 0 THEN [clock EXCEPT !.offset = stray, !.slew = -stray]
              ELSE [clock EXCEPT !.offset = 0, !.slew = 0]
  /\ \E rate \in {flags.rate, Within(-stray, 1)} :
       flags' = [flags EXCEPT !.valid = TRUE, !.synced = TRUE, !.rate = IF flags.synced THEN rate ELSE flags.rate]
  /\ stray' = 0 /\ staged' = [on |-> TRUE, local |-> LocalShift]
  /\ UNCHANGED <<saved, season, chip, sntp, ntp, web, crashed, agreed, events>>

\* A settings save, and the appliers it calls when the zone or the servers changed.
Save ==
  /\ web = "idle" /\ events < Events /\ events' = events + 1
  /\ saved' \in Settings /\ saved' # saved /\ agreed' = FALSE
  /\ LET servers == IF saved'.servers # saved.servers THEN "servers" ELSE "idle"
     IN web' = IF saved'.zone = saved.zone THEN servers ELSE IF servers = "idle" THEN "zone" ELSE "both"
  /\ UNCHANGED <<clock, season, chip, stray, flags, staged, sntp, ntp, crashed>>

WebZone ==
  /\ web \in {"zone", "both"} /\ clock' = [clock EXCEPT !.zone = saved.zone]
  /\ web' = IF web = "both" THEN "servers" ELSE "idle"
  /\ UNCHANGED <<saved, season, chip, stray, flags, staged, sntp, ntp, crashed, agreed, events>>

WebServers ==
  /\ \/ web = "servers" /\ web' = "stop" /\ sntp' = Copied
     \/ web = "stop" /\ MayStop("web") /\ web' = "init" /\ sntp' = Stopped("web")
     \/ web = "init" /\ web' = "idle" /\ sntp' = Started("static")
  /\ UNCHANGED <<saved, clock, season, chip, stray, flags, staged, ntp, crashed, agreed, events>>

NtpTask == NtpStart \/ NtpStop \/ NtpInit \/ WriteChip \/ Discipline \/ Adjust \/ Daily \/ SameDay
Web == Save \/ WebZone \/ WebServers
Next == Reboot \/ Minute \/ SeasonTurns \/ NtpTask \/ Answer \/ Web

Spec == Init /\ [][Next]_timeVars
-----------------------------------------------------------------------------
TypeOk ==
  /\ saved \in Settings /\ clock.offset \in Offsets(Far) /\ stray \in Offsets(Drift)
  /\ sntp.mutex \in {"free", "ntp", "web"} /\ flags.mode \in 0..2

\* ntp_time.c:63-69: whoever saves settings while the task starts SNTP, the operating mode
\* is never set on a running client, the assertion that once crashed the boot.
NeverAsserts == ~crashed

\* README.md:888: in the default mode the clock keeps near the true time between
\* answers, through restarts and changes of zone, servers or mode, as soon as one answer
\* has reached the chip; and the servers a save put in force are the ones saved last.
TimeKept ==
  /\ agreed /\ saved.mode = 2 => Size(clock.offset) <= Slew + Drift
  /\ sntp.names = "static" /\ web = "idle" => sntp.buffer = saved.servers

\* The same without the wait for an answer, which the code does not keep when the rule
\* of the zone, or its owner, moves local time: the chip still counts the old one.
KeptBetweenSyncs == saved.mode = 2 /\ flags.synced => Size(clock.offset) <= Slew + Drift
=============================================================================
