------------------------------- MODULE Feeds -------------------------------
(***************************************************************************)
(* The shared poll task and what it polls: periodic_net_poll.c, with the   *)
(* ticks of weather.c, subscribers.c and update_check.c.  One task waits   *)
(* for the earliest deadline, ticks the entries that are due, and gives    *)
(* each the deadline it asks for.  Meanwhile the web page changes the      *)
(* settings, pushes weather of its own and forces a poll.                  *)
(*                                                                         *)
(* A value fetched from a provider is represented by what it is about: the *)
(* weather by the city it was asked for, a count by its account.           *)
(***************************************************************************)
EXTENDS Naturals, FiniteSets, FiniteSetsExt

CONSTANTS
  Cities,        \* cities a user may enter
  Sources,       \* weather sources a user may select
  Platforms,     \* platforms polled: subset of {"video", "instagram", "tiktok", "mastodon"}
  RetryMax,      \* cap of the doubling delay between failed weather polls
  WeatherEvery,  \* intervals, in the unit of RetryMax
  SocialEvery,
  CheckEvery,
  ChangeMax      \* bound: changes of the settings, pushes and forces

\* The delays are positive (weather.c, subscribers.c and update_check.c), and "no
\* city" and "a pushed value" are no cities a user can enter.
ASSUME FeedsAssumption ==
  /\ RetryMax \in Nat \ {0} /\ WeatherEvery \in Nat \ {0} /\ SocialEvery \in Nat \ {0}
  /\ CheckEvery \in Nat \ {0} /\ ChangeMax \in Nat
  /\ Platforms \subseteq {"video", "instagram", "tiktok", "mastodon"}
  /\ Sources # {} /\ {"none", "pushed"} \cap (Cities \union Sources) = {}

Entries == {"weather", "subscribers", "update_check"}
Entry(i) == <<"weather", "update_check", "subscribers">>[i]
None == "none"
Pushed == "pushed"
Geocoders == {"openmeteo", "metno"}
Sites == {"youtube", "bilibili"}

VARIABLES
  link,      \* wifi_manager_is_connected()
  due,       \* time left to next_due_us of each entry
  task,      \* the poll task: [pc, i, src, city, rest]
  conf,      \* settings: [source, city, weather, social, site, path]
  wx,        \* s_weather: [valid, temp, range, air]
  loc,       \* place of s_wx_lat, s_wx_lon, or None
  geo,       \* city each geocoding provider remembers
  retry,     \* s_wx_retry_ms
  counts,    \* what each platform's count is about
  release,   \* update_check: [latest, indicator]
  clean,     \* history: nothing has failed or interfered in this weather poll
  wanted,    \* history: entries forced and not ticked since
  changes

vars == <<link, due, task, conf, wx, loc, geo, retry, counts, release, clean, wanted, changes>>

Steps == {"boot", "settle", "wait", "dispatch",
          "snapshot", "place", "current", "range", "air",
          "social", "check", "indicate"}
DueMax == Max({RetryMax, WeatherEvery, SocialEvery, CheckEvery})
Place == Cities \union {None, Pushed}

TypeOk ==
  /\ link \in BOOLEAN
  /\ due \in [Entries -> 0..DueMax]
  /\ task \in [pc : Steps, i : 1..4, src : Sources \union {None}, city : Cities \union {None},
               rest : SUBSET Platforms]
  /\ conf \in [source : Sources, city : Cities \union {None}, weather : BOOLEAN,
               social : BOOLEAN, site : Sites, path : {"api", "relay", "missing"}]
  /\ wx \in [valid : BOOLEAN, temp : Place, range : Place, air : Place]
  /\ loc \in Place
  /\ geo \in [Geocoders -> Cities \union {None}]
  /\ retry \in 1..RetryMax
  /\ counts \in [Platforms -> Sites \union Platforms \union {None}]
  /\ release \in [latest : {None, "older", "newer"}, indicator : BOOLEAN]
  /\ clean \in BOOLEAN
  /\ wanted \subseteq Entries
  /\ changes \in 0..ChangeMax

Init ==
  /\ link = FALSE
  /\ due = [e \in Entries |-> 0]
  /\ task = [pc |-> "boot", i |-> 1, src |-> None, city |-> None, rest |-> {}]
  /\ conf = [source |-> CHOOSE s \in Sources : TRUE, city |-> None,
             weather |-> TRUE, social |-> TRUE, site |-> "youtube", path |-> "api"]
  /\ wx = [valid |-> FALSE, temp |-> None, range |-> None, air |-> None]
  /\ loc = None
  /\ geo = [g \in Geocoders |-> None]
  /\ retry = 1
  /\ counts = [p \in Platforms |-> None]
  /\ release = [latest |-> None, indicator |-> FALSE]
  /\ clean = FALSE /\ wanted = {} /\ changes = 0

-----------------------------------------------------------------------------
(* The scheduler *)

feeds == <<wx, loc, geo, retry, counts, release>>

LinkChanges ==
  /\ link' = ~link
  /\ UNCHANGED <<due, task, conf, feeds, clean, wanted, changes>>

GateOpens ==
  /\ task.pc = "boot" /\ link
  /\ task' = [task EXCEPT !.pc = "settle"]
  /\ UNCHANGED <<link, due, conf, feeds, clean, wanted, changes>>

\* The deadlines of what was registered before are counted from here.
FirstDelay(e) == IF e = "subscribers" THEN 1 ELSE 0
Schedule ==
  /\ task.pc = "settle"
  /\ due' = [e \in Entries |-> IF due[e] = 0 THEN FirstDelay(e) ELSE due[e]]
  /\ task' = [task EXCEPT !.pc = "wait"]
  /\ UNCHANGED <<link, conf, feeds, clean, wanted, changes>>

\* The wait: until the earliest deadline, a minute, or the next look at the link.
TimePasses ==
  /\ task.pc = "wait"
  /\ ~link \/ \A e \in Entries : due[e] > 0
  /\ due' = [e \in Entries |-> IF due[e] = 0 THEN 0 ELSE due[e] - 1]
  /\ UNCHANGED <<link, task, conf, feeds, clean, wanted, changes>>

\* Down, the task looks at the link again later and touches no deadline.
Wake ==
  /\ task.pc = "wait" /\ link /\ \E e \in Entries : due[e] = 0
  /\ task' = [task EXCEPT !.pc = "dispatch", !.i = 1]
  /\ UNCHANGED <<link, due, conf, feeds, clean, wanted, changes>>

DispatchEnds ==
  /\ task.pc = "dispatch" /\ task.i = 4
  /\ task' = [task EXCEPT !.pc = "wait", !.i = 1]
  /\ UNCHANGED <<link, due, conf, feeds, clean, wanted, changes>>

Current == Entry(task.i)
\* `Ready` with its comparison turned round.
SlipReady(e) == due[e] > 0
Ready(e) == due[e] = 0

Skip ==
  /\ task.pc = "dispatch" /\ task.i < 4
  /\ ~Ready(Current)
  /\ task' = [task EXCEPT !.i = @ + 1]
  /\ UNCHANGED <<link, due, conf, feeds, clean, wanted, changes>>

\* An entry is ticked; `next` is its first step.
Ticked(e, next) ==
  /\ task.pc = "dispatch" /\ task.i < 4 /\ Current = e /\ Ready(e)
  /\ task' = next
  /\ wanted' = wanted \ {e}

\* tick_fn has returned: the deadline it asks for replaces whatever is there.
\* `NextDue` that counts every deadline again.
SlipNextDue(ms) == [e \in Entries |-> IF e = Current THEN ms ELSE Max({due[e], 1})]
NextDue(ms) == [due EXCEPT ![Current] = ms]
Returns(ms) ==
  /\ task' = [task EXCEPT !.pc = "dispatch", !.i = task.i + 1, !.src = None, !.city = None]
  /\ due' = NextDue(ms)

\* periodic_net_poll_force
PollForce(e) ==
  /\ changes < ChangeMax /\ changes' = changes + 1
  /\ due' = [due EXCEPT ![e] = 0]
  /\ wanted' = IF \/ task.pc \in {"wait", "dispatch"}
                  \/ task.pc \notin {"boot", "settle"} /\ Current # e
               THEN wanted \union {e} ELSE wanted
  /\ UNCHANGED <<link, task, conf, feeds, clean>>

-----------------------------------------------------------------------------
(* weather_poll_tick and fetch_weather *)

WeatherStarts ==
  /\ Ticked("weather", [task EXCEPT !.pc = "snapshot"])
  /\ conf.weather /\ conf.source # "external"
  /\ clean' = TRUE
  /\ UNCHANGED <<link, due, conf, feeds, changes>>

WeatherOff ==
  /\ task.pc = "dispatch" /\ task.i < 4 /\ Current = "weather" /\ Ready("weather")
  /\ ~conf.weather \/ conf.source = "external"
  /\ Returns(WeatherEvery)
  /\ wanted' = wanted \ {"weather"}
  /\ UNCHANGED <<link, conf, feeds, clean, changes>>

\* The settings are read again: what is not another provider means wttr.in.
Snapshot ==
  /\ task.pc = "snapshot"
  /\ task' = [task EXCEPT !.pc = "place", !.src = conf.source, !.city = conf.city]
  /\ UNCHANGED <<link, due, conf, feeds, clean, wanted, changes>>

\* geocode_open_meteo, only for a city the provider has not just asked about.
Place_(ok) ==
  /\ task.pc = "place"
  /\ IF task.src \notin Geocoders \/ task.city \in {None, geo[task.src]}
     THEN task' = [task EXCEPT !.pc = "current"] /\ UNCHANGED <<geo, loc, clean>>
     ELSE IF ok
     THEN /\ geo' = [geo EXCEPT ![task.src] = task.city]
          /\ loc' = task.city
          /\ task' = [task EXCEPT !.pc = "current"] /\ UNCHANGED clean
     ELSE /\ task' = [task EXCEPT !.pc = "range"]
          /\ clean' = FALSE /\ UNCHANGED <<geo, loc>>
  /\ UNCHANGED <<link, due, conf, wx, retry, counts, release, wanted, changes>>

\* What an answer changes.  "bare": valid JSON without the fields looked for.
\* `FetchWttr` without its coordinates, as the two geocoding providers are.
SlipFetchWttr(body) ==
  /\ wx' = CASE body = "none" -> wx
             [] body = "bare" -> [wx EXCEPT !.valid = TRUE]
             [] body = "full" -> [wx EXCEPT !.valid = TRUE, !.temp = task.city]
  /\ UNCHANGED loc
FetchWttr(body) ==
  CASE body = "none" -> UNCHANGED <<wx, loc>>
    [] body = "bare" -> wx' = [wx EXCEPT !.valid = TRUE] /\ UNCHANGED loc
    [] body = "full" -> wx' = [wx EXCEPT !.valid = TRUE, !.temp = task.city] /\ loc' = task.city
FetchOpenWeather(body) == FetchWttr(body)
FetchOpenMeteo(body) ==
  /\ wx' = IF body = "full" THEN [wx EXCEPT !.valid = TRUE, !.temp = task.city] ELSE wx
  /\ UNCHANGED loc
FetchMetNo(body) == FetchOpenMeteo(body)

FetchCurrent(body) ==
  /\ task.pc = "current"
  /\ CASE task.city = None -> UNCHANGED <<wx, loc>>
       [] task.city # None /\ task.src = "openmeteo" -> FetchOpenMeteo(body)
       [] task.city # None /\ task.src = "metno" -> FetchMetNo(body)
       [] task.city # None /\ task.src = "openweather" -> FetchOpenWeather(body)
       [] task.city # None /\ task.src \notin Geocoders \union {"openweather"} -> FetchWttr(body)
  /\ clean' = (clean /\ body = "full" /\ task.city # None)
  /\ task' = [task EXCEPT !.pc = "range"]
  /\ UNCHANGED <<link, due, conf, geo, retry, counts, release, wanted, changes>>

\* fetch_daily_range and fetch_air_quality ask about weather_get_location().
FetchRange(ok) ==
  /\ task.pc = "range"
  /\ wx' = IF ok /\ loc # None THEN [wx EXCEPT !.range = loc] ELSE wx
  /\ clean' = (clean /\ ok)
  /\ task' = [task EXCEPT !.pc = "air"]
  /\ UNCHANGED <<link, due, conf, loc, geo, retry, counts, release, wanted, changes>>

Doubled(n) == IF n * 2 < RetryMax THEN n * 2 ELSE RetryMax
FetchAir(ok) ==
  /\ task.pc = "air"
  /\ wx' = IF ok /\ loc # None THEN [wx EXCEPT !.air = loc] ELSE wx
  /\ clean' = (clean /\ ok)
  /\ IF wx.valid
     THEN Returns(WeatherEvery) /\ retry' = 1
     ELSE Returns(retry) /\ retry' = IF retry < RetryMax THEN Doubled(retry) ELSE retry
  /\ UNCHANGED <<link, conf, loc, geo, counts, release, wanted, changes>>

\* POST /api/weather: weather_set_external, weather_set_external_location
Push(located) ==
  /\ changes < ChangeMax /\ changes' = changes + 1
  /\ wx' = [wx EXCEPT !.valid = TRUE, !.temp = Pushed]
  /\ loc' = IF located THEN Pushed ELSE loc
  /\ clean' = FALSE
  /\ UNCHANGED <<link, due, task, conf, geo, retry, counts, release, wanted>>

-----------------------------------------------------------------------------
(* subscribers_poll_tick *)

SocialStarts ==
  /\ Ticked("subscribers", [task EXCEPT !.pc = "social", !.rest = Platforms])
  /\ conf.social
  /\ UNCHANGED <<link, due, conf, feeds, clean, changes>>

SocialOff ==
  /\ task.pc = "dispatch" /\ task.i < 4 /\ Current = "subscribers" /\ Ready("subscribers")
  /\ ~conf.social
  /\ Returns(SocialEvery)
  /\ wanted' = wanted \ {"subscribers"}
  /\ UNCHANGED <<link, conf, feeds, clean, changes>>

\* fetch_youtube and fetch_bilibili share one count; a platform with neither a
\* key nor a relay is skipped, and a failed request keeps what is there.
Counted(p) == IF p = "video" THEN conf.site ELSE p
Youtube(ok) == ok /\ conf.path # "missing"
Bilibili(ok) == ok
Instagram(ok) == ok /\ conf.path # "missing"
Tiktok(ok) == ok /\ conf.path # "missing"
Mastodon(ok) == ok
Answers(p, ok) ==
  CASE Counted(p) = "youtube"   -> Youtube(ok)
    [] Counted(p) = "bilibili"  -> Bilibili(ok)
    [] Counted(p) = "instagram" -> Instagram(ok)
    [] Counted(p) = "tiktok"    -> Tiktok(ok)
    [] Counted(p) = "mastodon"  -> Mastodon(ok)
FetchCount(p, ok) ==
  /\ task.pc = "social" /\ p \in task.rest
  /\ task' = [task EXCEPT !.rest = @ \ {p}]
  /\ counts' = IF Answers(p, ok) THEN [counts EXCEPT ![p] = Counted(p)] ELSE counts
  /\ UNCHANGED <<link, due, conf, wx, loc, geo, retry, release, clean, wanted, changes>>

SocialEnds ==
  /\ task.pc = "social" /\ task.rest = {}
  /\ Returns(SocialEvery)
  /\ UNCHANGED <<link, conf, feeds, clean, wanted, changes>>

-----------------------------------------------------------------------------
(* update_check_poll_tick: the status and the mark on the display *)

CheckStarts ==
  /\ Ticked("update_check", [task EXCEPT !.pc = "check"])
  /\ UNCHANGED <<link, due, conf, feeds, clean, changes>>

\* No answer, or one without a tag, changes nothing.
Check(tag) ==
  /\ task.pc = "check"
  /\ IF tag = None
     THEN Returns(CheckEvery) /\ UNCHANGED release
     ELSE /\ release' = [release EXCEPT !.latest = tag]
          /\ task' = [task EXCEPT !.pc = "indicate"] /\ UNCHANGED due
  /\ UNCHANGED <<link, conf, wx, loc, geo, retry, counts, clean, wanted, changes>>

Indicate ==
  /\ task.pc = "indicate"
  /\ release' = [release EXCEPT !.indicator = release.latest = "newer"]
  /\ Returns(CheckEvery)
  /\ UNCHANGED <<link, conf, wx, loc, geo, retry, counts, clean, wanted, changes>>

-----------------------------------------------------------------------------
\* Each group of the settings page.
Configure ==
  /\ changes < ChangeMax /\ changes' = changes + 1
  /\ \/ \E s \in Sources, c \in Cities : conf' = [conf EXCEPT !.source = s, !.city = c]
     \/ conf' = [conf EXCEPT !.weather = ~@]
     \/ conf' = [conf EXCEPT !.social = ~@]
     \/ \E s \in Sites, p \in {"api", "relay", "missing"} :
          conf' = [conf EXCEPT !.site = s, !.path = p]
  /\ UNCHANGED <<link, due, task, feeds, clean, wanted>>

Bodies == {"none", "bare", "full"}
Poll ==
  \/ GateOpens \/ Schedule \/ TimePasses \/ Wake \/ DispatchEnds \/ Skip
  \/ WeatherStarts \/ WeatherOff \/ Snapshot
  \/ \E ok \in BOOLEAN : Place_(ok) \/ FetchRange(ok) \/ FetchAir(ok)
  \/ \E b \in Bodies : FetchCurrent(b)
  \/ SocialStarts \/ SocialOff \/ SocialEnds
  \/ \E p \in Platforms, ok \in BOOLEAN : FetchCount(p, ok)
  \/ CheckStarts \/ Indicate
  \/ \E t \in {None, "older", "newer"} : Check(t)

Next ==
  \/ Poll \/ LinkChanges \/ Configure
  \/ PollForce("subscribers")
  \/ \E l \in BOOLEAN : Push(l)

\* The poll task keeps running; every request it makes has a time-out.
Fairness == WF_vars(Poll)
Spec == Init /\ [][Next]_vars /\ Fairness

-----------------------------------------------------------------------------
\* periodic_net_poll_force is not lost to a deadline that another entry's tick
\* computes at the same time: until it is ticked, a forced entry is due.
ForcedSoon == \A e \in wanted : due[e] = 0

Ticking(e) == CASE e = "weather" -> task.pc = "snapshot"
                [] e = "subscribers" -> task.pc = "social"
                [] e = "update_check" -> task.pc = "check"

\* While the link is up and polling is on, every entry is ticked again and again,
\* whatever fails, however long the waits have grown and whatever is forced.
KeepsPolling ==
  (<>[](link /\ conf.weather /\ conf.social /\ conf.source # "external"))
    => \A e \in Entries : []<>Ticking(e)

\* After a poll in which every request was answered and nothing interfered, the
\* high and low of the day are those of the place the temperature is about, with
\* the providers that return coordinates (the others: weather_get_location).
RangeFollowsPlace ==
  [][task.pc = "air" /\ task'.pc # "air" /\ clean' /\ task.src \notin Geocoders
       => wx'.temp = wx'.range]_vars
=============================================================================
