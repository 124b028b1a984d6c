---------------------------- MODULE Feeds_proofs ----------------------------
(***************************************************************************)
(* Proofs about Feeds, for any cities, sources, platforms and delays.      *)
(*                                                                         *)
(* A forced entry stays due because the only step that moves a deadline    *)
(* away is the return of a tick, and no entry whose own tick is under way  *)
(* counts as forced: ForcedInv.  What the weather shows follows the        *)
(* request through its four steps: PollInv says what each has left behind  *)
(* in a poll that nothing disturbed.                                       *)
(***************************************************************************)
EXTENDS Feeds, TLAPS

Idle == {"boot", "settle"}
Ticks == Steps \ {"boot", "settle", "wait", "dispatch"}

\* The tick that is under way is that of an entry.
TickInv ==
  /\ task.pc \in {"snapshot", "place", "current", "range", "air"} => task.i = 1
  /\ task.pc \in {"check", "indicate"} => task.i = 2
  /\ task.pc = "social" => task.i = 3

ForcedInv ==
  /\ task.pc \in Idle => wanted = {}
  /\ \A e \in wanted : due[e] = 0
  /\ task.pc \in Ticks => Current \notin wanted

\* The coordinates are those of the city the temperature was asked for, and after
\* the next request so is the range.
PollInv ==
  clean /\ task.src \notin Geocoders =>
    /\ task.pc = "range" => loc # None /\ wx.temp = loc
    /\ task.pc = "air" => wx.temp = wx.range

IInv == TypeOk /\ TickInv /\ ForcedInv /\ PollInv

-----------------------------------------------------------------------------
LEMMA DueMaxBounds ==
  /\ DueMax \in Nat
  /\ DueMax >= RetryMax /\ DueMax >= WeatherEvery /\ DueMax >= SocialEvery
  /\ DueMax >= CheckEvery /\ DueMax >= 1
<1> DEFINE S == {RetryMax, WeatherEvery, SocialEvery, CheckEvery}
<1>1. \E x \in S : \A y \in S : x >= y
  BY FeedsAssumption
<1>2. DueMax \in S /\ \A y \in S : DueMax >= y
  BY <1>1 DEF DueMax, Max
<1> QED BY <1>2, FeedsAssumption

LEMMA Entries3 ==
  /\ Entry(1) = "weather" /\ Entry(2) = "update_check" /\ Entry(3) = "subscribers"
BY DEF Entry

LEMMA InitInv == Init => IInv
<1> SUFFICES ASSUME Init PROVE IInv
  OBVIOUS
<1>1. conf.source \in Sources
  BY FeedsAssumption DEF Init
<1>2. TypeOk
  <2> USE FeedsAssumption DEF Init, TypeOk
  <2>1. task \in [pc : Steps, i : 1..4, src : Sources \union {None}, city : Cities \union {None},
                 rest : SUBSET Platforms]
    BY DEF Steps
  <2>2. conf \in [source : Sources, city : Cities \union {None}, weather : BOOLEAN,
                 social : BOOLEAN, site : Sites, path : {"api", "relay", "missing"}]
    BY <1>1 DEF Sites
  <2>3. due \in [Entries -> 0..DueMax] /\ changes \in 0..ChangeMax
    BY DueMaxBounds
  <2>4. wx \in [valid : BOOLEAN, temp : Place, range : Place, air : Place] /\ loc \in Place
    BY DEF Place
  <2>5. link \in BOOLEAN /\ clean \in BOOLEAN /\ wanted \subseteq Entries
    OBVIOUS
  <2> QED BY <2>1, <2>2, <2>3, <2>4, <2>5 DEF None, Place
<1>3. TickInv /\ ForcedInv /\ PollInv
  BY DEF Init, TickInv, ForcedInv, PollInv, Idle, Ticks
<1> QED BY <1>2, <1>3 DEF IInv

-----------------------------------------------------------------------------
(* Assignments to the fields of a record keep it one of its kind. *)

Tasks == [pc : Steps, i : 1..4, src : Sources \union {None}, city : Cities \union {None},
          rest : SUBSET Platforms]
Confs == [source : Sources, city : Cities \union {None}, weather : BOOLEAN,
          social : BOOLEAN, site : Sites, path : {"api", "relay", "missing"}]
Values == [valid : BOOLEAN, temp : Place, range : Place, air : Place]

LEMMA TaskFields ==
  ASSUME NEW t \in Tasks, NEW a \in Steps
  PROVE  /\ [t EXCEPT !.pc = a] \in Tasks
         /\ \A n \in 1..4 : [t EXCEPT !.i = n] \in Tasks /\ [t EXCEPT !.pc = a, !.i = n] \in Tasks
         /\ \A S \in SUBSET Platforms : /\ [t EXCEPT !.rest = S] \in Tasks
                                       /\ [t EXCEPT !.pc = a, !.rest = S] \in Tasks
         /\ \A s \in Sources \union {None}, c \in Cities \union {None} :
              /\ [t EXCEPT !.pc = a, !.src = s, !.city = c] \in Tasks
              /\ \A n \in 1..4 : [t EXCEPT !.pc = a, !.i = n, !.src = s, !.city = c] \in Tasks
<1> USE DEF Tasks
<1>1. [t EXCEPT !.pc = a] \in Tasks
  OBVIOUS
<1>2. ASSUME NEW n \in 1..4 PROVE [t EXCEPT !.i = n] \in Tasks /\ [t EXCEPT !.pc = a, !.i = n] \in Tasks
  OBVIOUS
<1>3. ASSUME NEW S \in SUBSET Platforms
      PROVE  [t EXCEPT !.rest = S] \in Tasks /\ [t EXCEPT !.pc = a, !.rest = S] \in Tasks
  OBVIOUS
<1>4. ASSUME NEW s \in Sources \union {None}, NEW c \in Cities \union {None}
      PROVE  [t EXCEPT !.pc = a, !.src = s, !.city = c] \in Tasks
  OBVIOUS
<1>5. ASSUME NEW s \in Sources \union {None}, NEW c \in Cities \union {None}, NEW n \in 1..4
      PROVE  [t EXCEPT !.pc = a, !.i = n, !.src = s, !.city = c] \in Tasks
  OBVIOUS
<1> QED BY <1>1, <1>2, <1>3, <1>4, <1>5

LEMMA ConfFields ==
  ASSUME NEW r \in Confs
  PROVE  /\ \A s \in Sources, c \in Cities : [r EXCEPT !.source = s, !.city = c] \in Confs
         /\ [r EXCEPT !.weather = ~@] \in Confs /\ [r EXCEPT !.social = ~@] \in Confs
         /\ \A s \in Sites, p \in {"api", "relay", "missing"} :
              [r EXCEPT !.site = s, !.path = p] \in Confs
<1>1. ASSUME NEW s \in Sources, NEW c \in Cities PROVE [r EXCEPT !.source = s, !.city = c] \in Confs
  BY DEF Confs
<1>2. [r EXCEPT !.weather = ~@] \in Confs
  BY DEF Confs
<1>3. [r EXCEPT !.social = ~@] \in Confs
  BY DEF Confs
<1>4. ASSUME NEW s \in Sites, NEW p \in {"api", "relay", "missing"}
      PROVE  [r EXCEPT !.site = s, !.path = p] \in Confs
  BY DEF Confs
<1> QED BY <1>1, <1>2, <1>3, <1>4

LEMMA ValueFields ==
  ASSUME NEW w \in Values, NEW p \in Place
  PROVE  /\ [w EXCEPT !.valid = TRUE] \in Values /\ [w EXCEPT !.valid = TRUE, !.temp = p] \in Values
         /\ [w EXCEPT !.range = p] \in Values /\ [w EXCEPT !.air = p] \in Values
<1>1. [w EXCEPT !.valid = TRUE] \in Values
  BY DEF Values
<1>2. [w EXCEPT !.valid = TRUE, !.temp = p] \in Values
  BY DEF Values
<1>3. [w EXCEPT !.range = p] \in Values /\ [w EXCEPT !.air = p] \in Values
  BY DEF Values
<1> QED BY <1>1, <1>2, <1>3

-----------------------------------------------------------------------------
(* Every step keeps every variable in its type. *)

TaskOk == task \in Tasks
ConfOk == conf \in Confs
WxOk == wx \in Values /\ loc \in Place
RestOk ==
  /\ link \in BOOLEAN
  /\ geo \in [Geocoders -> Cities \union {None}]
  /\ retry \in 1..RetryMax
  /\ counts \in [Platforms -> Sites \union Platforms \union {None}]
  /\ release \in [latest : {None, "older", "newer"}, indicator : BOOLEAN]
  /\ clean \in BOOLEAN /\ wanted \subseteq Entries /\ changes \in 0..ChangeMax
DueOk == due \in [Entries -> 0..DueMax]

LEMMA TypeParts == TypeOk <=> TaskOk /\ ConfOk /\ WxOk /\ RestOk /\ DueOk
BY DEF TypeOk, TaskOk, ConfOk, WxOk, RestOk, DueOk, Tasks, Confs, Values

LEMMA ReturnsOk ==
  ASSUME TaskOk, DueOk, TickInv, task.pc \in Ticks \/ (task.pc = "dispatch" /\ task.i < 4),
         NEW ms \in 1..DueMax, Returns(ms)
  PROVE  TaskOk' /\ DueOk' /\ Current \in Entries /\ due' = [due EXCEPT ![Current] = ms]
<1>1. task.i \in 1..3
  BY DEF TaskOk, Tasks, TickInv, Ticks, Steps
<1>2. Current \in Entries
  BY <1>1, Entries3 DEF Current, Entries
<1>3. "dispatch" \in Steps /\ task.i + 1 \in 1..4 /\ None \in Sources \union {None}
      /\ None \in Cities \union {None}
  BY <1>1 DEF Steps
<1>4. TaskOk'
  BY <1>3, TaskFields DEF Returns, TaskOk
<1> QED BY <1>2, <1>4, DueMaxBounds DEF Returns, NextDue, DueOk

\* The steps that end a tick, each with the deadline it asks for.
Ends(ms) == Returns(ms) /\ (task.pc \in Ticks \/ (task.pc = "dispatch" /\ task.i < 4))
Delays == 1..DueMax
LEMMA DelaysOk ==
  /\ WeatherEvery \in Delays /\ SocialEvery \in Delays /\ CheckEvery \in Delays
  /\ \A r \in 1..RetryMax : r \in Delays /\ Doubled(r) \in 1..RetryMax
BY DueMaxBounds, FeedsAssumption DEF Delays, Doubled

LEMMA TickEnds ==
  ASSUME RestOk
  PROVE  /\ WeatherOff \/ SocialOff \/ SocialEnds \/ Indicate => \E ms \in Delays : Ends(ms)
         /\ Check(None) => \E ms \in Delays : Ends(ms)
         /\ \A ok \in BOOLEAN : FetchAir(ok) => \E ms \in Delays : Ends(ms)
<1>1. retry \in Delays
  BY DelaysOk DEF RestOk
<1>2. {"air", "social", "check", "indicate"} \subseteq Ticks
  BY DEF Ticks, Steps
<1>3. ASSUME NEW ok \in BOOLEAN, FetchAir(ok) PROVE \E ms \in Delays : Ends(ms)
  BY <1>1, <1>2, <1>3, DelaysOk DEF FetchAir, Ends
<1>4. WeatherOff \/ SocialOff \/ SocialEnds \/ Indicate \/ Check(None) => \E ms \in Delays : Ends(ms)
  BY <1>2, DelaysOk DEF WeatherOff, SocialOff, SocialEnds, Indicate, Check, Ends
<1> QED BY <1>3, <1>4

LEMMA TaskStep == ASSUME TaskOk, ConfOk, DueOk, RestOk, TickInv, Poll PROVE TaskOk'
<1>0. /\ "settle" \in Steps /\ "wait" \in Steps /\ "dispatch" \in Steps /\ "snapshot" \in Steps
      /\ "place" \in Steps /\ "current" \in Steps /\ "range" \in Steps /\ "air" \in Steps
      /\ "social" \in Steps /\ "check" \in Steps /\ "indicate" \in Steps
      /\ 1 \in 1..4 /\ Platforms \in SUBSET Platforms
  BY DEF Steps
<1>i. task.i \in 1..4
  BY DEF TaskOk, Tasks
<1>j. Skip => task.i + 1 \in 1..4
  BY <1>i DEF Skip
<1> USE TaskFields DEF TaskOk
<1>1. CASE GateOpens
  BY <1>0, <1>1 DEF GateOpens
<1>2. CASE Schedule \/ TimePasses
  BY <1>0, <1>2 DEF Schedule, TimePasses
<1>3. CASE Wake
  BY <1>0, <1>3 DEF Wake
<1>4. CASE DispatchEnds
  BY <1>0, <1>4 DEF DispatchEnds
<1>5. CASE Skip
  BY <1>0, <1>5, <1>j DEF Skip
<1>6. CASE WeatherStarts \/ CheckStarts
  BY <1>0, <1>6 DEF WeatherStarts, CheckStarts, Ticked
<1>7. CASE SocialStarts
  BY <1>0, <1>7 DEF SocialStarts, Ticked
<1>8. ASSUME NEW ms \in Delays, Ends(ms) PROVE TaskOk'
  BY <1>8, ReturnsOk DEF Ends, Delays
<1>9. CASE Snapshot
  <2>1. conf.source \in Sources \union {None} /\ conf.city \in Cities \union {None}
    BY DEF ConfOk, Confs
  <2> QED BY <1>0, <1>9, <2>1 DEF Snapshot
<1>10. ASSUME NEW ok \in BOOLEAN, Place_(ok) PROVE TaskOk'
  BY <1>0, <1>10 DEF Place_
<1>11. ASSUME NEW ok \in BOOLEAN, FetchRange(ok) PROVE TaskOk'
  BY <1>0, <1>11 DEF FetchRange
<1>12. ASSUME NEW b \in Bodies, FetchCurrent(b) PROVE TaskOk'
  BY <1>0, <1>12 DEF FetchCurrent
<1>13. ASSUME NEW p \in Platforms, NEW ok \in BOOLEAN, FetchCount(p, ok) PROVE TaskOk'
  <2>1. task.rest \ {p} \in SUBSET Platforms
    BY DEF Tasks
  <2> QED BY <1>13, <1>0, <2>1 DEF FetchCount
<1>14. ASSUME NEW t \in {None, "older", "newer"}, t # None, Check(t) PROVE TaskOk'
  BY <1>0, <1>14 DEF Check
<1> QED BY <1>1, <1>2, <1>3, <1>4, <1>5, <1>6, <1>7, <1>8, <1>9, <1>10, <1>11, <1>12, <1>13, <1>14,
           TickEnds DEF Poll

LEMMA DueStep == ASSUME TaskOk, DueOk, RestOk, TickInv, Poll PROVE DueOk'
<1> USE DueMaxBounds DEF DueOk
<1>1. ASSUME NEW ms \in Delays, Ends(ms) PROVE DueOk'
  BY <1>1, ReturnsOk DEF Ends, Delays
<1>2. CASE Schedule
  BY <1>2 DEF Schedule, FirstDelay
<1>3. CASE TimePasses
  BY <1>3 DEF TimePasses
<1>4. CASE GateOpens \/ Wake \/ DispatchEnds \/ Skip \/ WeatherStarts \/ Snapshot \/ SocialStarts \/ CheckStarts
  BY <1>4 DEF GateOpens, Wake, DispatchEnds, Skip, WeatherStarts, Snapshot, SocialStarts, CheckStarts
<1>5. ASSUME NEW ok \in BOOLEAN, Place_(ok) \/ FetchRange(ok) PROVE DueOk'
  BY <1>5 DEF Place_, FetchRange
<1>6. ASSUME NEW b \in Bodies, FetchCurrent(b) PROVE DueOk'
  BY <1>6 DEF FetchCurrent
<1>7. ASSUME NEW p \in Platforms, NEW ok \in BOOLEAN, FetchCount(p, ok) PROVE DueOk'
  BY <1>7 DEF FetchCount
<1>8. ASSUME NEW t \in {None, "older", "newer"}, t # None, Check(t) PROVE DueOk'
  BY <1>8 DEF Check
<1> QED BY <1>1, <1>2, <1>3, <1>4, <1>5, <1>6, <1>7, <1>8, TickEnds DEF Poll

LEMMA Fetchers ==
  ASSUME NEW b, FetchCurrent(b)
  PROVE  UNCHANGED <<wx, loc>> \/ FetchWttr(b) \/ FetchOpenMeteo(b)
<1>1. CASE task.city = None
  BY <1>1 DEF FetchCurrent
<1>2. CASE task.city # None /\ task.src = "openmeteo"
  BY <1>2 DEF FetchCurrent
<1>3. CASE task.city # None /\ task.src = "metno"
  BY <1>3 DEF FetchCurrent, FetchMetNo
<1>4. CASE task.city # None /\ task.src = "openweather"
  BY <1>4 DEF FetchCurrent, FetchOpenWeather
<1>5. CASE task.city # None /\ task.src \notin Geocoders \union {"openweather"}
  BY <1>5 DEF FetchCurrent, Geocoders
<1> QED BY <1>1, <1>2, <1>3, <1>4, <1>5 DEF Geocoders

LEMMA WxStep ==
  ASSUME TypeOk, Poll \/ \E l \in BOOLEAN : Push(l)
  PROVE  WxOk'
<1>1. /\ task.city \in Cities \union {None} /\ task.src \in Sources \union {None}
      /\ wx \in Values /\ loc \in Place
  BY DEF TypeOk, Values
<1>2. Pushed \in Place /\ task.city \in Place
  BY <1>1 DEF Place
<1> USE <1>1, <1>2, ValueFields DEF WxOk
<1>3. CASE GateOpens \/ Schedule \/ TimePasses \/ Wake \/ DispatchEnds \/ Skip \/ Snapshot
  BY <1>3 DEF GateOpens, Schedule, TimePasses, Wake, DispatchEnds, Skip, Snapshot, feeds
<1>4. CASE WeatherStarts \/ WeatherOff \/ SocialStarts \/ SocialOff \/ SocialEnds \/ CheckStarts \/ Indicate
  BY <1>4 DEF WeatherStarts, WeatherOff, SocialStarts, SocialOff, SocialEnds, CheckStarts, Indicate, feeds
<1>5. ASSUME NEW ok \in BOOLEAN, Place_(ok) PROVE WxOk'
  BY <1>5 DEF Place_
<1>6. ASSUME NEW b \in Bodies, FetchCurrent(b) PROVE WxOk'
  <2>1. FetchWttr(b) => WxOk'
    BY DEF FetchWttr, Bodies
  <2>2. FetchOpenMeteo(b) => WxOk'
    BY DEF FetchOpenMeteo, Bodies
  <2> QED BY <1>6, <2>1, <2>2, Fetchers
<1>7. ASSUME NEW ok \in BOOLEAN, FetchRange(ok) \/ FetchAir(ok) PROVE WxOk'
  BY <1>7 DEF FetchRange, FetchAir
<1>8. ASSUME NEW p \in Platforms, NEW ok \in BOOLEAN, FetchCount(p, ok) PROVE WxOk'
  BY <1>8 DEF FetchCount
<1>9. ASSUME NEW t \in {None, "older", "newer"}, Check(t) PROVE WxOk'
  BY <1>9 DEF Check
<1>10. ASSUME NEW l \in BOOLEAN, Push(l) PROVE WxOk'
  BY <1>10 DEF Push
<1> QED BY <1>3, <1>4, <1>5, <1>6, <1>7, <1>8, <1>9, <1>10 DEF Poll

LEMMA RestStep ==
  ASSUME TypeOk, Poll
  PROVE  RestOk'
<1> USE FeedsAssumption DEF RestOk, TypeOk
<1>1. CASE GateOpens \/ Schedule \/ TimePasses \/ Wake \/ DispatchEnds \/ Skip \/ Snapshot
  BY <1>1 DEF GateOpens, Schedule, TimePasses, Wake, DispatchEnds, Skip, Snapshot, feeds
<1>2. CASE WeatherStarts \/ WeatherOff
  BY <1>2 DEF WeatherStarts, WeatherOff, Ticked, feeds
<1>3. CASE SocialStarts \/ SocialOff \/ SocialEnds
  BY <1>3 DEF SocialStarts, SocialOff, SocialEnds, Ticked, feeds
<1>4. CASE CheckStarts
  BY <1>4 DEF CheckStarts, Ticked, feeds
<1>5. CASE Indicate
  BY <1>5 DEF Indicate
<1>6. ASSUME NEW ok \in BOOLEAN, Place_(ok) PROVE RestOk'
  <2>1. task.city # None => task.city \in Cities \union {None}
    OBVIOUS
  <2>2. geo' \in [Geocoders -> Cities \union {None}]
    BY <1>6, <2>1 DEF Place_
  <2> QED BY <1>6, <2>2 DEF Place_
<1>7. ASSUME NEW b \in Bodies, FetchCurrent(b) PROVE RestOk'
  BY <1>7 DEF FetchCurrent
<1>8. ASSUME NEW ok \in BOOLEAN, FetchRange(ok) PROVE RestOk'
  BY <1>8 DEF FetchRange
<1>9. ASSUME NEW ok \in BOOLEAN, FetchAir(ok) PROVE RestOk'
  <2>1. retry' \in 1..RetryMax
    BY <1>9 DEF FetchAir, Doubled
  <2> QED BY <1>9, <2>1 DEF FetchAir
<1>10. ASSUME NEW p \in Platforms, NEW ok \in BOOLEAN, FetchCount(p, ok) PROVE RestOk'
  <2>1. counts' \in [Platforms -> Sites \union Platforms \union {None}]
    BY <1>10 DEF FetchCount, Counted
  <2> QED BY <1>10, <2>1 DEF FetchCount
<1>11. ASSUME NEW t \in {None, "older", "newer"}, Check(t) PROVE RestOk'
  BY <1>11 DEF Check
<1> QED BY <1>1, <1>2, <1>3, <1>4, <1>5, <1>6, <1>7, <1>8, <1>9, <1>10, <1>11 DEF Poll

LEMMA TypeStep == TypeOk /\ TickInv /\ [Next]_vars => TypeOk'
<1> SUFFICES ASSUME TypeOk, TickInv, [Next]_vars PROVE TaskOk' /\ ConfOk' /\ WxOk' /\ RestOk' /\ DueOk'
  BY DEF TypeOk, TaskOk, ConfOk, WxOk, RestOk, DueOk, Tasks, Confs, Values
<1>1. TaskOk /\ ConfOk /\ WxOk /\ RestOk /\ DueOk
  BY TypeParts
<1>2. CASE Poll
  <2>1. conf' = conf
    BY <1>2 DEF Poll, GateOpens, Schedule, TimePasses, Wake, DispatchEnds, Skip, WeatherStarts,
       WeatherOff, Snapshot, Place_, FetchRange, FetchAir, FetchCurrent, SocialStarts, SocialOff,
       SocialEnds, FetchCount, CheckStarts, Indicate, Check
  <2> QED BY <1>1, <1>2, <2>1, TaskStep, DueStep, WxStep, RestStep DEF ConfOk
<1>3. CASE LinkChanges
  BY <1>1, <1>3 DEF LinkChanges, TaskOk, ConfOk, WxOk, RestOk, DueOk, feeds
<1>4. CASE Configure
  <2>1. ConfOk'
    <3>1. /\ \A s \in Sources, c \in Cities : [conf EXCEPT !.source = s, !.city = c] \in Confs
          /\ [conf EXCEPT !.weather = ~@] \in Confs /\ [conf EXCEPT !.social = ~@] \in Confs
          /\ \A s \in Sites, p \in {"api", "relay", "missing"} :
               [conf EXCEPT !.site = s, !.path = p] \in Confs
      BY <1>1, ConfFields DEF ConfOk
    <3> QED BY <1>4, <3>1, Zenon DEF ConfOk, Configure
  <2>2. RestOk'
    <3>1. changes < ChangeMax /\ changes' = changes + 1
          /\ UNCHANGED <<link, geo, retry, counts, release, clean, wanted>>
      BY <1>4, Zenon DEF Configure, feeds
    <3>2. changes' \in 0..ChangeMax
      BY <1>1, <3>1, FeedsAssumption DEF RestOk
    <3> QED BY <1>1, <3>1, <3>2, Zenon DEF RestOk
  <2> QED BY <1>1, <1>4, <2>1, <2>2 DEF Configure, TaskOk, WxOk, DueOk, feeds
<1>5. CASE PollForce("subscribers")
  <2>1. RestOk'
    BY <1>1, <1>5, FeedsAssumption DEF RestOk, PollForce, feeds, Entries
  <2>2. DueOk'
    <3>1. due' = [due EXCEPT !["subscribers"] = 0]
      BY <1>5 DEF PollForce
    <3> QED BY <1>1, <3>1, DueMaxBounds DEF DueOk, Entries
  <2> QED BY <1>1, <1>5, <2>1, <2>2 DEF PollForce, TaskOk, ConfOk, WxOk, feeds
<1>6. ASSUME NEW l \in BOOLEAN, Push(l) PROVE TaskOk' /\ ConfOk' /\ WxOk' /\ RestOk' /\ DueOk'
  <2>1. RestOk'
    <3>1. changes < ChangeMax /\ changes' = changes + 1 /\ clean' = FALSE
          /\ UNCHANGED <<link, geo, retry, counts, release, wanted>>
      BY <1>6, Zenon DEF Push
    <3>2. changes' \in 0..ChangeMax
      BY <1>1, <3>1, FeedsAssumption DEF RestOk
    <3> QED BY <1>1, <3>1, <3>2, Zenon DEF RestOk
  <2> QED BY <1>1, <1>6, <2>1, WxStep DEF Push, TaskOk, ConfOk, DueOk
<1>7. CASE UNCHANGED vars
  BY <1>1, <1>7 DEF vars, TaskOk, ConfOk, WxOk, RestOk, DueOk
<1> QED BY <1>2, <1>3, <1>4, <1>5, <1>6, <1>7 DEF Next

-----------------------------------------------------------------------------
(* Ticks, forces, and what a poll leaves behind. *)

LEMMA TickStep == TypeOk /\ TickInv /\ [Next]_vars => TickInv'
<1> SUFFICES ASSUME TypeOk, TickInv, [Next]_vars PROVE TickInv'
  OBVIOUS
<1>0. task.i \in 1..4 /\ DOMAIN task = {"pc", "i", "src", "city", "rest"}
  BY DEF TypeOk
<1> USE <1>0, Entries3 DEF TickInv
<1>1. UNCHANGED task => TickInv'
  OBVIOUS
<1>2. CASE GateOpens \/ Schedule \/ TimePasses \/ Skip
  BY <1>2 DEF GateOpens, Schedule, TimePasses, Skip
<1>3. CASE Wake \/ DispatchEnds
  BY <1>3 DEF Wake, DispatchEnds
<1>4. CASE WeatherStarts \/ SocialStarts \/ CheckStarts
  <2>1. task.i < 4 => task.i \in {1, 2, 3}
    BY <1>0
  <2>2. CASE WeatherStarts
    BY <2>1, <2>2 DEF WeatherStarts, Ticked, Current
  <2>3. CASE SocialStarts
    BY <2>1, <2>3 DEF SocialStarts, Ticked, Current
  <2>4. CASE CheckStarts
    BY <2>1, <2>4 DEF CheckStarts, Ticked, Current
  <2> QED BY <1>4, <2>2, <2>3, <2>4
<1>5. CASE WeatherOff \/ SocialOff \/ SocialEnds \/ Indicate
  BY <1>5 DEF WeatherOff, SocialOff, SocialEnds, Indicate, Returns
<1>6. CASE Snapshot
  BY <1>6 DEF Snapshot
<1>7. ASSUME NEW ok \in BOOLEAN, Place_(ok) \/ FetchRange(ok) \/ FetchAir(ok) PROVE TickInv'
  BY <1>7 DEF Place_, FetchRange, FetchAir, Returns
<1>8. ASSUME NEW b \in Bodies, FetchCurrent(b) PROVE TickInv'
  BY <1>8 DEF FetchCurrent
<1>9. ASSUME NEW p \in Platforms, NEW ok \in BOOLEAN, FetchCount(p, ok) PROVE TickInv'
  BY <1>9 DEF FetchCount
<1>10. ASSUME NEW t \in {None, "older", "newer"}, Check(t) PROVE TickInv'
  BY <1>10 DEF Check, Returns
<1>11. LinkChanges \/ Configure \/ PollForce("subscribers") \/ (\E l \in BOOLEAN : Push(l)) \/ UNCHANGED vars
          => UNCHANGED task
  BY DEF LinkChanges, Configure, PollForce, Push, vars
<1> QED BY <1>1, <1>2, <1>3, <1>4, <1>5, <1>6, <1>7, <1>8, <1>9, <1>10, <1>11 DEF Next, Poll

\* Which entry a tick is of, and that a deadline moves only when it is over.
LEMMA ForcedStep == TypeOk /\ TickInv /\ ForcedInv /\ [Next]_vars => ForcedInv'
<1> SUFFICES ASSUME TypeOk, TickInv, ForcedInv, [Next]_vars PROVE ForcedInv'
  OBVIOUS
<1>0. /\ task.i \in 1..4 /\ DOMAIN task = {"pc", "i", "src", "city", "rest"} /\ task.pc \in Steps
      /\ wanted \subseteq Entries /\ DOMAIN due = Entries
      /\ TaskOk /\ DueOk /\ RestOk
  BY TypeParts DEF TypeOk
<1> USE <1>0 DEF ForcedInv, Idle, Ticks, Steps
<1>1. CASE GateOpens \/ Schedule \/ Wake \/ DispatchEnds \/ Skip \/ LinkChanges \/ Configure
  BY <1>1 DEF GateOpens, Schedule, Wake, DispatchEnds, Skip, LinkChanges, Configure, Current
<1>2. CASE TimePasses
  BY <1>2 DEF TimePasses
<1>3. ASSUME NEW e \in Entries, NEW next, Ticked(e, next), UNCHANGED due, next.i = task.i,
             next.pc \in Ticks
      PROVE  ForcedInv'
  BY <1>3 DEF Ticked, Current
<1>4. CASE WeatherStarts \/ SocialStarts \/ CheckStarts
  BY <1>3, <1>4 DEF WeatherStarts, SocialStarts, CheckStarts, Entries
<1>5. ASSUME NEW ms \in Delays, Ends(ms), wanted' = wanted \ {Current} PROVE ForcedInv'
  <2>1. due' = [due EXCEPT ![Current] = ms] /\ task'.pc = "dispatch"
    BY <1>5 DEF Ends, Returns, NextDue
  <2> QED BY <1>5, <2>1
<1>6. ASSUME NEW ms \in Delays, Ends(ms), task.pc \in Ticks, wanted' = wanted PROVE ForcedInv'
  BY <1>5, <1>6
<1>7. ASSUME task.pc \in Ticks, task'.pc \in Ticks, UNCHANGED <<due, wanted>>, task'.i = task.i
      PROVE  ForcedInv'
  BY <1>7 DEF Current
<1>8. CASE WeatherOff \/ SocialOff
  <2>1. \E ms \in Delays : Ends(ms)
    BY <1>8, TickEnds
  <2> QED BY <1>5, <1>8, <2>1 DEF WeatherOff, SocialOff
<1>9. ASSUME NEW ok \in BOOLEAN, FetchAir(ok) PROVE ForcedInv'
  <2>1. \E ms \in Delays : Ends(ms)
    BY <1>9, TickEnds
  <2> QED BY <1>6, <1>9, <2>1 DEF FetchAir
<1>10. CASE SocialEnds \/ Indicate \/ Check(None)
  <2>1. \E ms \in Delays : Ends(ms)
    BY <1>10, TickEnds
  <2> QED BY <1>6, <1>10, <2>1 DEF SocialEnds, Indicate, Check
<1>11. CASE Snapshot
  BY <1>7, <1>11 DEF Snapshot
<1>12. ASSUME NEW ok \in BOOLEAN, Place_(ok) \/ FetchRange(ok) PROVE ForcedInv'
  BY <1>7, <1>12 DEF Place_, FetchRange
<1>13. ASSUME NEW b \in Bodies, FetchCurrent(b) PROVE ForcedInv'
  BY <1>7, <1>13 DEF FetchCurrent
<1>14. ASSUME NEW p \in Platforms, NEW ok \in BOOLEAN, FetchCount(p, ok) PROVE ForcedInv'
  BY <1>7, <1>14 DEF FetchCount
<1>15. ASSUME NEW t \in {None, "older", "newer"}, t # None, Check(t) PROVE ForcedInv'
  BY <1>7, <1>15 DEF Check
<1>16. CASE PollForce("subscribers")
  BY <1>16 DEF PollForce, Current, Entries
<1>17. ASSUME NEW l \in BOOLEAN, Push(l) PROVE ForcedInv'
  BY <1>17 DEF Push, Current
<1>18. CASE UNCHANGED vars
  BY <1>18 DEF vars, Current
<1> QED BY <1>1, <1>2, <1>4, <1>8, <1>9, <1>10, <1>11, <1>12, <1>13, <1>14, <1>15, <1>16, <1>17, <1>18
    DEF Next, Poll

LEMMA PollStep == TypeOk /\ TickInv /\ PollInv /\ [Next]_vars => PollInv'
<1> SUFFICES ASSUME TypeOk, TickInv, PollInv, [Next]_vars PROVE PollInv'
  OBVIOUS
<1>0. /\ DOMAIN task = {"pc", "i", "src", "city", "rest"} /\ task.pc \in Steps
      /\ DOMAIN wx = {"valid", "temp", "range", "air"} /\ clean \in BOOLEAN
      /\ task.city # None => task.city \in Cities
  BY DEF TypeOk
<1> USE <1>0 DEF PollInv, Steps
<1>1. UNCHANGED <<clean, task, wx, loc>> => PollInv'
  OBVIOUS
<1>2. ~clean' \/ task'.pc \notin {"range", "air"} => PollInv'
  OBVIOUS
<1>3. CASE LinkChanges \/ Configure \/ PollForce("subscribers") \/ UNCHANGED vars
  BY <1>1, <1>3 DEF LinkChanges, Configure, PollForce, vars, feeds
<1>4. ASSUME NEW l \in BOOLEAN, Push(l) PROVE PollInv'
  BY <1>2, <1>4 DEF Push
<1>5. CASE GateOpens \/ Schedule \/ Wake \/ DispatchEnds \/ Snapshot
  BY <1>2, <1>5 DEF GateOpens, Schedule, Wake, DispatchEnds, Snapshot
<1>6. CASE TimePasses \/ Skip
  BY <1>2, <1>6 DEF TimePasses, Skip
<1>7. CASE WeatherStarts \/ SocialStarts \/ CheckStarts
  BY <1>2, <1>7 DEF WeatherStarts, SocialStarts, CheckStarts, Ticked
<1>8. CASE WeatherOff \/ SocialOff \/ SocialEnds \/ Indicate
  BY <1>2, <1>8 DEF WeatherOff, SocialOff, SocialEnds, Indicate, Returns
<1>9. ASSUME NEW ok \in BOOLEAN, Place_(ok) PROVE PollInv'
  BY <1>9, <1>2 DEF Place_
<1>10. ASSUME NEW b \in Bodies, FetchCurrent(b) PROVE PollInv'
  <2>1. CASE clean' /\ task.src \notin Geocoders
    <3>1. b = "full" /\ task.city # None /\ task' = [task EXCEPT !.pc = "range"] /\ FetchWttr(b)
      BY <1>10, <2>1 DEF FetchCurrent, FetchOpenWeather, Geocoders
    <3>2. wx' = [wx EXCEPT !.valid = TRUE, !.temp = task.city] /\ loc' = task.city
      BY <3>1 DEF FetchWttr
    <3> QED BY <3>1, <3>2
  <2>2. task'.src = task.src
    BY <1>10 DEF FetchCurrent
  <2> QED BY <2>1, <2>2
<1>11. ASSUME NEW ok \in BOOLEAN, FetchRange(ok) PROVE PollInv'
  BY <1>11 DEF FetchRange
<1>12. ASSUME NEW ok \in BOOLEAN, FetchAir(ok) PROVE PollInv'
  BY <1>2, <1>12 DEF FetchAir, Returns
<1>13. ASSUME NEW p \in Platforms, NEW ok \in BOOLEAN, FetchCount(p, ok) PROVE PollInv'
  BY <1>2, <1>13 DEF FetchCount
<1>14. ASSUME NEW t \in {None, "older", "newer"}, Check(t) PROVE PollInv'
  BY <1>2, <1>14 DEF Check, Returns
<1> QED BY <1>3, <1>4, <1>5, <1>6, <1>7, <1>8, <1>9, <1>10, <1>11, <1>12, <1>13, <1>14 DEF Next, Poll

LEMMA Invariant == Spec => []IInv
<1>1. IInv /\ [Next]_vars => IInv'
  BY TypeStep, TickStep, ForcedStep, PollStep DEF IInv
<1> QED BY InitInv, <1>1, PTL DEF Spec

-----------------------------------------------------------------------------
\* Every variable of the poll task and of its three entries keeps its type, and a
\* deadline stays within the longest delay.
THEOREM TypeCorrect == Spec => []TypeOk
<1>1. IInv => TypeOk
  BY DEF IInv
<1> QED BY <1>1, Invariant, PTL

\* periodic_net_poll_force is not lost to a deadline that another entry's tick
\* computes at the same time: until it is ticked, a forced entry is due.
THEOREM ForcedIsDue == Spec => []ForcedSoon
<1>1. IInv => ForcedSoon
  BY DEF IInv, ForcedInv, ForcedSoon
<1> QED BY <1>1, Invariant, PTL

\* After a poll in which every request was answered and nothing interfered, the
\* high and low of the day are those of the place the temperature is about, with
\* the providers that return coordinates (wttr.in, OpenWeatherMap).
THEOREM RangeOfThePlace == Spec => RangeFollowsPlace
<1>1. IInv /\ [Next]_vars =>
        (task.pc = "air" /\ task'.pc # "air" /\ clean' /\ task.src \notin Geocoders
           => wx'.temp = wx'.range)
  <2> SUFFICES ASSUME IInv, [Next]_vars, task.pc = "air", task'.pc # "air", clean',
                      task.src \notin Geocoders
               PROVE  wx'.temp = wx'.range
    OBVIOUS
  <2>1. DOMAIN wx = {"valid", "temp", "range", "air"} /\ DOMAIN task = {"pc", "i", "src", "city", "rest"}
    BY DEF IInv, TypeOk
  <2>2. PICK ok \in BOOLEAN : FetchAir(ok)
    <3>1. ~GateOpens /\ ~Schedule /\ ~TimePasses /\ ~Wake /\ ~DispatchEnds /\ ~Skip
          /\ ~WeatherStarts /\ ~WeatherOff /\ ~Snapshot /\ ~SocialStarts /\ ~SocialOff /\ ~SocialEnds
          /\ ~CheckStarts /\ ~Indicate
      BY DEF GateOpens, Schedule, TimePasses, Wake, DispatchEnds, Skip, WeatherStarts, WeatherOff,
         Snapshot, SocialStarts, SocialOff, SocialEnds, CheckStarts, Indicate, Ticked
    <3>2. /\ \A ok : ~Place_(ok) /\ ~FetchRange(ok) /\ ~FetchCurrent(ok) /\ ~Check(ok)
          /\ \A p, ok : ~FetchCount(p, ok)
      BY DEF Place_, FetchRange, FetchCurrent, FetchCount, Check
    <3>3. ~LinkChanges /\ ~Configure /\ ~PollForce("subscribers") /\ ~(\E l \in BOOLEAN : Push(l))
          /\ ~UNCHANGED vars
      BY DEF LinkChanges, Configure, PollForce, Push, vars
    <3> QED BY <3>1, <3>2, <3>3 DEF Next, Poll
  <2>3. clean /\ wx.temp = wx.range
    BY <2>2 DEF FetchAir, IInv, PollInv
  <2> QED BY <2>1, <2>2, <2>3 DEF FetchAir
<1> QED BY <1>1, Invariant, PTL DEF Spec, RangeFollowsPlace
=============================================================================
