------------------------------ MODULE MqttState ------------------------------
(***************************************************************************)
(* What Home Assistant is told: the entities ha_mqtt.c announces when it    *)
(* connects, the state topics it then publishes, and the loop that publishes *)
(* a topic again when the value behind it has changed.  The handler of     *)
(* MQTT_EVENT_CONNECTED and the commands run on esp-mqtt's task; the loop   *)
(* runs on ha_mqtt_task; the values change under both of them, by touch,    *)
(* by the web page, by rotation or by the update check.                    *)
(***************************************************************************)
EXTENDS Naturals, Sequences, SequencesExt

CONSTANTS
  Topics,        \* the state topics followed, a subset of SettingTopics
  Values,        \* values a setting takes
  SensorFitted,  \* sht30_is_present()
  WledRunning,   \* wled_sync_is_running()
  Groups,        \* optional groups enabled: subset of {"health", "buttons"}
  ChangeMax      \* bound: changes of the settings

None == "none"

VARIABLES
  cur,        \* the device's value of each topic
  connected,  \* s_connected
  handler,    \* the CONNECTED handler: [pc, todo, snap]
  loop,       \* ha_mqtt_task's loop: [todo, snap]
  last,       \* its last_* copies
  broker,     \* retained value of each topic
  configs,    \* entities announced, retained
  stated,     \* sensor topics that have been published
  late,       \* history: topics that changed while the loop was in step with the broker
  changes

vars == <<cur, connected, handler, loop, last, broker, configs, stated, late, changes>>

-----------------------------------------------------------------------------
(* Topics *)

\* Settings sent, in this order, when the session is set up.
ConnectOrder == <<"mode", "display", "brightness", "led_brightness", "led_mode",
                  "theme", "rotation", "ticker_speed", "ticker_sound", "ticker",
                  "firmware">>
\* Topics the loop compares with what it sent last.
LoopOrder == <<"mode", "display", "brightness", "led_brightness", "led_mode",
               "theme", "rotation", "update", "update_ver">>
\* Topics a command publishes at once.
Echoed == {"theme", "rotation", "ticker_speed", "ticker_sound", "ticker"}
Commands == {"mode", "display", "brightness", "led_brightness", "led_mode",
             "theme", "rotation", "ticker_speed", "ticker_sound", "ticker"}
SettingTopics == ToSet(ConnectOrder) \union ToSet(LoopOrder)

Followed(order) == SelectSeq(order, LAMBDA t : t \in Topics)

-----------------------------------------------------------------------------
(* Entities: pairs of an entity and the state topic it names. *)

SensorEntities ==
  {<<"temp", "sensor/temperature">>, <<"hum", "sensor/humidity">>,
   <<"aqi", "sensor/aqi">>}
PrecipEntities ==
  {<<"precip_type", "sensor/precip">>, <<"precip_in", "sensor/precip">>,
   <<"precip_mm", "sensor/precip">>}
ControlEntities ==
  {<<t, t>> : t \in {"mode", "display", "brightness", "led_brightness",
                     "led_mode", "theme", "rotation"}}
DiagnosticEntities ==
  {<<"fw", "firmware">>, <<"update", "update">>, <<"update_ver", "update_ver">>}

\* publish_discovery
Discovery == (IF SensorFitted THEN SensorEntities ELSE {})
               \union PrecipEntities \union ControlEntities \union DiagnosticEntities

TickerEntities ==
  {<<"ticker", "ticker">>, <<"ticker_speed", "ticker_speed">>,
   <<"ticker_sound", "ticker_sound">>}
NtpEntities == {<<"xtal_drift", "ntp/xtal_drift">>, <<"rtc_err", "ntp/rtc_err">>}
HealthEntities == {<<e, "health">> : e \in {"rssi", "heap", "uptime"}}
ButtonTriggers == {<<b, "button">> : b \in {"left", "middle", "right"}}

\* publish_ticker_discovery
TickerDiscovery == TickerEntities \union NtpEntities
                     \union (IF "health" \in Groups THEN HealthEntities ELSE {})
                     \union (IF "buttons" \in Groups THEN ButtonTriggers ELSE {})

\* The options of the LED mode: what a command may choose.
LedModeOffered(v) == v # "WLED" \/ WledRunning

-----------------------------------------------------------------------------
TypeOk ==
  /\ cur \in [Topics -> Values]
  /\ connected \in BOOLEAN
  /\ handler.pc \in {"idle", "announce", "subscribe", "read", "publish"}
  /\ handler.todo \in Seq(Topics) /\ handler.snap \in [Topics -> Values]
  /\ loop.todo \in Seq(Topics) /\ loop.snap \in [Topics -> Values]
  /\ last \in [Topics -> Values \union {None}]
  /\ broker \in [Topics -> Values \union {None}]
  /\ configs \subseteq (Discovery \union TickerDiscovery)
  /\ late \subseteq Topics
  /\ changes \in 0..ChangeMax

Init ==
  /\ cur = [t \in Topics |-> CHOOSE v \in Values : TRUE]
  /\ connected = FALSE
  /\ handler = [pc |-> "idle", todo |-> <<>>, snap |-> cur]
  /\ loop = [todo |-> <<>>, snap |-> cur]
  /\ last = [t \in Topics |-> None]
  /\ broker = [t \in Topics |-> None]
  /\ configs = {} /\ stated = {} /\ late = {}
  /\ changes = 0

\* publish(): dropped when there is no session.
Publish(t, v) == broker' = IF connected THEN [broker EXCEPT ![t] = v] ELSE broker

-----------------------------------------------------------------------------
(* MQTT_EVENT_CONNECTED *)

OnConnected ==
  /\ ~connected /\ handler.pc = "idle"
  /\ connected' = TRUE
  /\ handler' = [handler EXCEPT !.pc = "announce"]
  /\ late' = {}
  /\ UNCHANGED <<cur, loop, last, broker, configs, stated, changes>>

Announce ==
  /\ handler.pc = "announce"
  /\ configs' = IF connected THEN configs \union Discovery ELSE configs
  /\ handler' = [handler EXCEPT !.pc = "subscribe"]
  /\ UNCHANGED <<cur, connected, loop, last, broker, stated, late, changes>>

AnnounceTicker ==
  /\ handler.pc = "subscribe"
  /\ configs' = IF connected THEN configs \union TickerDiscovery ELSE configs
  /\ handler' = [handler EXCEPT !.pc = "read"]
  /\ UNCHANGED <<cur, connected, loop, last, broker, stated, late, changes>>

\* The settings are read once, under the lock, and sent one by one.
ReadSettings ==
  /\ handler.pc = "read"
  /\ handler' = [pc |-> "publish", todo |-> Followed(ConnectOrder), snap |-> cur]
  /\ UNCHANGED <<cur, connected, loop, last, broker, configs, stated, late, changes>>

SensorTopics == {"sensor/temperature", "sensor/humidity", "sensor/aqi", "sensor/precip"}

\* publish_sensors: the outdoor values, and the indoor ones of a fitted sensor.
\* `Sensors` with the indoor values alone.
SlipSensors == {"sensor/temperature", "sensor/humidity"}
Sensors == {"sensor/aqi", "sensor/precip"}
             \union (IF SensorFitted THEN {"sensor/temperature", "sensor/humidity"} ELSE {})
SensorsAreSent == SensorFitted

\* The ticker's own values are read when their turn comes.
PublishSetting ==
  /\ handler.pc = "publish" /\ handler.todo # <<>>
  /\ LET t == Head(handler.todo)
     IN Publish(t, IF t \in {"ticker_speed", "ticker"} THEN cur[t] ELSE handler.snap[t])
  /\ handler' = [handler EXCEPT !.todo = Tail(@)]
  /\ UNCHANGED <<cur, connected, loop, last, configs, stated, late, changes>>

PublishSensors ==
  /\ handler.pc = "publish" /\ handler.todo = <<>>
  /\ stated' = IF SensorsAreSent /\ connected THEN stated \union Sensors ELSE stated
  /\ handler' = [handler EXCEPT !.pc = "idle"]
  /\ UNCHANGED <<cur, connected, loop, last, broker, configs, late, changes>>

\* MQTT_EVENT_DISCONNECTED, on the same task as the handler; ha_mqtt_pause
\* clears the flag from another one.
OnDisconnected ==
  /\ connected
  /\ connected' = FALSE
  /\ late' = {}
  /\ UNCHANGED <<cur, handler, loop, last, broker, configs, stated, changes>>

-----------------------------------------------------------------------------
(* ha_mqtt_task's loop *)

LoopWakes ==
  /\ loop.todo = <<>> /\ connected
  /\ loop' = [todo |-> Followed(LoopOrder), snap |-> cur]
  /\ \/ UNCHANGED stated
     \/ SensorsAreSent /\ stated' = stated \union Sensors
  /\ UNCHANGED <<cur, connected, handler, last, broker, configs, late, changes>>

\* `Changed` that compares with the present value, not with the one sent.
SlipChanged(t, v) == v # cur[t]
Changed(t, v) == v # last[t]

\* The update status is read when its turn comes.
LoopPublishes ==
  /\ loop.todo # <<>>
  /\ LET t == Head(loop.todo)
         v == IF t \in {"update", "update_ver"} THEN cur[t] ELSE loop.snap[t]
     IN IF Changed(t, v)
        THEN Publish(t, v) /\ last' = [last EXCEPT ![t] = v]
        ELSE UNCHANGED <<broker, last>>
  /\ loop' = [loop EXCEPT !.todo = Tail(@)]
  /\ UNCHANGED <<cur, connected, handler, configs, stated, late, changes>>

-----------------------------------------------------------------------------
(* Changes *)

\* A session that is set up and in which the loop's copy of t is what the broker
\* holds: from here on the loop alone keeps the broker up to date.
InStep(t) == connected /\ handler.pc = "idle" /\ broker[t] = last[t]

\* Touch, web page, rotation, update check.
Change(t, v) ==
  /\ changes < ChangeMax /\ v # cur[t] /\ t # "firmware"
  /\ cur' = [cur EXCEPT ![t] = v]
  /\ late' = IF InStep(t) THEN late \union {t} ELSE late \ {t}
  /\ changes' = changes + 1
  /\ UNCHANGED <<connected, handler, loop, last, broker, configs, stated>>

\* MQTT_EVENT_DATA on a command topic; esp-mqtt's task is free for it.
Command(t, v) ==
  /\ connected /\ handler.pc = "idle" /\ changes < ChangeMax
  /\ t \in Commands
  /\ changes' = changes + 1
  /\ IF t = "led_mode" /\ ~LedModeOffered(v)
     THEN Publish(t, cur[t]) /\ UNCHANGED cur
     ELSE /\ cur' = [cur EXCEPT ![t] = v]
          /\ IF t \in Echoed THEN Publish(t, v) ELSE UNCHANGED broker
  /\ late' = IF InStep(t) /\ t \notin Echoed THEN late \union {t} ELSE late \ {t}
  /\ UNCHANGED <<connected, handler, loop, last, configs, stated>>

Next ==
  \/ OnConnected \/ Announce \/ AnnounceTicker \/ ReadSettings
  \/ PublishSetting \/ PublishSensors \/ OnDisconnected
  \/ LoopWakes \/ LoopPublishes
  \/ \E t \in Topics, v \in Values : Change(t, v) \/ Command(t, v)

\* Both tasks go on with what they have begun, and the loop's delay ends.
Fairness ==
  /\ WF_vars(Announce) /\ WF_vars(AnnounceTicker) /\ WF_vars(ReadSettings)
  /\ WF_vars(PublishSetting) /\ WF_vars(PublishSensors)
  /\ WF_vars(LoopWakes) /\ WF_vars(LoopPublishes)

Spec == Init /\ [][Next]_vars /\ Fairness
=============================================================================
