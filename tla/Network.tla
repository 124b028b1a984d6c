------------------------------ MODULE Network ------------------------------
(***************************************************************************)
(* The state machines behind the clock's presence on the network: the WiFi *)
(* link and the deferred restart (WifiLink), the stop and start of the     *)
(* MQTT client (MqttClient), what the broker is told (MqttState), and what *)
(* the network task finds missing and fetches (StockFiles).  Each reads    *)
(* the others only as a link or a session that comes and goes at any time, *)
(* so a behaviour of this module is one of one of the four, chosen at the  *)
(* start.                                                                  *)
(***************************************************************************)
EXTENDS Naturals, Sequences, FiniteSets, SequencesExt

CONSTANTS Nets, SaveMax, FailMax, Attempts, UpdateMax, Topics, Values, SensorFitted, ChangeMax,
          StockCount, ListMax

VARIABLES
  part,
  drv, evq, air, saved, untested, sta, timers, proven, saves, pin,
  task, client, run, linked, clientConnected, refcount, inflight, helper, pc, seen,
  wifiDown, link, quiet, updates,
  cur, session, handler, loop, last, broker, configs, stated, late, changes,
  there, exc, list, total, scan, repair, unseen, during

Wifi == INSTANCE WifiLink
Client == INSTANCE MqttClient WITH connected <- clientConnected
State == INSTANCE MqttState WITH connected <- session, WledRunning <- FALSE, Groups <- {"health", "buttons"}
Files == INSTANCE StockFiles WITH late <- during

wifiVars == <<drv, evq, air, saved, untested, sta, timers, proven, saves, pin>>
clientVars == <<task, client, run, linked, clientConnected, refcount, inflight, helper, pc, seen,
                wifiDown, link, quiet, updates>>
stateVars == <<cur, session, handler, loop, last, broker, configs, stated, late, changes>>
fileVars == <<there, exc, list, total, scan, repair, unseen, during>>
vars == <<part, wifiVars, clientVars, stateVars, fileVars>>

Parts == {"wifi", "client", "state", "files"}

TypeOk ==
  \/ part = "wifi" /\ Wifi!TypeOk
  \/ part = "client" /\ Client!TypeOk
  \/ part = "state" /\ State!TypeOk
  \/ part = "files" /\ Files!TypeOk

Init == part \in Parts /\ Wifi!Init /\ Client!Init /\ State!Init /\ Files!Init

Next ==
  /\ UNCHANGED part
  /\ \/ part = "wifi" /\ Wifi!Next /\ UNCHANGED <<clientVars, stateVars, fileVars>>
     \/ part = "client" /\ Client!Next /\ UNCHANGED <<wifiVars, stateVars, fileVars>>
     \/ part = "state" /\ State!Next /\ UNCHANGED <<wifiVars, clientVars, fileVars>>
     \/ part = "files" /\ Files!Next /\ UNCHANGED <<wifiVars, clientVars, stateVars>>

\* The fairness of the four modules, for the part that runs.
Fairness ==
  /\ WF_wifiVars(part = "wifi" /\ Wifi!Start)
  /\ WF_wifiVars(part = "wifi" /\ Wifi!Associate)
  /\ WF_wifiVars(part = "wifi" /\ Wifi!AssociationFails)
  /\ WF_wifiVars(part = "wifi" /\ Wifi!LinkLost)
  /\ WF_wifiVars(part = "wifi" /\ Wifi!OnDisconnected)
  /\ WF_wifiVars(part = "wifi" /\ Wifi!OnGotIp)
  /\ WF_wifiVars(part = "wifi" /\ Wifi!ReconnectSta)
  /\ WF_wifiVars(part = "wifi" /\ Wifi!BackoffOver)
  /\ WF_wifiVars(part = "wifi" /\ Wifi!ApDisable)
  /\ WF_wifiVars(part = "wifi" /\ Wifi!ConfirmTimeout)
  /\ WF_wifiVars(part = "wifi" /\ Wifi!RebootAfterIp)
  /\ WF_clientVars(part = "client" /\ Client!Call("event"))
  /\ WF_clientVars(part = "client" /\ Client!Call("job"))
  /\ WF_stateVars(part = "state" /\ State!Announce)
  /\ WF_stateVars(part = "state" /\ State!AnnounceTicker)
  /\ WF_stateVars(part = "state" /\ State!ReadSettings)
  /\ WF_stateVars(part = "state" /\ State!PublishSetting)
  /\ WF_stateVars(part = "state" /\ State!PublishSensors)
  /\ WF_stateVars(part = "state" /\ State!LoopWakes)
  /\ WF_stateVars(part = "state" /\ State!LoopPublishes)
  /\ SF_fileVars(part = "files" /\ Files!Scan)
  /\ WF_fileVars(part = "files" /\ Files!Repair)

Spec == Init /\ [][Next]_vars /\ Fairness

-----------------------------------------------------------------------------
\* A save that defers its restart until the new network has answered
\* (wifi_manager_reboot_once_connected) is followed by the restart, whether the
\* network answers, never answers, or comes and goes.
SettingsRebootHappens == sta.confirm ~> drv.st = "off"

\* ha_mqtt_pause and ha_mqtt_resume return to their caller, whether or not
\* esp_mqtt_client_stop ever does: a lost link or an update is never held up.
MqttCallsReturn ==
  \A c \in Client!Callers : pc[c] \in Client!Pausing \union Client!Resuming ~> pc[c] \in {"idle", "held"}

\* A setting that changes while the loop's copies are what the broker holds is
\* published by the loop, unless the session ends or a command changes it.
ChangesPublished ==
  \A t \in Topics : (t \in late) ~> (broker[t] = cur[t] \/ t \notin late)

\* In a session that lasts, every sensor announced to Home Assistant gets a state.
AnnouncedGetsState ==
  <>[]session => <>[](\A e \in configs : e[2] \in State!SensorTopics => e[2] \in stated)

\* The banner comes to count what is missing and not excepted, whichever of scan,
\* exception, upload, patch and repair came last; excepted is a change nothing
\* announces (a deletion, an exception replaced by another, a scan that gives up)
\* and one that falls into a running scan.
BannerCatchesUp ==
  part = "files" => []<>(total = Cardinality(Files!Missing) \/ unseen \/ during)
=============================================================================
