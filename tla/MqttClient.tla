----------------------------- MODULE MqttClient -----------------------------
(***************************************************************************)
(* Who may stop and start the esp-mqtt client: ha_mqtt_pause and           *)
(* ha_mqtt_resume, called by an update that is about to write flash and by *)
(* the handler that watches the WiFi link, each on a task of its own, while *)
(* ha_mqtt_task is still creating the client and a helper task runs a stop *)
(* that may never return.  A step is one access of a shared variable, or   *)
(* the accesses up to the next one that another task can tell apart.       *)
(***************************************************************************)
EXTENDS Naturals

CONSTANTS
  Attempts,   \* attempts of ha_mqtt_task to start the client (5 in the code)
  UpdateMax   \* bound: updates that pause the client

Callers == {"event", "job"}   \* the event task, and the task that updates

VARIABLES
  task,       \* ha_mqtt_task: [pc, left]
  client,     \* s_client is set
  run,        \* esp-mqtt's own task: "stopped", "running" or "stopping"
  linked,     \* that task holds a session with the broker
  connected,  \* s_connected
  refcount,   \* s_pause_refcount
  inflight,   \* s_mqtt_stop_inflight
  helper,     \* mqtt_stop_task: "none", "begin" or "stop"
  pc,         \* where each caller is
  seen,       \* the value of the refcount each caller has read
  wifiDown,   \* s_wifi_down
  link,       \* the WiFi link as the last handled event left it
  quiet,      \* history: the update saw the client stopped when its pause returned
  updates

vars == <<task, client, run, linked, connected, refcount, inflight, helper,
          pc, seen, wifiDown, link, quiet, updates>>

Pausing == {"p_read", "p_store", "p_stop", "p_wait"}
Resuming == {"r_read", "r_store", "r_wait", "r_start"}

TypeOk ==
  /\ task \in [pc : {"init", "start", "done"}, left : 0..Attempts]
  /\ client \in BOOLEAN
  /\ run \in {"stopped", "running", "stopping"}
  /\ linked \in BOOLEAN /\ connected \in BOOLEAN
  /\ refcount \in 0..(UpdateMax + 2)
  /\ inflight \in BOOLEAN
  /\ helper \in {"none", "begin", "stop"}
  /\ pc \in [Callers -> {"idle", "held"} \union Pausing \union Resuming]
  /\ seen \in [Callers -> 0..(UpdateMax + 2)]
  /\ wifiDown \in BOOLEAN /\ link \in BOOLEAN /\ quiet \in BOOLEAN
  /\ updates \in 0..UpdateMax

Init ==
  /\ task = [pc |-> "init", left |-> Attempts]
  /\ client = FALSE /\ run = "stopped" /\ linked = FALSE /\ connected = FALSE
  /\ refcount = 0 /\ inflight = FALSE /\ helper = "none"
  /\ pc = [c \in Callers |-> "idle"]
  /\ seen = [c \in Callers |-> 0]
  /\ wifiDown = FALSE /\ link = FALSE /\ quiet = FALSE
  /\ updates = 0

Goto(c, at) == pc' = [pc EXCEPT ![c] = at]
\* Where a caller is once its pause or its resume has returned.
Returned(c) == IF c = "event" THEN "idle"
               ELSE IF pc[c] \in Pausing THEN "held" ELSE "idle"

-----------------------------------------------------------------------------
(* ha_mqtt_task: create the client, then try to start it.  Neither step    *)
(* looks at the refcount.                                                  *)

CreateClient ==
  /\ task.pc = "init"
  /\ \/ client' = TRUE /\ task' = [task EXCEPT !.pc = "start"]
     \/ client' = FALSE /\ task' = [task EXCEPT !.pc = "done"]
  /\ UNCHANGED <<run, linked, connected, refcount, inflight, helper, pc, seen,
                 wifiDown, link, quiet, updates>>

\* esp_mqtt_client_start succeeds only on a client that is not running; it can
\* fail for want of memory.
FirstStart ==
  /\ task.pc = "start"
  /\ \/ /\ run = "stopped"
        /\ run' = "running"
        /\ task' = [task EXCEPT !.pc = "done"]
     \/ /\ run' = run
        /\ task' = [pc |-> IF task.left = 1 THEN "done" ELSE "start",
                    left |-> task.left - 1]
  /\ UNCHANGED <<client, linked, connected, refcount, inflight, helper, pc, seen,
                 wifiDown, link, quiet, updates>>

-----------------------------------------------------------------------------
(* esp-mqtt's task.  MQTT_EVENT_CONNECTED and MQTT_EVENT_DISCONNECTED set  *)
(* s_connected; a client that is stopped ends its session without an event. *)

BrokerConnects ==
  /\ run # "stopped" /\ ~linked /\ link
  /\ linked' = TRUE /\ connected' = TRUE
  /\ UNCHANGED <<task, client, run, refcount, inflight, helper, pc, seen,
                 wifiDown, link, quiet, updates>>

BrokerDrops ==
  /\ run = "running" /\ linked
  /\ linked' = FALSE /\ connected' = FALSE
  /\ UNCHANGED <<task, client, run, refcount, inflight, helper, pc, seen,
                 wifiDown, link, quiet, updates>>

-----------------------------------------------------------------------------
(* mqtt_stop_task: esp_mqtt_client_stop returns at once when the client is *)
(* not running, otherwise when esp-mqtt's task has ended.                  *)

StopBegins ==
  /\ helper = "begin"
  /\ run' = IF run = "running" THEN "stopping" ELSE run
  /\ helper' = "stop"
  /\ UNCHANGED <<task, client, linked, connected, refcount, inflight, pc, seen,
                 wifiDown, link, quiet, updates>>

StopReturns ==
  /\ helper = "stop"
  /\ IF run = "stopping" THEN run' = "stopped" /\ linked' = FALSE
                         ELSE UNCHANGED <<run, linked>>
  /\ helper' = "none"
  /\ inflight' = FALSE
  /\ UNCHANGED <<task, client, connected, refcount, pc, seen, wifiDown, link,
                 quiet, updates>>

-----------------------------------------------------------------------------
(* ha_mqtt_pause with ha_mqtt_stop_bounded *)

\* The refcount is incremented by a load and a store.
PauseRead(c) ==
  /\ pc[c] = "p_read"
  /\ IF client THEN Goto(c, "p_store") /\ seen' = [seen EXCEPT ![c] = refcount]
               ELSE Goto(c, Returned(c)) /\ UNCHANGED seen
  /\ UNCHANGED <<task, client, run, linked, connected, refcount, inflight, helper,
                 wifiDown, link, quiet, updates>>

PauseStore(c) ==
  /\ pc[c] = "p_store"
  /\ refcount' = seen[c] + 1
  /\ IF seen[c] > 0 THEN Goto(c, Returned(c)) /\ UNCHANGED connected
                    ELSE Goto(c, "p_stop") /\ connected' = FALSE
  /\ UNCHANGED <<task, client, run, linked, inflight, helper, seen, wifiDown, link,
                 quiet, updates>>

\* The helper cannot always be created; the client is then left running.
PauseStop(c) ==
  /\ pc[c] = "p_stop"
  /\ \/ ~inflight /\ inflight' = TRUE /\ helper' = "begin" /\ Goto(c, "p_wait")
     \/ Goto(c, Returned(c)) /\ UNCHANGED <<inflight, helper>>
  /\ UNCHANGED <<task, client, run, linked, connected, refcount, seen, wifiDown,
                 link, quiet, updates>>

\* MQTT_STOP_TIMEOUT_MS: the wait ends with the stop, or without it.
StopOver == ~inflight
\* `GiveUp` without the bound of the wait.
SlipGiveUp == FALSE
GiveUp == TRUE
PauseWait(c) ==
  /\ pc[c] = "p_wait"
  /\ StopOver \/ GiveUp
  /\ Goto(c, Returned(c))
  /\ quiet' = IF c = "job" THEN run = "stopped" ELSE quiet
  /\ UNCHANGED <<task, client, run, linked, connected, refcount, inflight, helper,
                 seen, wifiDown, link, updates>>

-----------------------------------------------------------------------------
(* ha_mqtt_resume *)

MayResume == client /\ refcount > 0

ResumeRead(c) ==
  /\ pc[c] = "r_read"
  /\ IF MayResume
     THEN Goto(c, "r_store") /\ seen' = [seen EXCEPT ![c] = refcount]
     ELSE Goto(c, Returned(c)) /\ UNCHANGED seen
  /\ UNCHANGED <<task, client, run, linked, connected, refcount, inflight, helper,
                 wifiDown, link, quiet, updates>>

ResumeStore(c) ==
  /\ pc[c] = "r_store"
  /\ refcount' = seen[c] - 1
  /\ Goto(c, IF seen[c] > 1 THEN Returned(c) ELSE "r_wait")
  /\ UNCHANGED <<task, client, run, linked, connected, inflight, helper, seen,
                 wifiDown, link, quiet, updates>>

\* At most 10 s for a stop that is still in flight.
ResumeWait(c) ==
  /\ pc[c] = "r_wait"
  /\ StopOver \/ GiveUp
  /\ Goto(c, "r_start")
  /\ UNCHANGED <<task, client, run, linked, connected, refcount, inflight, helper,
                 seen, wifiDown, link, quiet, updates>>

\* esp_mqtt_client_start refuses a client whose task has not ended.
ResumeStart(c) ==
  /\ pc[c] = "r_start"
  /\ run' = IF run = "stopped" THEN "running" ELSE run
  /\ Goto(c, Returned(c))
  /\ UNCHANGED <<task, client, linked, connected, refcount, inflight, helper, seen,
                 wifiDown, link, quiet, updates>>

-----------------------------------------------------------------------------
(* The callers *)

\* ha_mqtt_wifi_event_handler, WIFI_EVENT_STA_DISCONNECTED
WifiLost ==
  /\ pc["event"] = "idle"
  /\ link' = FALSE
  /\ wifiDown' = TRUE
  /\ IF wifiDown THEN UNCHANGED pc ELSE Goto("event", "p_read")
  /\ UNCHANGED <<task, client, run, linked, connected, refcount, inflight, helper,
                 seen, quiet, updates>>

\* ha_mqtt_wifi_event_handler, IP_EVENT_STA_GOT_IP
WifiBack ==
  /\ pc["event"] = "idle"
  /\ link' = TRUE
  /\ wifiDown' = FALSE
  /\ IF wifiDown THEN Goto("event", "r_read") ELSE UNCHANGED pc
  /\ UNCHANGED <<task, client, run, linked, connected, refcount, inflight, helper,
                 seen, quiet, updates>>

\* ota_suspend_tasks and ota_resume_tasks
UpdateBegins ==
  /\ pc["job"] = "idle" /\ updates < UpdateMax
  /\ updates' = updates + 1
  /\ quiet' = FALSE
  /\ Goto("job", "p_read")
  /\ UNCHANGED <<task, client, run, linked, connected, refcount, inflight, helper,
                 seen, wifiDown, link>>

UpdateEnds ==
  /\ pc["job"] = "held"
  /\ quiet' = FALSE
  /\ Goto("job", "r_read")
  /\ UNCHANGED <<task, client, run, linked, connected, refcount, inflight, helper,
                 seen, wifiDown, link, updates>>

Call(c) ==
  \/ PauseRead(c) \/ PauseStore(c) \/ PauseStop(c) \/ PauseWait(c)
  \/ ResumeRead(c) \/ ResumeStore(c) \/ ResumeWait(c) \/ ResumeStart(c)

Next ==
  \/ CreateClient \/ FirstStart \/ BrokerConnects \/ BrokerDrops
  \/ StopBegins \/ StopReturns
  \/ WifiLost \/ WifiBack \/ UpdateBegins \/ UpdateEnds
  \/ \E c \in Callers : Call(c)

\* A call that has begun goes on; whether a stop ever returns is open.
Fairness == \A c \in Callers : WF_vars(Call(c))

Spec == Init /\ [][Next]_vars /\ Fairness
=============================================================================
