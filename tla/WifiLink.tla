------------------------------ MODULE WifiLink ------------------------------
(***************************************************************************)
(* The WiFi station, the setup access point and the restart that a change  *)
(* of settings defers until the new network has answered: wifi_manager.c   *)
(* with the part of api_post_settings (web_server.c) that decides between  *)
(* a restart, a live reconnect and a silent change of the password.        *)
(*                                                                         *)
(* Three tasks take part: the WiFi driver, which associates and posts      *)
(* events; the event task, which handles them one at a time and in order;  *)
(* and the timer task, which runs the callbacks.  An event is handled some *)
(* time after the driver posted it.                                        *)
(***************************************************************************)
EXTENDS Naturals, Sequences, SequencesExt

CONSTANTS
  Nets,       \* SSIDs
  SaveMax,    \* bound: saves of the settings
  FailMax     \* bound: s_reconnect_fail_count stops counting here

VARIABLES
  drv,        \* the driver: [st, cred]
  evq,        \* posted events, oldest first: [kind, cred]
  air,        \* networks in range
  saved,      \* credentials in the settings
  untested,   \* "untested_sta" in NVS
  sta,        \* flags of wifi_manager.c
  timers,     \* armed one-shot timers
  proven,     \* history: credentials that have obtained an address
  saves,      \* number of saves so far
  pin         \* the driver's AP password: s_ap_pin, or a former one

vars == <<drv, evq, air, saved, untested, sta, timers, proven, saves, pin>>

NoCred == [ssid |-> "", pass |-> "right"]
Cred == {NoCred} \union [ssid : Nets, pass : {"right", "wrong"}]
HaveCreds(c) == c.ssid # ""
Works(c) == c.ssid \in air /\ c.pass = "right"

TypeOk ==
  /\ drv \in [st : {"off", "idle", "connecting", "up"}, cred : Cred]
  /\ evq \in Seq([kind : {"down", "ip"}, cred : Cred])
  /\ air \subseteq Nets
  /\ saved \in Cred
  /\ untested \in BOOLEAN
  /\ sta \in [conn : BOOLEAN, manual : BOOLEAN, fails : 0..FailMax,
              ap : BOOLEAN, confirm : BOOLEAN, settle : BOOLEAN]
  /\ timers \subseteq {"reconnect", "backoff", "ap_disable", "confirm", "after_ip"}
  /\ proven \subseteq Cred
  /\ saves \in 0..SaveMax
  /\ pin \in {"shown", "former"}

\* A clock out of the box: no credentials, nothing in NVS.
Init ==
  /\ drv = [st |-> "off", cred |-> NoCred]
  /\ evq = <<>>
  /\ air = Nets
  /\ saved = NoCred
  /\ untested = FALSE
  /\ sta = [conn |-> FALSE, manual |-> FALSE, fails |-> 0,
            ap |-> FALSE, confirm |-> FALSE, settle |-> FALSE]
  /\ timers = {}
  /\ proven = {}
  /\ saves = 0
  /\ pin = "shown"

-----------------------------------------------------------------------------
(* The driver.  esp_wifi_connect does nothing without an SSID and while an *)
(* attempt is under way; esp_wifi_disconnect posts an event only when there *)
(* was an attempt or a link to end.                                        *)

Connect(d) == IF HaveCreds(d.cred) /\ d.st = "idle"
              THEN [d EXCEPT !.st = "connecting"] ELSE d

Associate ==
  /\ drv.st = "connecting"
  /\ Works(drv.cred)
  /\ drv' = [drv EXCEPT !.st = "up"]
  /\ evq' = Append(evq, [kind |-> "ip", cred |-> drv.cred])
  /\ proven' = proven \union {drv.cred}
  /\ UNCHANGED <<air, saved, untested, sta, timers, saves, pin>>

AssociationFails ==
  /\ drv.st = "connecting"
  /\ ~Works(drv.cred)
  /\ drv' = [drv EXCEPT !.st = "idle"]
  /\ evq' = Append(evq, [kind |-> "down", cred |-> drv.cred])
  /\ UNCHANGED <<air, saved, untested, sta, timers, proven, saves, pin>>

LinkLost ==
  /\ drv.st = "up"
  /\ drv.cred.ssid \notin air
  /\ drv' = [drv EXCEPT !.st = "idle"]
  /\ evq' = Append(evq, [kind |-> "down", cred |-> drv.cred])
  /\ UNCHANGED <<air, saved, untested, sta, timers, proven, saves, pin>>

RangeChanges ==
  /\ \E n \in Nets : air' = IF n \in air THEN air \ {n} ELSE air \union {n}
  /\ UNCHANGED <<drv, evq, saved, untested, sta, timers, proven, saves, pin>>

-----------------------------------------------------------------------------
(* wifi_manager_start: the flag of untested credentials is consumed, and   *)
(* decides with the SSID whether the setup AP comes up.  WIFI_EVENT_STA_   *)
(* START then connects.                                                    *)
ApAtBoot(cred, mark) == ~HaveCreds(cred) \/ mark

Start ==
  /\ drv.st = "off"
  /\ untested' = FALSE
  /\ sta' = [sta EXCEPT !.ap = ApAtBoot(saved, untested)]
  /\ drv' = Connect([st |-> "idle", cred |-> saved])
  /\ pin' = "shown"
  /\ UNCHANGED <<evq, air, saved, timers, proven, saves>>

\* esp_restart: RAM is lost, NVS and the settings are not.
Restart ==
  /\ drv' = [st |-> "off", cred |-> NoCred]
  /\ evq' = <<>>
  /\ timers' = {}
  /\ sta' = [conn |-> FALSE, manual |-> FALSE, fails |-> 0,
             ap |-> FALSE, confirm |-> FALSE, settle |-> FALSE]

-----------------------------------------------------------------------------
(* wifi_event_handler *)

\* reconnect_backoff_delay_ms
BackoffDelay(n) ==
  CASE n <= 3 -> 0 [] n <= 6 -> 2000 [] n <= 10 -> 5000 [] n <= 15 -> 15000
    [] OTHER -> 30000

Count(n) == IF n < FailMax THEN n + 1 ELSE n


\* What is no longer armed once the link is down: nothing else will keep the
\* setup AP up while nobody can reach the clock over its network.
StillArmed == timers \ {"ap_disable"}

\* WIFI_EVENT_STA_DISCONNECTED
OnDisconnected ==
  /\ evq # <<>> /\ Head(evq).kind = "down"
  /\ evq' = Tail(evq)
  /\ IF sta.manual
     THEN /\ sta' = [sta EXCEPT !.conn = FALSE, !.manual = FALSE]
          /\ timers' = StillArmed
          /\ UNCHANGED drv
     ELSE LET n == Count(sta.fails)
              now == BackoffDelay(n) = 0
          IN /\ sta' = [sta EXCEPT !.conn = FALSE, !.fails = n]
             /\ drv' = IF now THEN Connect(drv) ELSE drv
             /\ timers' = StillArmed
                            \union (IF now THEN {} ELSE {"backoff"})
  /\ UNCHANGED <<air, saved, untested, proven, saves, pin>>

\* IP_EVENT_STA_GOT_IP
OnGotIp ==
  /\ evq # <<>> /\ Head(evq).kind = "ip"
  /\ evq' = Tail(evq)
  /\ sta' = [sta EXCEPT !.conn = TRUE, !.fails = 0, !.confirm = FALSE]
  /\ timers' = (timers \ ({"backoff"} \union IF sta.confirm THEN {"confirm"} ELSE {}))
                 \union (IF sta.ap THEN {"ap_disable"} ELSE {})
                 \union (IF sta.confirm THEN {"after_ip"} ELSE {})
  /\ UNCHANGED <<drv, air, saved, untested, proven, saves, pin>>

-----------------------------------------------------------------------------
(* Timer callbacks *)

Fires(t) == drv.st # "off" /\ t \in timers

\* reconnect_timer_cb -> wifi_manager_reconnect_sta
ReconnectSta ==
  /\ Fires("reconnect")
  /\ timers' = timers \ {"reconnect"}
  /\ IF HaveCreds(saved)
     THEN /\ sta' = [sta EXCEPT !.ap = TRUE, !.manual = TRUE]
          /\ evq' = IF drv.st = "idle" THEN evq
                    ELSE Append(evq, [kind |-> "down", cred |-> drv.cred])
          /\ drv' = Connect([st |-> "idle", cred |-> saved])
     ELSE UNCHANGED <<sta, evq, drv>>
  /\ UNCHANGED <<air, saved, untested, proven, saves, pin>>

\* reconnect_backoff_cb
BackoffOver ==
  /\ Fires("backoff")
  /\ timers' = timers \ {"backoff"}
  /\ drv' = Connect(drv)
  /\ UNCHANGED <<evq, air, saved, untested, sta, proven, saves, pin>>

\* ap_disable_cb
ApDisable ==
  /\ Fires("ap_disable")
  /\ timers' = timers \ {"ap_disable"}
  /\ sta' = [sta EXCEPT !.ap = FALSE]
  /\ UNCHANGED <<drv, evq, air, saved, untested, proven, saves, pin>>

\* reboot_confirm_timeout_cb with wifi_manager_mark_untested_sta
ConfirmTimeout ==
  /\ Fires("confirm")
  /\ IF sta.confirm
     THEN Restart /\ untested' = TRUE
     ELSE timers' = timers \ {"confirm"} /\ UNCHANGED <<drv, evq, sta, untested>>
  /\ UNCHANGED <<air, saved, proven, saves, pin>>

\* reboot_after_ip_cb
RebootAfterIp ==
  /\ Fires("after_ip")
  /\ Restart
  /\ UNCHANGED <<air, saved, untested, proven, saves, pin>>

-----------------------------------------------------------------------------
(* Requests *)

\* A browser reaches the clock over its network or over the setup AP.
Reachable == drv.st = "up" \/ sta.ap

\* `RebootOnceConnected` without its own time-out.
SlipRebootOnceConnected ==
  /\ sta' = [sta EXCEPT !.confirm = TRUE, !.settle = TRUE]
  /\ timers' = timers \union {"reconnect"}

\* wifi_manager_reboot_once_connected
RebootOnceConnected ==
  /\ sta' = [sta EXCEPT !.confirm = TRUE, !.settle = TRUE]
  /\ timers' = timers \union {"reconnect", "confirm"}

\* api_post_settings with credentials c; `flags` says whether the same save
\* changed the host name or a feature that is started only at boot.
PostSettings(c, flags) ==
  LET ssidChanged == c.ssid # saved.ssid
      passChanged == c.pass # saved.pass
  IN /\ drv.st # "off" /\ Reachable /\ saves < SaveMax
     /\ saves' = saves + 1
     /\ saved' = c
     /\ CASE flags /\ ssidChanged /\ HaveCreds(c) ->
               RebootOnceConnected /\ UNCHANGED <<drv, evq>>
          [] flags /\ ~(ssidChanged /\ HaveCreds(c)) ->
               Restart
          [] ~flags /\ ssidChanged /\ HaveCreds(c) ->
               timers' = timers \union {"reconnect"} /\ UNCHANGED <<drv, evq, sta>>
          [] ~flags /\ ~(ssidChanged /\ HaveCreds(c)) ->
               /\ drv' = IF passChanged /\ HaveCreds(c)
                         THEN [drv EXCEPT !.cred = c] ELSE drv
               /\ UNCHANGED <<evq, sta, timers>>
     /\ UNCHANGED <<air, untested, proven, pin>>

\* wifi_manager_force_ap: LEFT and RIGHT held for 15 s
ForceAp ==
  /\ drv.st # "off" /\ ~sta.ap
  /\ sta' = [sta EXCEPT !.ap = TRUE]
  /\ UNCHANGED <<drv, evq, air, saved, untested, timers, proven, saves, pin>>

\* wifi_manager_regenerate_ap_pin, from /api/wifi/regen_pin: the driver takes
\* the AP's settings only in a mode that includes the AP.
RegenerateApPin ==
  /\ drv.st # "off" /\ Reachable
  /\ pin' = IF sta.ap THEN "shown" ELSE "former"
  /\ UNCHANGED <<drv, evq, air, saved, untested, sta, timers, proven, saves>>

Next ==
  \/ Associate \/ AssociationFails \/ LinkLost \/ RangeChanges
  \/ Start \/ OnDisconnected \/ OnGotIp
  \/ ReconnectSta \/ BackoffOver \/ ApDisable \/ ConfirmTimeout \/ RebootAfterIp
  \/ ForceAp \/ RegenerateApPin
  \/ \E c \in Cred, flags \in BOOLEAN : PostSettings(c, flags)

\* The driver ends every attempt, the event task handles what is posted, and
\* an armed timer fires: nothing else is assumed of the user or the network.
Fairness ==
  /\ WF_vars(Start) /\ WF_vars(Associate) /\ WF_vars(AssociationFails) /\ WF_vars(LinkLost)
  /\ WF_vars(OnDisconnected) /\ WF_vars(OnGotIp)
  /\ WF_vars(ReconnectSta) /\ WF_vars(BackoffOver) /\ WF_vars(ApDisable)
  /\ WF_vars(ConfirmTimeout) /\ WF_vars(RebootAfterIp)

Spec == Init /\ [][Next]_vars /\ Fairness

-----------------------------------------------------------------------------
\* README.md: the WiFi password of the setup AP is the PIN on the tubes
\* (wifi_manager_ap_pin_visible).
TubesShowApPin == sta.ap /\ ~sta.settle => pin = "shown"
=============================================================================
