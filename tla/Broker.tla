-------------------------------- MODULE Broker --------------------------------
(***************************************************************************)
(* The gateway's way to the broker: dp_gateway_wifi.c, dp_gateway_mqtt.c   *)
(* and the boot that starts them, dp_gateway_init.  Three tasks: the main  *)
(* task goes through the boot, the event loop runs on_wifi_event, and the  *)
(* MQTT task connects, runs the handler of MQTT_EVENT_CONNECTED step by    *)
(* step and notices a lost connection afterwards.  The main task and the   *)
(* handler share s_subs_lock; the client has a lock of its own, for its    *)
(* handlers and for the calls into it.  Gateway abstracts all of this to   *)
(* "online".                                                               *)
(***************************************************************************)
EXTENDS Naturals, Sequences

CONSTANTS WIFI_MAX_RETRY,
          MaxTrouble,    \* how often anything goes wrong, not in the code
          LongOutages,   \* the Wi-Fi may stay away longer than the retries
          ClientLocks    \* the MQTT client holds its lock while a handler runs

ASSUME RetryAssumption == WIFI_MAX_RETRY \in Nat \ {0} /\ MaxTrouble \in Nat
ASSUME OutagesAssumption == LongOutages \in BOOLEAN
ASSUME LocksAssumption == ClientLocks \in BOOLEAN

VARIABLES
  boot,      \* what the main task has still to do
  wifi,      \* the station
  retry,     \* s_retry
  gotIp,     \* WIFI_CONNECTED_BIT: never cleared
  gaveUp,    \* WIFI_FAIL_BIT
  mqtt,      \* the MQTT task
  todo,      \* what its CONNECTED handler has still to do
  bit,       \* MQTT_CONNECTED_BIT
  msgCbs,    \* s_msg_cbs, by topic
  pendingSubs,   \* s_pending_subs that are active
  sub,       \* where the main task is in dp_gateway_mqtt_subscribe
  session,   \* the broker has a session with the gateway
  subs,      \* the topics that session is subscribed to
  status,    \* the retained message on gw/<id>/status
  refused,   \* what this session was asked for in vain: a history
  trouble    \* what has gone wrong so far

wifiVars == <<wifi, retry, gotIp, gaveUp>>
mqttVars == <<mqtt, todo, bit>>
subVars == <<msgCbs, pendingSubs, sub>>
brokerVars == <<session, subs, status, refused>>
vars == <<boot, wifiVars, mqttVars, subVars, brokerVars, trouble>>

Topics == {"provision/req", "decommission/req"}

(* Mutant: a topic is subscribed to before its callback is registered.     *)
SubscribesFirst(t) == <<<<"sub", t>>, <<"cb", t>>>>

(* dp_gateway_adopt_init and dp_gateway_decom_init.                        *)
Listens(t) == <<<<"cb", t>>, <<"sub", t>>>>

(* dp_gateway_init, then dp_mesh_init: any error aborts, which restarts.   *)
BootSteps ==
  <<<<"wifi", "">>, <<"start", "">>, <<"wait", "">>>>
    \o Listens("provision/req") \o Listens("decommission/req")

(* Mutant: the bit tells of the connection when the pending ones are done. *)
BitLast == <<"apply", "online", "set-bit">>

(* case MQTT_EVENT_CONNECTED.                                              *)
OnConnected == <<"set-bit", "apply", "online">>

TypeOK ==
  /\ boot \in {SubSeq(BootSteps, i, Len(BootSteps)) : i \in 1..Len(BootSteps) + 1}
  /\ wifi \in {"off", "connecting", "up", "gone"}
  /\ retry \in 0..WIFI_MAX_RETRY
  /\ gotIp \in BOOLEAN /\ gaveUp \in BOOLEAN
  /\ mqtt \in {"off", "connecting", "connected"}
  /\ todo \in {SubSeq(OnConnected, i, Len(OnConnected)) : i \in 1..Len(OnConnected) + 1}
  /\ bit \in BOOLEAN
  /\ msgCbs \subseteq Topics /\ pendingSubs \subseteq Topics
  /\ sub \in {"no", "locked", "calling"}
  /\ session \in BOOLEAN /\ subs \subseteq Topics
  /\ status \in {"none", "online", "offline"}
  /\ refused \subseteq Topics \cup {"status"}
  /\ trouble \in 0..MaxTrouble

RamInit ==
  /\ boot = BootSteps
  /\ wifi = "off" /\ retry = 0 /\ gotIp = FALSE /\ gaveUp = FALSE
  /\ mqtt = "off" /\ todo = <<>> /\ bit = FALSE
  /\ msgCbs = {} /\ pendingSubs = {} /\ sub = "no"

Init ==
  /\ RamInit
  /\ session = FALSE /\ subs = {} /\ status = "none" /\ refused = {}
  /\ trouble = 0

(* The session is gone, and with it what it was subscribed to; the broker  *)
(* publishes the last will.                                                *)
SessionEnds ==
  /\ session' = FALSE
  /\ subs' = {}
  /\ status' = IF session THEN "offline" ELSE status
  /\ refused' = {}

Restarts ==
  /\ boot' = BootSteps
  /\ wifi' = "off" /\ retry' = 0 /\ gotIp' = FALSE /\ gaveUp' = FALSE
  /\ mqtt' = "off" /\ todo' = <<>> /\ bit' = FALSE
  /\ msgCbs' = {} /\ pendingSubs' = {} /\ sub' = "no"
  /\ SessionEnds

(* The step the main task is at.                                           *)
Doing(step) == boot # <<>> /\ Head(boot)[1] = step

Trouble == trouble < MaxTrouble /\ trouble' = trouble + 1

-----------------------------------------------------------------------------
(* on_wifi_event, in the event loop task.                                  *)

(* Mutant: one retry too many.                                             *)
RetriesOnceMore == retry <= WIFI_MAX_RETRY

RetriesLeft == retry < WIFI_MAX_RETRY

(* STA_DISCONNECTED.                                                       *)
OnStaDisconnected ==
  IF RetriesLeft
  THEN retry' = retry + 1 /\ wifi' = "connecting" /\ UNCHANGED <<gotIp, gaveUp>>
  ELSE gaveUp' = TRUE /\ wifi' = "gone" /\ UNCHANGED <<gotIp, retry>>

(* An attempt fails.  Unless outages may be long, the last one does only   *)
(* during the boot, which then starts over.                                *)
WifiFails ==
  /\ wifi = "connecting"
  /\ LongOutages \/ RetriesLeft \/ Doing("wifi")
  /\ Trouble
  /\ OnStaDisconnected
  /\ UNCHANGED <<boot, mqttVars, subVars, brokerVars>>

(* The access point goes away under the connection.                        *)
WifiDrops ==
  /\ wifi = "up"
  /\ Trouble
  /\ OnStaDisconnected
  /\ SessionEnds
  /\ UNCHANGED <<boot, mqttVars, subVars>>

(* Mutant: the count of retries is kept when the connection is back.       *)
KeepsRetries == UNCHANGED retry

ForgivesRetries == retry' = 0

(* STA_GOT_IP.                                                             *)
OnGotIp ==
  /\ wifi = "connecting"
  /\ wifi' = "up"
  /\ ForgivesRetries
  /\ gotIp' = TRUE
  /\ UNCHANGED <<boot, gaveUp, mqttVars, subVars, brokerVars, trouble>>

-----------------------------------------------------------------------------
(* The MQTT task, and the broker.                                          *)

(* A session starts clean.                                                 *)
MqttConnects ==
  /\ mqtt = "connecting" /\ wifi = "up"
  /\ mqtt' = "connected"
  /\ todo' = OnConnected
  /\ session' = TRUE
  /\ UNCHANGED <<boot, wifiVars, bit, subVars, subs, status, refused, trouble>>

(* One step of the handler of the CONNECTED event: the event bit, then     *)
(* apply_pending_subs under s_subs_lock, then publish_online_retained.     *)
(* What is sent on a lost session is lost; what the client or the broker   *)
(* refuses on a live one is only logged.                                   *)
SetBit ==
  /\ bit' = TRUE
  /\ UNCHANGED <<subs, status, refused, trouble>>

ApplyPendingSubs ==
  /\ sub = "no"
  /\ \E R \in SUBSET pendingSubs :
        /\ IF R = {} THEN UNCHANGED trouble ELSE session /\ Trouble
        /\ refused' = refused \cup R
        /\ subs' = IF session THEN subs \cup (pendingSubs \ R) ELSE subs
  /\ UNCHANGED <<bit, status>>

PublishOnline ==
  /\ \/ /\ status' = IF session THEN "online" ELSE status
        /\ UNCHANGED <<refused, trouble>>
     \/ /\ session /\ Trouble
        /\ refused' = refused \cup {"status"}
        /\ UNCHANGED status
  /\ UNCHANGED <<bit, subs>>

HandlerStep ==
  /\ todo # <<>>
  /\ todo' = Tail(todo)
  /\ \/ Head(todo) = "set-bit" /\ SetBit
     \/ Head(todo) = "apply" /\ ApplyPendingSubs
     \/ Head(todo) = "online" /\ PublishOnline
  /\ UNCHANGED <<boot, wifiVars, mqtt, subVars, session>>

(* MQTT_EVENT_DISCONNECTED, once the handler is done; then it connects     *)
(* again.                                                                  *)
MqttNotices ==
  /\ mqtt = "connected" /\ todo = <<>> /\ ~session
  /\ mqtt' = "connecting"
  /\ bit' = FALSE
  /\ UNCHANGED <<boot, wifiVars, todo, subVars, brokerVars, trouble>>

SessionBreaks ==
  /\ session
  /\ Trouble
  /\ SessionEnds
  /\ UNCHANGED <<boot, wifiVars, mqttVars, subVars>>

-----------------------------------------------------------------------------
(* The main task.                                                          *)
BootWifi ==
  /\ Doing("wifi")
  /\ \/ /\ wifi = "off" /\ wifi' = "connecting"
        /\ UNCHANGED <<boot, retry, gotIp, gaveUp, mqttVars, subVars, brokerVars>>
     \/ gotIp /\ boot' = Tail(boot) /\ UNCHANGED <<wifiVars, mqttVars, subVars, brokerVars>>
     \/ gaveUp /\ ~gotIp /\ Restarts
  /\ UNCHANGED trouble

BootStart ==
  /\ Doing("start")
  /\ mqtt' = "connecting"
  /\ boot' = Tail(boot)
  /\ UNCHANGED <<wifiVars, todo, bit, subVars, brokerVars, trouble>>

(* 15 s for the bit to be set, or the boot starts over.                    *)
BootWait ==
  /\ Doing("wait") /\ bit
  /\ boot' = Tail(boot)
  /\ UNCHANGED <<wifiVars, mqttVars, subVars, brokerVars, trouble>>

BootTimesOut ==
  /\ Doing("wait") /\ ~bit
  /\ IF wifi = "gone" THEN UNCHANGED trouble ELSE Trouble
  /\ Restarts

(* dp_gateway_mqtt_add_msg_cb.                                             *)
AddMsgCb ==
  /\ Doing("cb")
  /\ msgCbs' = msgCbs \cup {Head(boot)[2]}
  /\ boot' = Tail(boot)
  /\ UNCHANGED <<wifiVars, mqttVars, pendingSubs, sub, brokerVars, trouble>>

(* The handler has s_subs_lock, or takes it next: the MQTT task is above   *)
(* the main task on the one core, and nothing in between lets it wait.     *)
HandlerHasLock == todo # <<>> /\ Head(todo) = "apply"

(* dp_gateway_mqtt_subscribe: under s_subs_lock the topic is kept for      *)
(* every later connection, ...                                             *)
SubscribeLocks ==
  /\ Doing("sub") /\ sub = "no" /\ ~HandlerHasLock
  /\ pendingSubs' = pendingSubs \cup {Head(boot)[2]}
  /\ sub' = "locked"
  /\ UNCHANGED <<boot, wifiVars, mqttVars, msgCbs, brokerVars, trouble>>

(* ... the bit says whether there is a connection now, ...                 *)
SubscribeTestsBit ==
  /\ sub = "locked"
  /\ IF bit THEN sub' = "calling" /\ UNCHANGED boot
     ELSE sub' = "no" /\ boot' = Tail(boot)
  /\ UNCHANGED <<wifiVars, mqttVars, msgCbs, pendingSubs, brokerVars, trouble>>

(* ... and if so the client is called: it waits for its own lock, and      *)
(* what it answers is only logged.                                         *)
SubscribeCalls ==
  /\ sub = "calling" /\ (ClientLocks => todo = <<>>)
  /\ sub' = "no" /\ boot' = Tail(boot)
  /\ LET t == Head(boot)[2]
     IN \/ /\ subs' = IF session THEN subs \cup {t} ELSE subs
           /\ UNCHANGED <<refused, trouble>>
        \/ /\ session /\ Trouble
           /\ refused' = refused \cup {t}
           /\ UNCHANGED subs
  /\ UNCHANGED <<wifiVars, mqttVars, msgCbs, pendingSubs, session, status>>

Subscribe == SubscribeLocks \/ SubscribeTestsBit \/ SubscribeCalls

Reboot == Trouble /\ Restarts

MainTask == BootWifi \/ BootStart \/ BootWait \/ AddMsgCb \/ Subscribe
MqttTask == MqttConnects \/ HandlerStep \/ MqttNotices

Next ==
  \/ MainTask \/ MqttTask \/ OnGotIp
  \/ WifiFails \/ WifiDrops \/ SessionBreaks \/ BootTimesOut \/ Reboot

Spec == Init /\ [][Next]_vars

(* The tasks run; an access point in reach is joined in the end.           *)
LiveSpec == Spec /\ WF_vars(MainTask) /\ WF_vars(MqttTask) /\ WF_vars(OnGotIp)
                 /\ WF_vars(BootTimesOut)

-----------------------------------------------------------------------------
(* The topic the main task is about to subscribe to.                       *)
Asking == IF sub = "no" THEN {} ELSE {Head(boot)[2]}

(* When the MQTT task has nothing left to do, a live session is subscribed *)
(* to all the topics asked for so far, but for the one being asked for and *)
(* those the client refused, and announced as online: neither a            *)
(* subscription racing the CONNECTED handler, nor one made on a stale bit, *)
(* nor a reconnect loses a topic.                                          *)
ConnectedIsServed ==
  (mqtt = "connected" /\ todo = <<>> /\ session)
     => /\ subs \subseteq pendingSubs
        /\ pendingSubs \subseteq subs \cup Asking \cup refused
        /\ status = "online" \/ "status" \in refused
        /\ bit

(* No request arrives that nobody listens for.                             *)
HeardHasHandler == subs \subseteq msgCbs

(* The main task holds s_subs_lock and waits for the client, whose handler *)
(* waits for s_subs_lock: a reconnect has fallen into a subscription.      *)
Deadlocked == ClientLocks /\ sub = "calling" /\ HandlerHasLock

(* After the last trouble the gateway is back: booted, connected and       *)
(* subscribed to both topics, for good, but for what was refused on the    *)
(* last session, which nothing asks for again; or it is deadlocked.  It    *)
(* needs outages to be shorter than the retries: after WIFI_FAIL_BIT       *)
(* nobody connects again.                                                  *)
Served ==
  /\ boot = <<>> /\ session
  /\ Topics \subseteq subs \cup refused
  /\ status = "online" \/ "status" \in refused
GatewayComesBack == <>[](Served \/ Deadlocked)
=============================================================================
