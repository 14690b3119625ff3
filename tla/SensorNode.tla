------------------------------ MODULE SensorNode ------------------------------
(***************************************************************************)
(* The sensor's side of commissioning: dp_mesh_sensor.c and the sensor     *)
(* path of dp_mesh_init.  A sensor beacons until it is provisioned, is     *)
(* configured in three steps, fires its "ready" callback on the last one   *)
(* and may publish from then on; a watchdog wipes it when the              *)
(* configuration does not finish, and whatever wipes the mesh state ends   *)
(* in a factory reset and a restart.  Sensor adds the main task.           *)
(*                                                                         *)
(* The stack keeps its state in flash (CONFIG_BLE_MESH_SETTINGS) and hands *)
(* events and calls over through the queue of the BTC task; the gateway's  *)
(* messages, the watchdog and power cycles come at any time.  One action   *)
(* per callback; the actions that end in a restart are kept apart, because *)
(* they take the RAM of the other tasks with them.                         *)
(***************************************************************************)
EXTENDS Naturals, Sequences

CONSTANTS MaxQueue,    \* bound on the queue, not in the code
          Faults       \* subset of FaultNames

FaultNames == {"reboot",           \* power is lost, but not between the two
                                   \* ends of a configuration
               "reboot-in-cfg",    \* ... and there
               "reset",            \* node_local_reset returns an error
               "button",           \* somebody presses the factory-reset button
               "radar",            \* the radar leaves its report mode
               "publish",          \* the stack does not send what it is given
               "garble"}           \* a frame or a command is damaged

ASSUME QueueAssumption == MaxQueue \in Nat \ {0}
ASSUME FaultsAssumption == Faults \subseteq FaultNames

VARIABLES
  provisioned,  \* flash: the sensor belongs to a network
  cfg,          \* flash: 1 AppKey added, 2 model bound, 3 publication set
  queue,        \* the BTC task's queue
  up,           \* dp_mesh_init is done
  readyFired,   \* s_ready_fired
  pubArmed,     \* vnd_pub.publish_addr is set
  watchdog,     \* s_post_prov_timer is armed
  readyCalls    \* calls of on_sensor_ready since the boot: s_mesh_ready is > 0

nodeVars == <<provisioned, cfg, queue, up, readyFired, pubArmed, watchdog, readyCalls>>

MODEL_APP_BIND == 2
MODEL_PUB_SET == 3

Items == {"complete", "app-key", "bind", "pub-set", "reset", "local-reset"}
CfgEventOf == <<"app-key", "bind", "pub-set">>

NodeTypeOK ==
  /\ provisioned \in BOOLEAN
  /\ cfg \in 0..MODEL_PUB_SET
  /\ queue \in Seq(Items) /\ Len(queue) <= MaxQueue
  /\ up \in BOOLEAN
  /\ readyFired \in BOOLEAN
  /\ pubArmed \in BOOLEAN
  /\ watchdog \in BOOLEAN
  /\ readyCalls \in 0..1

(* Out of the box, or wiped.                                               *)
Blank == provisioned = FALSE /\ cfg = 0

RamInit ==
  /\ queue = <<>>
  /\ up = FALSE
  /\ readyFired = FALSE
  /\ pubArmed = FALSE
  /\ watchdog = FALSE
  /\ readyCalls = 0

(* esp_restart, or power lost and back: RAM is gone.                       *)
Restarts ==
  /\ queue' = <<>>
  /\ up' = FALSE
  /\ readyFired' = FALSE
  /\ pubArmed' = FALSE
  /\ watchdog' = FALSE
  /\ readyCalls' = 0

(* dp_prov_factory_reset: all of the flash is erased, then a restart.      *)
FactoryReset == provisioned' = FALSE /\ cfg' = 0 /\ Restarts

(* Room for what the network may append: the last place is kept for the    *)
(* local reset of the watchdog, so that the bound never holds that up.     *)
Room == Len(queue) + 1 < MaxQueue

-----------------------------------------------------------------------------
(* Mutant: s_ready_fired is not looked at.                                 *)
FireReadyAgain ==
  /\ readyFired' = TRUE
  /\ pubArmed' = TRUE
  /\ watchdog' = FALSE
  /\ readyCalls' = readyCalls + 1

(* dp_mesh_sensor_fire_ready: once per boot; the first time it arms the    *)
(* publication, stops the watchdog and tells the main task.                *)
FireReady ==
  IF readyFired
  THEN UNCHANGED <<readyFired, pubArmed, watchdog, readyCalls>>
  ELSE /\ readyFired' = TRUE
       /\ pubArmed' = TRUE
       /\ watchdog' = FALSE
       /\ readyCalls' = readyCalls + 1

(* Mutant: a node restored from flash waits for a configuration.           *)
RestoresSilently == UNCHANGED <<readyFired, pubArmed, watchdog, readyCalls>>

(* The end of dp_mesh_init: a node that is provisioned already is ready.   *)
RestoresReady ==
  IF provisioned THEN FireReady
  ELSE UNCHANGED <<readyFired, pubArmed, watchdog, readyCalls>>

Boot ==
  /\ ~up
  /\ up' = TRUE
  /\ RestoresReady
  /\ UNCHANGED <<provisioned, cfg, queue>>

-----------------------------------------------------------------------------
(* The stack and the gateway, external.                                    *)

(* PB-ADV is done: the stack stores its keys.                              *)
Provisioned ==
  /\ up /\ ~provisioned /\ Room
  /\ "reset" \notin {queue[i] : i \in DOMAIN queue}
  /\ provisioned' = TRUE
  /\ cfg' = 0
  /\ queue' = Append(queue, "complete")
  /\ UNCHANGED <<up, readyFired, pubArmed, watchdog, readyCalls>>

(* A configuration message arrives, the first time or again.               *)
Configured(op) ==
  /\ up /\ provisioned /\ Room
  /\ op <= cfg + 1
  /\ cfg' = IF op > cfg THEN op ELSE cfg
  /\ queue' = Append(queue, CfgEventOf[op])
  /\ UNCHANGED <<provisioned, up, readyFired, pubArmed, watchdog, readyCalls>>

(* The stack leaves the network: for a Config Node Reset of the gateway,   *)
(* or for node_local_reset.                                                *)
Leaves(rest) == provisioned' = FALSE /\ cfg' = 0 /\ queue' = Append(rest, "reset")

NodeReset ==
  /\ up /\ provisioned /\ Room
  /\ Leaves(queue)
  /\ UNCHANGED <<up, readyFired, pubArmed, watchdog, readyCalls>>

OnLocalReset ==
  /\ queue # <<>> /\ Head(queue) = "local-reset"
  /\ IF provisioned THEN Leaves(Tail(queue))
     ELSE queue' = Tail(queue) /\ UNCHANGED <<provisioned, cfg>>
  /\ UNCHANGED <<up, readyFired, pubArmed, watchdog, readyCalls>>

-----------------------------------------------------------------------------
(* Callbacks in the BTC task.                                              *)

(* Mutant: nothing watches the configuration.                              *)
ForgetsWatchdog == UNCHANGED watchdog

ArmsWatchdog == watchdog' = TRUE

(* NODE_PROV_COMPLETE.                                                     *)
OnComplete ==
  /\ queue # <<>> /\ Head(queue) = "complete"
  /\ queue' = Tail(queue)
  /\ ArmsWatchdog
  /\ UNCHANGED <<provisioned, cfg, up, readyFired, pubArmed, readyCalls>>

(* Mutant: ready on the binding already, as an earlier version was.        *)
ReadyOnBind(item) == item \in {"bind", "pub-set"}

(* Mutant: ... or on any change of the configuration.                      *)
ReadyOnAnyChange(item) == item \in Items

(* The publication, and not the binding alone, makes the sensor ready.     *)
MakesReady(item) == item = "pub-set"

(* dp_mesh_sensor_on_cfg_server.                                           *)
OnCfgServer ==
  /\ queue # <<>> /\ Head(queue) \in {"app-key", "bind", "pub-set"}
  /\ queue' = Tail(queue)
  /\ IF MakesReady(Head(queue)) THEN FireReady
     ELSE UNCHANGED <<readyFired, pubArmed, watchdog, readyCalls>>
  /\ UNCHANGED <<provisioned, cfg, up>>

(* NODE_PROV_RESET.                                                        *)
OnReset ==
  /\ queue # <<>> /\ Head(queue) = "reset"
  /\ FactoryReset

(* post_prov_timer_cb, in the timer task: the reset it asks for is carried *)
(* out by the BTC task, after what is queued there.                        *)
WatchdogExpires ==
  /\ watchdog
  /\ watchdog' = FALSE
  /\ \/ readyFired /\ UNCHANGED queue
     \/ ~readyFired /\ queue' = Append(queue, "local-reset")
  /\ UNCHANGED <<provisioned, cfg, up, readyFired, pubArmed, readyCalls>>

(* ... or, when it is refused, by the callback itself.                     *)
WatchdogWipes == watchdog /\ ~readyFired /\ "reset" \in Faults /\ FactoryReset

(* dp_mesh_publish_status and dp_mesh_publish_diag, from the main task.    *)
(* The stack can send when the model has its key and an address.  Whether  *)
(* it does (sends) is told by the result of esp_ble_mesh_model_publish or, *)
(* later, by an event; the one is logged and dropped, the other logged.    *)
CanSend == readyFired /\ pubArmed /\ provisioned /\ cfg >= MODEL_APP_BIND

Publish(sends) ==
  /\ sends => CanSend
  /\ ~sends => ~CanSend \/ "publish" \in Faults
  /\ UNCHANGED nodeVars

HalfConfigured == provisioned /\ cfg < MODEL_PUB_SET

(* Power lost and back, or an ESP_ERROR_CHECK of the boot that fails.      *)
Reboot ==
  /\ IF HalfConfigured THEN "reboot-in-cfg" \in Faults ELSE "reboot" \in Faults
  /\ Restarts
  /\ UNCHANGED <<provisioned, cfg>>

NodeSteps ==
  \/ Provisioned \/ \E op \in 1..MODEL_PUB_SET : Configured(op)
  \/ NodeReset
  \/ OnLocalReset \/ OnComplete \/ OnCfgServer
  \/ WatchdogExpires

NodeRestarts == OnReset \/ WatchdogWipes \/ Reboot

-----------------------------------------------------------------------------
Queued(item) == \E i \in DOMAIN queue : queue[i] = item

(* A sensor that says it is ready has all of its configuration in flash,   *)
(* unless its reset is on the way; and the RAM switches a publication      *)
(* needs were set with it.                                                 *)
ReadyMeansConfigured ==
  readyFired => /\ pubArmed /\ readyCalls = 1
                /\ (provisioned /\ cfg = MODEL_PUB_SET) \/ Queued("reset")

(* A sensor does not stay half-configured: its configuration ends, or the  *)
(* watchdog or a reset takes it out of the network (dp_mesh_sensor.c:20).  *)
HalfConfiguredEnds == HalfConfigured ~> ~HalfConfigured

(* A configured sensor becomes ready, now or after a restart.              *)
ConfiguredBecomesReady ==
  (provisioned /\ cfg = MODEL_PUB_SET) ~> (readyFired \/ ~provisioned)
=============================================================================
