# A verification of the DockPulse firmware

DockPulse tells a harbour which of its berths are taken. A battery-powered
*sensor* at each berth looks at it with a radar and publishes its occupancy
over a Bluetooth mesh; a mains-powered *gateway* decodes what it receives and
forwards it to a backend over MQTT. The same firmware (C, ESP-IDF) is built for
either role. The backend adopts a sensor for a berth, and decommissions it, by
sending requests to the gateway, which provisions, configures and resets sensors
over the mesh.

This directory holds TLA+ models of that firmware, the TLC configurations that
check them, and proofs that TLAPS checks. The models are about what the code
does with its **control state**: the adoption and decommission flows, the tasks
they run in, the table of adopted berths, the life of a sensor with its main
loop, the way of a status to its topic, and the gateway's connection to the
broker; and about the **data** on its way from the radar's bytes to the backend's
JSON. Paths below are relative to the repository.

Contents: [parts](#1-the-parts-of-the-system) |
[modules](#2-the-modules-and-the-code) | [runs](#3-what-the-runs-check) |
[fairness](#4-fairness) | [bounds and abstractions](#5-bounds-and-abstractions) |
[proofs](#6-what-is-proved) | [disagreements](#7-where-the-code-disagrees-with-what-is-said-of-it) |
[not modelled](#8-what-is-not-modelled) | [plan](#9-plan) | [running](#10-running-it)

## 1. The parts of the system

| part | code | state it keeps | operations | correct when |
|---|---|---|---|---|
| provisioner | `components/dp_mesh/dp_mesh_provisioner.c` | `s_prov_*`, `s_cfg_step`, `s_cfg_attempts`, `s_prov_timer`, `s_decom` | provision, decommission, configuration-client callback, provisioning events, ttl timer | one flow at a time; it ends, once, and leaves nothing behind |
| adopt | `components/dp_gateway/dp_gateway_adopt.c` | `s_inflight` | `handle_provision_req`, `on_prov_done` | each request is answered once, with what happened |
| decom | `components/dp_gateway/dp_gateway_decom.c` | a context per request | `handle_decommission_req`, `on_decom_done` | the same |
| dp_prov | `components/dp_prov/dp_prov.c` | `s_table`, `s_loaded`, the NVS blob | init/load, record, forget, lookup, factory reset | one record per address and per berth; what was recorded survives |
| sensor commissioning | `components/dp_mesh/dp_mesh_sensor.c`, `dp_mesh.c`, `main/sensor_main.c` | `s_ready_fired`, `vnd_pub`, `s_post_prov_timer`, `s_mesh_ready`; the stack's flash | ready callback, configuration and reset events, watchdog, publish | it publishes when, and only when, it can be heard |
| broker connection | `components/dp_gateway/dp_gateway_wifi.c`, `dp_gateway_mqtt.c` | `s_retry`, event bits, `s_msg_cbs`, `s_pending_subs` | Wi-Fi and MQTT events, subscribe, publish | a reconnect loses no subscription |
| gateway boot, uplink | `components/dp_gateway/dp_gateway.c`, `main/gateway_main.c` | none of its own | boot sequence; status and diagnostics to MQTT | a status goes out under the berth its sender was adopted for |
| mesh bring-up | `components/dp_mesh/dp_mesh.c` | `s_role`, element tables | `dp_mesh_init` | a restored node is ready, a blank one beacons |
| sensor loop, radar | `main/sensor_main.c`, `components/dp_radar/*` | failure count, publication time, proximity streak, parser state | read, filter, publish, recover | the status is fresh, a silent radar recovers |
| io | `components/dp_io/dp_io.c` | LED state, hold time | LEDs, battery, factory-reset button | a long press resets, a short one does not |
| wire codec | `components/dp_common/dp_common.c` | none | pack, unpack | unpack inverts pack |
| tools | `tools/` | none | build, flash, bench scripts | |

**How they interact.** Requests come in through the MQTT task, which calls
adopt or decom, which call the provisioner, all in that task. The stack (its BTC
task) reports provisioning and configuration events to the provisioner; a flow's
ttl expires in the timer task. Whichever of these ends a flow calls
`on_prov_done`, which writes the berth table and publishes the answer; the end of
a decommission calls `on_decom_done` in the same way. The answer goes out only
if the broker connection is up at that instant. On the sensor, the stack's task,
a watchdog timer, the button task and the main task share three flags and the
flash. A status the main task publishes crosses the mesh, reaches the gateway's
BTC task, is paired there with a berth from the table, and goes to the broker; the
backend has its own rows of which address serves which berth, which it learns from the
answers and compares with the source of every status.

**What is hard.** The stack's events carry no identification of the flow that
caused them, so an event of an ended flow can reach the next one. A flow and a
decommission run side by side and both send node resets. The state of a flow is
kept three times (adopt, provisioner, stack) and must be dropped on seven ways
out. A flow is in RAM, its node in flash. Sends, deletes and flash writes fail one
at a time. Messages and their answers are lost or late. Subscribing races the
connection's own handler. The full list of hazards, each with its line and the
properties about it, is in `PROJECT.json`.

## 2. The modules and the code

```
Addresses            the unicast addresses
  BerthMap           what dp_prov promises                <-- implemented by DpProv
  |  Uplink          a message from a sensor to its topic, and the backend's rows
  |    MCUplink
  |    UplinkProofs   theorems
  MeshStack          the stack, the radio and the sensors (external)
    Replies          s_inflight, the answers, on_prov_done, on_decom_done
      Provisioner    dp_mesh_provisioner.c
        Gateway      the request handlers, boot, broker, power; its properties
          MCGateway      model values for TLC
          Outcomes       Gateway with the history of a flow and of a decommission
            MCOutcomes     model values for TLC
            GatewayProofs  theorems, about Gateway and about Outcomes
ProvTasks            the adoption's code in its three tasks, statement by statement
  ProvTasksProofs    theorems
DpProv               dp_prov.c: slots, layouts, load, save    (MCDpProv)
  DpProvProofs       theorems, the refinement among them
SensorNode           dp_mesh_sensor.c and the sensor's start
  Sensor             with the main loop, the filter, the light, the button
    SensorProofs     theorems
Codec                wire format, units, battery
  CodecProofs        theorems
  RadarReader        dp_radar_read
    Telemetry        from the radar's bytes to the JSON       (MCTelemetry)
      TelemetryProofs    theorems
Broker               dp_gateway_wifi.c, dp_gateway_mqtt.c, dp_gateway_init
  BrokerProofs       theorems
```

**BerthMap** is the abstract specification of the berth table: a map from
addresses to berths as lookups see it (`berths`), and the one a reboot restores
(`savedBerths`). Recording a berth under a new address evicts the old one; a
record or a forget may fail to reach flash. Gateway uses these operators for
every call of `dp_prov_record_node` and `dp_prov_forget_unicast`.

**DpProv** is the table as coded: `table` is `s_table` (its `count` and slots),
`loaded` is `s_loaded`, `nvs` the blob with its layout (absent, v1, v2, or of
another version), `ret` the last call and its result. `Stale`, `Candidates`,
`Store` and `Clear` are the loops of `dp_prov_record_node`; `Loads` has every
outcome of `load_table`, with the order of its tests. `ImplementsBerthMap` is the
refinement: `berths` is the map in RAM or, before the load, the map a load would
give; `savedBerths` is what the blob holds. Before a load that succeeds, and after one
that failed, `EffectiveMap` is that of the flash only: the lookups themselves return
nothing then (`dp_prov.c:148`), and the map is kept for the next load, not for them.

**MeshStack** is the environment of the gateway: the node database the stack keeps
in flash, the uuid match, the links, one unanswered configuration message per
address, the queue of events to the application, and the sensors at the other end
(address and how much of the configuration they have). A message may be applied and
its answer lost; may be refused; may time out, before or after it was applied; may
fail to be sent, at once or with an error event. Nothing in it is translated
from `src/`, except the constants of `cfg_step_t` and the full-uuid match: it
is what the calls and callbacks in `dp_mesh_provisioner.c` rely on. Each message carries, for the properties
only, who sent it (`by`).

**Provisioner** has one action per callback: `OnLinkClose`, `OnProvComplete`,
`OnOrphanComplete` (provisioning events), `OnDecomTimeout`, `OnDecomAnswer`,
`OnCfgTimeout`, `OnCfgAck`, `OnCfgError`, `OnStrayCfgEvent` (the branches of
`on_cfg_client`, in its order: the decommission first, then the flow) and
`ProvTimeout`. Each is the whole callback, down to the answer it publishes:
`FinishErr` for instance is `prov_finish_err` with the node reset, the deletion,
the forgetting, the disarming and `on_prov_done`. `AdvanceStep`, `RedoStep`,
`FinishOk`, `FinishErr`, `DecomFinish` are the functions of those names.

| variable | code |
|---|---|
| `provInFlight`, `provUuid`, `provTarget` | `s_prov_in_flight`, `s_prov_uuid`, `s_prov_target_addr` |
| `cfgStep`, `cfgAttempts`, `provTimer` | `s_cfg_step`, `s_cfg_attempts`, `s_prov_timer` armed |
| `decom` | `s_decom`, its context being the id of the request |
| `meshUp` | `dp_mesh_get_role() == DP_MESH_ROLE_GATEWAY` |
| `inflight` | `s_inflight` (the berth and node id are the request's, `ReqEntry`) |
| `online` | `MQTT_CONNECTED_BIT` |
| `delivered`, `answers`, `said`, `announced` | history, for the properties: requests that reached a handler, answers handed to `dp_gateway_mqtt_publish`, what they were, the nodes adopted with an ok |

**Gateway** adds the handlers (`StartProvision`, `RejectProvision`,
`StartDecommission`, `RejectDecommission`), the start of the mesh, the connection
going up and down and a power cycle, and states the properties.

**Outcomes** adds five history variables, at none of which the gateway looks, to say
what an ok is worth when requests overlap and sensors leave when they like. `stale`:
when the flow started, a link to another sensor was open or a PROV_COMPLETE was waiting.
`mixed`: it found configuration messages of an earlier flow under way, or has since
taken the answer to a node reset for its own, or provisioned its sensor twice. `given`:
the address a sensor got in the flow. `earlier`: the decommission found a reset of an
earlier one unanswered. `wiped`: a sensor has left the decommission's address since it
started.

**SensorNode** is the sensor from the box to its first status: `provisioned` and
`cfg` are the stack's flash, `queue` the stack task's queue, `readyFired`,
`pubArmed`, `watchdog` the flags of `dp_mesh_sensor.c` and `dp_mesh.c`,
`readyCalls` how often `on_sensor_ready` ran (so `s_mesh_ready` is
`readyCalls > 0`). `Publish` has both outcomes of `esp_ble_mesh_model_publish` and of the
event that follows it; the code drops either. The gateway's messages come at any time. It has no specification of its own; its actions that end in a restart are kept
apart from the others, because a restart takes the main task with it.

**Sensor** extends it to the whole device. `mainAt` is where `dp_sensor_run` is:
`Starts` (berth light, `dp_mesh_init`), `StartsLoop` (the wait for
`s_mesh_ready`, `dp_radar_init`), `ReadFrame` or `ReadFails` and `ReadFailsAgain`
(the read, the failure count and the recovery), `Lights` (`dp_berth_led_set`'s
second write; the first is at the end of `ReadFrame`), `PublishStatus`,
`PublishDiag`. `streak` is `s_prox_streak`, `age` the rounds since
`last_publish`, `held` the button task's `held_ms`, `legs` the two pins of the
light. `inRange`, `pressed` and `reporting` are the world: a boat, a finger, and
whether the radar is in its report mode. `recent` and `reported` are history.

**Uplink** is the way of a status or a diag: `Sends` and `Lost` in the air,
`Receives` (`handle_model_op`, `on_status`), `LooksUpBerth` (`render_berth_id`,
the map before the index in the message), `LooksUpNode`
(`dp_prov_lookup_node_id`), `Publishes`. `task` holds the local variables of the
BTC task between those steps. Adoption, its failure and decommission are
there as far as the map, the node database and the backend's `rows` go; their steps
are Gateway's.

**ProvTasks** looks at the same code as Provisioner and Replies from the side that
Provisioner leaves out: each of the three tasks has a place (`pc`), and goes from
one group of statements to the next, with the local variables (`loc`) it has read.
Between two places another task may run, as the priorities and the calls
that block allow (`Scheduled`, `HeldUp`); the MQTT client's handlers run under its lock
(`HandlersLocked`), which publishing waits for. Retries and decommissions are cut.

**Codec** has the conversions as operators on bytes. **RadarReader** is
`dp_radar_read` byte by byte: its three states, its buffer (`frame`), and the UART with
a driver's buffer that fills while nobody reads (`fifo`). The radar module at the other end
(`line`) sends one frame after the other; bytes are lost or damaged.
**Telemetry** continues to the two messages, their packing, unpacking and the JSON.

**Broker** has the three tasks of the gateway's connection. `boot` is what
`dp_gateway_init` has still to do, `todo` what the CONNECTED handler has still to
do; the Wi-Fi event handler, the MQTT task and the main task interleave at those
steps. `dp_gateway_mqtt_subscribe` has three steps (`sub`): it takes `s_subs_lock` and keeps the
topic, tests the bit, and calls the client, which may refuse. The client runs its event
handlers under its own lock (`ClientLocks`), the lock that call needs, and the CONNECTED
handler needs `s_subs_lock`: `Deadlocked` is the state in which each waits for the
other. `refused` is what the client or the broker would not take on this session; the
code logs it and goes on.
The broker's session, its subscriptions and the retained online status are
the other end. Gateway abstracts it to `online`.

## 3. What the runs check

Passing runs:

| run | question | distinct states |
|---|---|---|
| `GatewayTruth` | does an adopted node survive later flows, with its berth, and does anything stay behind? | 1,064,208 |
| `GatewayLive` | do the three copies of a flow agree, is every request answered once, and does every flow end? | 262,958 |
| `Outcomes` | is an ok true of the sensor when requests overlap and sensors leave? | 2,696,449 |
| `ProvTasks` | does that hold with the three tasks interleaved between statements? | 770,342 |
| `DpProv` | is the table unique, counted, durable, and the map it promises to be? | 7,219 |
| `Uplink` | does a status go out under the berth, and the node id, the backend knows its sender by? | 2,144,596 |
| `Sensor` | does a sensor get ready, light, report and recover as it should? | 49,264 |
| `Telemetry` | is what is published what the radar measured? | 4,605,260 |
| `Broker` | is a live connection subscribed, and does the gateway come back? | 1,228 |

The properties, and why one might think them false:

- `FlowAgreement`: `s_inflight`, `s_prov_in_flight`, the ttl timer and the uuid
  match agree between any two callbacks; a flow has a target exactly when its step
  is not idle; nothing is left of an ended flow. Every way out of a flow clears
  them one by one.
- `OneAnswerEach`: the answers given to a request are the times it reached a
  handler, minus one while it is under way. It counts every path through both
  flows, including a decommission and an adoption ending in each other's events.
- `AdoptedNodeSurvives`: a node answered with ok leaves the database only by its
  own decommission. `prov_finish_ok` leaves `s_prov_target_addr` at that node, and
  the failure of a later flow deletes whatever `s_prov_target_addr` names.
- `OkNamesDeviceUnlessStale`, `OkConfiguredUnlessMixed`, `DecomOkWipedNode`: an ok is
  true of the sensor: the right one, fully configured, or really wiped. Nothing in an
  event says which flow it belongs to, so none of them is true without exception when
  requests overlap. The first excepts a flow that started `stale`, the second also one
  that is `mixed`, the third a decommission that started with an earlier one's reset
  open (`earlier`) and the reset of a cleanup that failed to delete its node. They say
  that nothing else makes an ok false, whatever overlaps. TLC finds each property violated
  when one of its exceptions is taken out; the two of the third need a second
  decommission and failing deletions, which `OutcomesDecom.cfg` (MCOutcomes) has.
- `NoStrayNode`: no callback leaves a node in the database that is neither
  announced nor being adopted; only a power cut does. `BerthGoesWithNode`: a node
  that is dropped takes its berth with it.
- `EveryAdoptionEnds`, `EveryDecommissionEnds`: liveness of both flows.
- `AnsweredOnce`, `FlagsAgree`, `AdoptedStays`: the same three concerns where tasks
  interleave. The busy test, `s_inflight`, the flow's flag and its callback are written by
  three tasks without a lock; what orders them is only which is written last.
- `OneRecordPerAddr`, `OneRecordPerBerth`, `CountsOccupied`: the table after any
  sequence of records, evictions, forgets, failed saves and loads.
- `OkIsDurable`: a record call that returned `ESP_OK` is in flash until the next
  call, whatever loads and reboots come between. `BootKeepsMappings`: a load, of
  either layout, changes no mapping. `ImplementsBerthMap`: every step
  of the slots is a step of the map.
- `PairedAsRecorded`: the berth and the node id of a publication come from one
  record although they are two lookups. `RoutedAsBackendBelieves`: a publication
  whose sender has a row at the backend goes to the berth of that row, through hot
  swaps, decommissions, failed adoptions, power cycles and a wiped gateway. It excludes
  the berths whose last record or answer was lost (the code logs both and goes
  on), and says that the others are not touched by it.
- `ReadyMeansConfigured`, `PublishFindsConfiguration`: a ready sensor has its whole
  configuration in flash or its reset under way; when the main task publishes, the model
  is bound, as long as the sensor is in the network. That the message is then sent is not
  promised: the code drops the result.
- `HalfConfiguredEnds`, `ConfiguredBecomesReady`: a sensor does not stay between
  the two. `HeldButtonWipes`: a held button wipes it, whatever state it is in.
- `LightIsVerdict`: the light is red exactly after enough frames in a row, never
  both colours, never dark. `SilentRadarRecovers`: the failure count reaches its
  threshold again and again until the radar reports. `BoatIsReported`: with a boat
  that stays, the last status sent ends up, and stays, "occupied", although
  publications fail: it is the next interval's that makes up for them.
- `FaultsCostOneWindow`: a byte that is lost or damaged, or a header in the middle of a
  body, costs the parser no more whole frames than one window can hold, although
  a resync throws away what may hold the next headers: `(MAX_FRAME + 8) \div 13` bare
  reports, which is five with the code's 64 bytes. Without a fault the first whole frame is
  returned. `SampleIsLatest`: a sample is the measurement the radar has just finished sending,
  neither put together from two frames nor left over from before the call. A frame has no
  checksum, so this excepts a window that was opened by other bytes than a header,
  that holds a damaged byte, or that lacks two or more: such a sample may be wrong.
  TLC finds one in this run for a damaged byte; and for the other two with reports that
  the run does not have, five gates that spell a header with a length, and a state byte
  that is the length less two. `PublishedAsMeasured`: the JSON has the measured values,
  in their units and their order. `TypeOK` of Telemetry has the bounds of the
  parser's buffer.
- `ConnectedIsServed`: once the CONNECTED handler is done, a live session is
  subscribed to all that was asked for and announced online, although
  `dp_gateway_mqtt_subscribe` tests the bit and the handler reads the pending list
  in different tasks. It excepts what was refused on this session, and the topic that
  is being asked for at the moment. `HeardHasHandler`: no topic is heard before its callback is
  registered. `GatewayComesBack`: after the last trouble it is served for good, but for what
  was refused, unless the two tasks wait for each other's lock: it says that nothing else
  keeps the gateway away.

Every module with state has one type invariant. Each property of each passing run has
a mutated definition in its module, marked "Mutant", with which that run
fails (`PROJECT.json`, `mutants`): a bug of that kind in the code would be seen.

The runs that are expected to fail are in
[section 7](#7-where-the-code-disagrees-with-what-is-said-of-it).

## 4. Fairness

- `Gateway!LiveSpec`: `ProvTimeout` (the ttl is an `esp_timer` armed with every
  flow), `OnEvent` (the stack's task delivers what is queued) and `NoAnswer` for
  each address (`msg_timeout` bounds every message: 8 s for configuration, 1 s
  for a reset). Nothing is assumed of the sensors, the radio, the broker or the
  backend.
- `Sensor!LiveSpec`: the main task, the BTC task (boot and restart included), the
  watchdog timer and the button task run (weak fairness of each). Strong fairness of
  `ReadFrame`, `ReadFailsAgain(TRUE)` and `PublishStatus(TRUE)`: a radar that keeps
  reporting gets a frame through in the end, and so does a command, or a status, that is
  sent again and again. For a status this is an assumption about the stack; the sensor
  makes no other effort. Nothing is
  assumed of the gateway, which may stop in the middle of a configuration, nor of
  the boat, the button and the power, except where a property names it
  (`<>[]inRange`, `<>[]pressed`, no more power cuts).
- `Broker!LiveSpec`: the main task, the MQTT task, the 15 s wait of the boot, and
  that an access point in reach is joined in the end (`OnGotIp`). Troubles are
  bounded by `MaxTrouble`, so that `<>[]Served` says "after the last trouble".

## 5. Bounds and abstractions

Bounds that are not in the code: `MaxQueue` (events a stack may hold: two to four,
when a step queues at most two and a flow has one message out; further link
openings wait), `MaxDeliveries` (how often a request reaches a handler), `MaxTrouble`,
`MaxFlight` (messages in the air), `MaxDamage` (bytes lost or damaged in one call).
Code constants are made smaller where only the last step differs from the ones before:
`CFG_MAX_ATTEMPTS` and `DECOM_MAX_ATTEMPTS` 2 for 3, `DP_PROV_MAX_RECORDS` 2 for
16, `WIFI_MAX_RETRY` 2 for 5, `PROX_FRAMES` 2, `RECOVERY_THRESHOLD` 2 for 10, two polls
of the button, two gates for 16 with a buffer of 40 bytes, which holds three bare reports,
and a FIFO of 4. With 2 there is
a first attempt, a retry and a giving up; two slots for three addresses fill up; two
frames make a streak that can be broken.

`GatewayLive` has one sensor, one address, two adoptions (one names no berth) and a
decommission: the flows of a single sensor already meet each other's events.
`GatewayTruth` has two sensors and two addresses, so that addresses are reused and the
wrong sensor can be hit, and a request that is malformed. `DpProv` has three
addresses, three berths, two node ids and two slots, under symmetry of addresses
and of berths. `Uplink` has two sensors, three addresses, two berths and two slots, so
that both sensors can be adopted twice and the table can be full; one sensor's
bench index names a berth the backend also assigns. `ProvTasks` has three adoptions, the
least with a flow that ends, one that runs and one that comes. `Telemetry` has a
boat, an empty berth in a report without gates, and a target at the end of the range
whose gates spell a header; a call may have two faults, each a byte lost or changed into the
last byte of a header or into a length that spans two reports, anywhere in the frame. `Outcomes` has two
sensors that contend for one address, two adoptions and a decommission: the least with
which another sensor's events, an address that is used again, and a decommission beside a
flow all occur.

`OneAtATime` restricts the backend: a request comes only when the gateway is
quiet, with no event, message or link of an earlier request left. `GatewayTruth`
holds under it. Without it each of its three properties fails: a request meets what an
earlier flow left, or an address is decommissioned while it is being adopted.
`Outcomes`, `GatewayLive`, `ProvTasks` and the theorems about what an ok says, about agreement
and about answers do without it.

`Faults` names what may go wrong in a run. What the passing runs leave out:

- sensors that leave by themselves, in `GatewayTruth`: one that resets itself in the
  middle of a flow beacons under a match that is still armed, is provisioned again by the
  same flow, and the node of its first life stays behind or takes a berth along. Then
  `AdoptedNodeSurvives` and `BerthGoesWithNode` fail. `Outcomes` and `GatewayLive` have
  such sensors;
- deletions that fail, in `GatewayTruth`: the node stays, and `NoStrayNode` says nothing
  about that;
- a node reset that cannot be sent, in `GatewayLive` (`GatewayStuckDecom.cfg` has it);
- a power cut in the middle of a configuration, in `Sensor` (`SensorStaysHalf` has it);
- failing reads of the table, in `DpProv` (`DpProvReadError.cfg` has them);
- in `ProvTasks`, `"ttl"` (`ProvTasksTtl` has it): the ttl expires while the BTC task is
  between its test of the flag and the lowering of it (`dp_mesh_provisioner.c:399-403`
  and `:440-445`). A ttl that expires anywhere else in a callback is in the run;
- in `ProvTasks`, `"window"`: another task works while the request handler has raised the
  flag and not yet blanked the rest (`:611-617`), or ends the flow before the handler's match
  call fails. Then a request may stay in flight unanswered, or an adopted node be deleted, since
  `prov_finish_ok` leaves `s_prov_target_addr` behind. The window is a few instructions
  wide, without a call that blocks.

What is abstracted:

- In Gateway a callback runs to its end before the next one; ProvTasks takes them apart.
  Its scheduling is that of one core (ESP32-C3) with the timer's task above the BTC
  task above the MQTT client's. A step there is a group of statements without a
  blocking call.
- Progress messages, error codes, `dev_key_fp`, topics and logging are left out.
  An answer is its request, its status and its address.
- Requests are ids; what they name is constant. A request without `req_id`, or
  with JSON that does not parse, is dropped by the code with no change of state
  and is not in the model. A malformed uuid or oob is (`BadReqs`).
- The berth table is loaded when requests arrive: a load that fails leaves the map
  as it was, which DpProv covers.
- The database never refuses a free address, and a deletion that fails changes
  nothing. The deletion of an absent node counts as done, as the code has it
  (`ESP_ERR_NOT_FOUND`).
- The uuid match is set and cleared by a call that takes effect at once; arming
  may fail (`"start"`), clearing does not.
- A node that refuses a message answers with an error the code sees as `err != 0`.
- In SensorNode and Sensor the sensor is not provisioned again while the event of its last
  reset is queued: the factory reset that event causes takes far less than a
  provisioning.
- In Sensor a frame is whether its target is in range, and time is counted in rounds of
  the loop. The acknowledgement of the radar's mode change is read and only logged
  by the code, and is left out.
- In Uplink the stack never hands an address out twice unless the gateway's flash was
  erased, and messages under the network's keys (constants of the firmware) are
  taken whoever sends them. A status and a diag are not told apart.
- In RadarReader any byte may be damaged, in a body too. A call reads as fast as bytes
  come. A sample's `target_state` is kept as its byte.
- In Telemetry the mesh delivers at once; the wallclock stamp and the topic are left out.
- In Broker the last will is published when the session ends, and an attempt to
  connect to a broker is always answered.

## 6. What is proved

Eight modules hold theorems. Each speaks of every value of its module's constants: any
sets of sensors, addresses, berths and requests, any bounds, any set of faults unless
the theorem names a condition. What they rest on are the named `ASSUME`s of the modules
(null values are outside the sets they are null of, requests name devices and berths,
attempts are positive, buffers are long enough for a
frame and their size fits a byte), which TLC evaluates in the runs.

| module | theorems | condition |
|---|---|---|
| `GatewayProofs` | `Invariance`, `TypeCorrect`, `FlowAgrees`, `AnsweredOnce` | none |
| | `HistoryIsAlong`, `OutcomeInvariance`, `OkNamesDevice`, `OkIsConfigured`, `DecomOkIsTrue` | none |
| | `StepsAreTrue`, `AdoptedSurvives`, `BerthGoesAlong` | `Alone` |
| | `NoNodeStrays` | `Alone`, no failing deletion |
| `UplinkProofs` | `Invariance`, `TypeCorrect`, `Paired`, `Routed` | none |
| `DpProvProofs` | `TableInvariant`, `TypesKept`, `AddrsUnique`, `BerthsUnique`, `CountsKept`, `OkStaysOnFlash` | none |
| | `TableIsMap`, `BootKeeps` | no failing read |
| `SensorProofs` | `SensorTypes`, `LightShowsVerdict` | none |
| | `ReadyIsConfigured`, `PublicationsFindConfiguration` | no power cut in a configuration |
| `BrokerProofs` | `BrokerInvariant`, `BrokerTypes`, `ServedWhenConnected`, `HeardIsHandled` | none |
| `CodecProofs` | `StatusRoundTrip`, `DiagRoundTrip` | none |
| `TelemetryProofs` | `TelemetryInvariant`, `TelemetryTypes`, `MeasuredIsPublished`, `SamplesAreLatest`, `FaultsCostFewFrames` | none |
| `ProvTasksProofs` | `TasksInvariant`, `TasksTypes`, `RequestsAnsweredOnce`, `FlagsStayTogether`, `AdoptionsStay` | `Calm` |

Every condition is one that TLC shows to be needed, or that the text below accounts for.

### GatewayProofs: agreement and answers

**The inductive invariant** is `IInv == TypeOK /\ FlowAgreement /\ DecomAgreement`.
`TypeOK` alone is not inductive: an answer is typed only if the flow that is ended
has a request, which `FlowAgreement` says; and a decommission's answer only if an
active `decom` has a request and an address, which `DecomAgreement` says.
`FlowAgreement` alone is not inductive either: a configuration event advances a flow to
a step whose range comes from the types. TLC checks both in `GatewayLive`.

**The argument.** A callback either ends a flow (lemmas `FinishErrEnds` and
`FinishOkEnds`: whatever it was, `Ended'` holds, and `Ended` implies the agreement)
or keeps it, with its request and its match (`FlowSendsOn`, `AdvanceGoesOn`,
`RedoGoesOn`). Decommissions do not touch the flow (`DecomEnds`). For the answers,
the lemmas speak of *books*: `Books` says what a step did to `answers` and to what
is under way, and `BooksBalance` that any such step keeps `OneAnswerEach`. Then
there is one lemma per action, and `StepKeeps` puts them together.

### GatewayProofs: what an ok says

`OkNamesDevice`, `OkIsConfigured` and `DecomOkIsTrue` are theorems of `Outcomes`: for a
backend that sends what it likes when it likes, sensors that leave, and any faults.
`HistoryIsAlong` is `HSpec => Spec`, so that `IInv` may be used. What they except is in
the properties, as a fact about the history, and not in a condition on the constants.

**The inductive invariant** is `IInv` with `OutcomeInv`, of three parts:

- `NamesInv`: in a flow that did not start stale, every open link is to the sensor the
  flow asked for, and every node it has been or will be given is that sensor;
- `ConfigInv`: a flow that is not mixed either waits for one thing at a time (`Waits`):
  the complete of its sensor, then the one answer to its current message, whose
  acknowledgement means that the sensor has applied it or has left;
- `ResetInv`: the resets under way, by who sent them. The node of a cleanup's reset was
  deleted, so it cannot be the sensor the database has; the acknowledgement of a reset of
  the decommission's own says that a sensor has left its address.

`on_cfg_client` compares neither address nor step, and `handle_prov_event` no uuid, so
none of this is in the code's tests; it follows from what may be under way when a flow
starts. For a flow that goes on the proof sorts the steps by what they do to the queue and the
messages (a flow starts, something happens apart from it, it takes its turn, the stack
moves), with one lemma for each kind, and shows of each action which kind it is.

The remaining theorems say what is not true of overlapping requests. They assume
`Alone == OneAtATime /\ "leave" \notin Faults`: the backend sends one request at a time
and no sensor leaves the mesh by itself. TLC finds `AdoptedNodeSurvives`,
`BerthGoesWithNode` and `NoStrayNode` violated without the first half, and the first two
without the second; `NoStrayNode` was not seen to need it, but shares their invariant.
That invariant is `IInv` with `TruthInv`, six parts that tie the queue of events
and the stack's database to the flow:

- `LinkInv`: a sensor whose link is open, or that is blank while its match is armed, is
  not in the database;
- `NodesInv`: nodes that were announced, and nodes whose complete is still to come, are
  in the database, and no address is completed twice;
- `FlowInv`: the flow's target is the sensor of its request, not yet announced, and the
  sensor has applied at least what the steps behind it configured;
- `AnswerInv`: at most one answer to a configuration message is to come, it belongs to
  the current step, and an acknowledgement means that the node has applied it;
- `DecomInv`: during a decommission nothing else is under way, pending messages are
  resets, and the acknowledgement of one means that the node has left;
- `DownInv`: while the mesh is down nothing is under way.

`Truths` states, for one step, the three properties and what the oks say without
exceptions. There is one lemma per action (`ProvisionTruth`, `StackTruth`,
`CallbackTruth`, `TimeoutTruth`, ...), `StepTruth` combines them, and `StepsAreTrue` is
the temporal result the three theorems follow from.

### UplinkProofs

**The inductive invariant** adds five parts to the types and the pairing.
`Sources` and `RecordedWasHandedOut` say where messages and records come from.
`TablesAgree`: where the backend believes something of an address, the table has it,
in RAM and in flash, so that a reboot keeps it. `FlowIsFresh`: the address of an
adoption under way is new, with nothing recorded for it and nothing believed of it.
`LookupsHold`: what the first lookup found is still what is recorded when the second is made.
`PairedAsRecorded` is not inductive without the last two. Between the two
lookups the ttl may end an adoption and forget its address, outside of the BTC task; it
touches no record a message is read from only because that address is new.
Everything else that changes the map runs in the BTC task, which is busy, or is a power
cycle or a wipe, which ends what the task was doing.

### DpProvProofs, and the refinement

**The inductive invariant** is `TypeOK`, the table in RAM is `Good` (typed, one record per
address, one per berth, the exact count), the blob on flash is well formed, and
`OkIsDurable`. The blob needs its part because a load makes it the table. The lemmas
follow the code: what emptying slots leaves (`ClearGood`), that the slot search finds at
most one slot of an address (`HoldingIsOne`), what a record call puts into the slot it
found. Cardinalities come from the library's theorems about finite sets.

**The refinement.** `TableIsMap` proves `Spec => ImplementsBerthMap`: the initial states
map to initial states of `BerthMap`, and each step of the table is one step of the map or
none. An evicted berth, a failed save that leaves RAM and flash apart, and a v1 blob that
is migrated on the first load are the interesting cases. `BootKeeps` proves
`BootKeepsMappings`. Both assume `"read" \notin Faults`; the run `DpProvReadError` shows
that a failed read is taken for an empty table, so neither holds without it.

### SensorProofs

**The inductive invariant** is `TypeOK` with `NodeInv`, `MainInv`, `StreakInv` and
`LegsInv`. The bound on the BTC task's queue, which is part of `TypeOK`, needs `NodeInv`:
a boot sees at most one `PROV_COMPLETE`, it is the first in the queue, so the watchdog is
armed at most once and its reset finds a place. The light needs `StreakInv` (the streak
counts the verdicts at the end of `recent` that say "in range") and `LegsInv` (the LED's
legs follow the streak, except between the two writes).

`CInv` adds `ConfiguredInv`: ready, or about to be, means fully configured or reset. It is
inductive only if `"reboot-in-cfg" \notin Faults`, the condition of `ReadyIsConfigured`
and of `PublicationsFindConfiguration`: after a power cut in the middle of a configuration
`dp_mesh_init` takes the sensor for a ready one, as the run `SensorStaysHalf` shows.

### BrokerProofs

**The inductive invariant** is `TypeOK`, that the boot is at one of its seven steps
(`BootInv`), `SessionInv` and `SubsInv`. `SessionInv` says what the CONNECTED handler has
behind it: the bit is set before the pending topics are applied, so that a topic asked
for later is sent by the caller, and one asked for earlier by the handler. Set the other
way round, a topic asked for in between would be sent by neither. In the meantime a topic is
in `Asking`: its caller has tested the bit, or is about to, and has not called the client
yet; and what was refused is in `refused` until the session ends. `ClientLocks` may have either
value: the deadlock stops the gateway and breaks no invariant.

### CodecProofs and TelemetryProofs

`CodecProofs` proves that unpacking inverts packing, for every value of every field's
width and any number of gates: the bytes of a word by division and remainder, then one
step per field, then the sequence's places.

`TelemetryProofs` uses both. **The inductive invariant** has `ParserInv` (how much of a
frame is in the buffer in each of the parser's states: `TelemetryTypes`, that it stays
within `MAX_FRAME`, needs it), `LineInv` and `CallInv` (bytes, lengths, the reader's
counters), and `PublishedInv` (what was published is the last sample, packed and
unpacked). `MeasuredIsPublished` says of the distance in millimetres only that it is right
when it fits its 16 bits, which hold 65 m; the radar reaches 11 m.

The other two theorems are about the parser and the line, for any reports, any bytes
in them and any number of faults.

For `SamplesAreLatest` the invariant is `IInv` with `WindowInv`: a window is `"sound"` when it was
opened by a header and nothing has happened to it since, and then the parser is `InStep`,
having read the frame on the line so far and nothing else; it is `"short"` when it
then lost one byte, and then it is `Short` of just that byte, so that what should be the
end of the tail is the start of the next frame and no sample is returned; and it is
`"spoiled"` otherwise.

For `FaultsCostFewFrames` it is `IInv` with `MissInv`, an account. A fault allows
`FramesPerWindow` frames (`Allowed`); a window that is not sound was opened, or came to
be so, by a fault, and for every whole frame that goes by it must have taken in at least the 13
bytes of a bare report (`Spent`). When the window is dropped, at `MAX_FRAME` bytes at the
latest, no more frames have gone by than its fault allowed, counting the frame on
the line, whose header it may have swallowed (`Late`).

### ProvTasksProofs

Here the statements of three tasks interleave. **The inductive invariant** has the types,
where each task can be (`Places`), what it knows there (`TasksInv`, `StepInv`,
`LocalInv`), how the flags of the two components go together (`FlagInv`), and which
requests, addresses and nodes have been used (`AnswerInv`, `AddrInv`, `AdoptedInv`).
There is one lemma per task and place.

The condition is `Calm == HandlersLocked /\ "window" \notin Faults /\ "ttl" \notin Faults`.
The first is how the MQTT client calls its handlers, which the module's text explains.
The other two take out two races that the code leaves open, and in which the three
properties are false of it, as TLC finds with either one:

- the ttl expires between the BTC task's test of the flag and the lowering of it: both
  ends of the flow run, a request is answered twice and an adopted node deleted
  (`ProvTasksTtl` shows it);
- another task works between the flag of `dp_mesh_provisioner.c:611` and the lines that
  clear the flow, or ends the flow before the match call of the handler fails.

Everything else is in the theorems: the ttl may expire within a callback, at every
place before the test of the flag and after its lowering, in the progress messages and the
sends that block there; sends and starts fail, and tasks are preempted at every statement.

### Left to TLC

- Liveness: `EveryAdoptionEnds`, `EveryDecommissionEnds`, `HalfConfiguredEnds`,
  `ConfiguredBecomesReady`, `SilentRadarRecovers`, `BoatIsReported`, `HeldButtonWipes`,
  `GatewayComesBack`. Fairness and `ENABLED` are out of this prover's reach.

## 7. Where the code disagrees with what is said of it

Each of these runs checks one property, which a document or a comment of the
repository states, and TLC finds a behaviour of the code that breaks it.
`PROJECT.json` (`findings`) quotes the lines.

| run | what happens |
|---|---|
| `GatewayWrongDevice` | A flow times out with its link still open. The next flow starts, the old sensor's PROV_COMPLETE arrives, and it is configured, recorded for the new request's berth and answered ok: `handle_prov_event` does not compare the uuid. |
| `SensorStaysHalf` | Power lost between provisioning and PubSet: after the restart the sensor says it is ready, beacons no more, cannot publish, and no watchdog is armed. |
| `ProvTasksTtl` | The ttl expires while the BTC task waits for the broker in the last progress message of a flow that has succeeded: `prov_finish_err` runs beside `prov_finish_ok`, the request is answered twice, and the adopted node is deleted. |

The first needs a request that overlaps with what is left of an earlier flow, that
is, a backend that sends the next request as soon as it has an answer.

More configurations of the same modules show other disagreements. They are not among the
runs of `PROJECT.json`; TLC finds each of them violated:

| configuration | what happens |
|---|---|
| `GatewayStuckDecom.cfg` (MCGateway) | The stack refuses a node reset (out of buffers): no event comes, no timer runs, `s_decom.active` stays, and every later decommission is refused until the gateway restarts. |
| `SensorWatchdog.cfg` (Sensor) | The watchdog expires after the stack has stored the publication and before the BTC task delivers the event: `post_prov_timer_cb` finds `s_ready_fired` clear and resets a sensor whose configuration has finished. |
| `GatewayUnconfigured.cfg` (MCGateway) | A late acknowledgement of the old flow advances the new one by a step its node has not seen; it ends ok without its publication set and never reports. `on_cfg_client` looks neither at the address nor at the opcode. |
| `DpProvReadError.cfg` (MCDpProv) | One failing read of the table at boot counts as an empty table, and the next record overwrites the good one. |
| `UplinkHotSwap.cfg` (MCUplink) | `docs/architecture.md:91` says that after a swap "the new node takes over publishing": the old sensor, whose record the swap evicts, goes on publishing for the same berth when its bench index names it. |
| `UplinkWiped.cfg` (MCUplink) | After the gateway's button an old sensor publishes under an address that has been handed out again, and the backend's cross-check (`dp_gateway.c:142-143`) cannot tell. |

Other behaviours of the models that a comment or a document does not lead one to expect:

- An answer of an ended flow, when it is an error, ends the next flow before it has
  sent anything (`dp_mesh_provisioner.c:110` says stray events of other flows are
  ignored), and the answer to the reset `prov_finish_err` sent is taken for a
  decommission's (`:109`).
- Power lost in a flow leaves its node in the database, and its sensor is
  "already-provisioned" from then on (`:452-453` is about the other ways out).
- `on_prov_done` drops the result of `dp_prov_record_node`: the answer is ok though
  the mapping may not be written (`docs/architecture.md:81-83`). An answer that is published while the
  broker is away is gone (`dp_gateway_mqtt.c:223-230`).
- The first progress message of a flow ("started") is published in the MQTT client's
  task, where `dp_mesh_provisioner.c:29` says "always called from mesh-stack threads".

Outages longer than the Wi-Fi retries (`LongOutages = TRUE` in Broker) take the
gateway off the network until it is power-cycled: after `WIFI_FAIL_BIT` nothing
calls `esp_wifi_connect` again. A reconnect that falls between the lock of
`dp_gateway_mqtt_subscribe` and its call of the client (`dp_gateway_mqtt.c:141-153`) leaves both
tasks waiting for ever, if the client holds its lock while it runs its handlers. A
subscription the client refuses on a live session is only logged (`:55`, `:153`), and the
gateway deaf to it until it reconnects. A publication the sensor's stack refuses is gone
(`dp_mesh.c:100`, `sensor_main.c:128`). No document says otherwise, so these are hazards
and not runs.

## 8. What is not modelled

- `dp_mesh_gateway_delete_node`: nothing calls it.
- The factory partition (`dp_prov_get_static_oob`, `dp_prov_get_dev_uuid`), the status
  LED's blink patterns, BLE host start, element tables, the set-up of UART, ADC and
  pins, TLS, rendering of topics: input and output with no control state the properties
  could be about.
- The two builds without a device: the fake radar, and the uplink stub, which prints
  instead of publishing.
- The window between setting the role and starting the stack in `dp_mesh_init`
  (`dp_mesh.c:228`): what an uninitialised stack answers is not in the repository.
- The length of topics (`dp_gateway_mqtt.c:146`).
- `docs/troubleshooting.md` describes `register_phantom_peer()` in `dp_mesh.c`; no such
  function is left in the code, so there is nothing to model.
- Build, flash and bench scripts in `tools/`.

## 9. Plan

Done in this order, the most important first: BerthMap and DpProv; MeshStack,
Replies, Provisioner, Gateway; the first proofs about Gateway; SensorNode; Broker; Uplink;
Sensor; Codec with its proofs, RadarReader, Telemetry; ProvTasks; the proofs about
Uplink, DpProv, Sensor, Broker, Telemetry, ProvTasks; the action properties of Gateway; Outcomes.
Next:

1. **Network**: Gateway with SensorNode in place of MeshStack's abstract sensors,
   and Broker in place of `online`; the abstract sensors and `online` as
   refinements of them.
2. ProvTasks with decommissions.

## 10. Running it

```
tlc -workers 2 -config GatewayTruth.cfg MCGateway.tla
tlc -workers 2 -config Outcomes.cfg MCOutcomes.tla
tlc -workers 2 -config DpProv.cfg MCDpProv.tla
tlc -workers 2 -config Sensor.cfg Sensor.tla
for m in Gateway Uplink DpProv Sensor Broker Codec Telemetry ProvTasks; do
  tlapm ${m}Proofs.tla
done
```

`PROJECT.json` lists the runs with their modules and what they are expected to
show. `DpProv`, `Sensor` and `Telemetry` check for deadlock. The runs of Gateway, Outcomes,
`ProvTasks`, `Uplink` and `Broker` do not, because there the system may really
stop: a backend has a finite number of requests, a stack without a wipe a finite number of
addresses, and a gateway that has answered them, or one that is connected and has seen
its last trouble, has nothing left to do. `Broker` also stops in the deadlock of
[section 7](#7-where-the-code-disagrees-with-what-is-said-of-it), which
`GatewayComesBack` names.
