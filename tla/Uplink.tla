-------------------------------- MODULE Uplink --------------------------------
(***************************************************************************)
(* The way of a status (or diag) from a sensor to a topic of the broker:   *)
(* handle_model_op, on_status, dp_gateway_uplink and render_berth_id, over *)
(* the berth map, while sensors are adopted, swapped and decommissioned    *)
(* and the backend keeps its own rows of who serves which berth.           *)
(*                                                                         *)
(* Messages, records and the forgetting of a decommission are all handled  *)
(* in the BTC task, one callback at a time; a flow that ends by its ttl    *)
(* forgets its address in the timer task.  The handling of a message is    *)
(* taken apart at its two lookups of the map.  The stack hands out a       *)
(* unicast address once.  A status and a diag take the same way and are    *)
(* not told apart here; their contents are in Telemetry.                   *)
(***************************************************************************)
EXTENDS BerthMap

CONSTANTS
  Sensors,
  None,
  FallbackOf,   \* the berth the index in a sensor's messages stands for
                \* (BERTH_ID_FORMAT and SUFFIXES), None outside of 1..12
  Asked,        \* what the backend's requests name: a berth and a node id, or
                \* NoEntry when they name no berth
  NoNode,       \* node_id "": the backend sent none
  BenchNode,    \* "node-NNN"
  MaxFlight,    \* bound on the messages in the air, not in the code
  Faults        \* subset of FaultNames

FaultNames == {"broker",   \* an answer finds the broker away
               "reboot",   \* the gateway loses power
               "nvs",      \* a save of the table fails
               "button",   \* a sensor's button is held
               "wipe"}     \* the gateway's button is held

ASSUME SensorsAssumption == FallbackOf \in [Sensors -> Berths \cup {None}]
ASSUME AskedAssumption == Asked \subseteq Entry \cup {NoEntry}
ASSUME NodesAssumption == NoNode \in NodeIds /\ BenchNode \notin NodeIds
ASSUME FlightAssumption == MaxFlight \in Nat
ASSUME FaultsAssumption == Faults \subseteq FaultNames

VARIABLES
  addrOf,      \* the unicast address of each sensor, once it has one
  publishing,  \* the sensors that are ready
  nodeDb,      \* the sensor the stack of the gateway keeps for an address
  handedOut,   \* the addresses the stack has given away
  flow,        \* the adoption under way: its sensor, address and entry
  rows,        \* the backend's rows: the berth each address serves
  doubtful,    \* history: berths whose last adoption left no record in flash,
               \* or whose answer was dropped, or whose record was wiped since
  air,         \* messages of sensors on their way, with their source address
  task         \* the BTC task in dp_gateway_uplink: its local variables, and
               \* the entry the berth was read from

sensorVars == <<addrOf, publishing>>
backendVars == <<rows, doubtful>>
controlVars == <<nodeDb, handedOut, flow>>
wayVars == <<air, task>>
vars == <<mapVars, sensorVars, backendVars, controlVars, wayVars>>

NoFlow == [sensor |-> None, addr |-> None, entry |-> NoEntry]
Idle == [at |-> "idle", from |-> None, src |-> None,
         berth |-> None, node |-> None, of |-> NoEntry]

Nodes == NodeIds \cup {BenchNode}
Entries == Entry \cup {NoEntry}

TypeOK ==
  /\ MapTypeOK
  /\ addrOf \in [Sensors -> Addrs \cup {None}]
  /\ publishing \subseteq Sensors
  /\ nodeDb \in [Addrs -> Sensors \cup {None}]
  /\ handedOut \subseteq Addrs
  /\ flow \in [sensor : Sensors \cup {None}, addr : Addrs \cup {None}, entry : Entries]
  /\ rows \in [Addrs -> Berths \cup {None}]
  /\ doubtful \subseteq Berths
  /\ air \subseteq [from : Sensors, src : Addrs] /\ Cardinality(air) <= MaxFlight
  /\ task.at \in {"node", "publish"} => task.berth # None   \* the topic has a berth
  /\ task \in [at : {"idle", "berth", "node", "publish"}, from : Sensors \cup {None},
               src : Addrs \cup {None}, berth : Berths \cup {None},
               node : Nodes \cup {None}, of : Entries]

Init ==
  /\ berths = NoMap /\ savedBerths = NoMap
  /\ addrOf = [s \in Sensors |-> None]
  /\ publishing = {}
  /\ nodeDb = [a \in Addrs |-> None]
  /\ handedOut = {}
  /\ flow = NoFlow
  /\ rows = [a \in Addrs |-> None]
  /\ doubtful = {}
  /\ air = {}
  /\ task = Idle

(* The BTC task runs one callback at a time.                               *)
BtcFree == task.at = "idle"

-----------------------------------------------------------------------------
(* Adoption and decommission, as far as the map and the sensors go; their  *)
(* steps are in Provisioner and Gateway.                                   *)

(* A sensor the database does not hold is provisioned, at an address       *)
(* nobody had before.                                                      *)
Joins(s, a, e) ==
  /\ BtcFree
  /\ flow = NoFlow
  /\ addrOf[s] = None /\ \A x \in Addrs : nodeDb[x] # s
  /\ a \notin handedOut
  /\ addrOf' = [addrOf EXCEPT ![s] = a]
  /\ nodeDb' = [nodeDb EXCEPT ![a] = s]
  /\ handedOut' = handedOut \cup {a}
  /\ flow' = [sensor |-> s, addr |-> a, entry |-> e]
  /\ UNCHANGED <<mapVars, publishing, backendVars, wayVars>>

(* Its publication is set: it is ready before the gateway knows.           *)
BecomesReady ==
  /\ flow # NoFlow
  /\ addrOf[flow.sensor] = flow.addr /\ flow.sensor \notin publishing
  /\ publishing' = publishing \cup {flow.sensor}
  /\ UNCHANGED <<mapVars, addrOf, backendVars, controlVars, wayVars>>

(* The backend's rows when it hears of an adoption: the row of the berth   *)
(* is replaced.                                                            *)
RowsWith(a, b) ==
  [x \in Addrs |-> IF x = a THEN b ELSE IF rows[x] = b THEN None ELSE rows[x]]

(* on_prov_done: the answer is ok whatever the record's fate, and dropped  *)
(* when the broker is away.                                                *)
AnswersAdoption(b, recorded) ==
  \/ /\ rows' = RowsWith(flow.addr, b)
     /\ doubtful' = IF recorded THEN doubtful \ {b} ELSE doubtful \cup {b}
  \/ /\ "broker" \in Faults
     /\ UNCHANGED rows
     /\ doubtful' = doubtful \cup {b}

Adopted ==
  /\ BtcFree
  /\ flow # NoFlow /\ flow.sensor \in publishing
  /\ LET e == flow.entry
     IN \/ e = NoEntry /\ UNCHANGED <<mapVars, backendVars>>
        \/ e # NoEntry /\ RecordSaved(flow.addr, e) /\ AnswersAdoption(e.berth, TRUE)
        \/ /\ e # NoEntry /\ "nvs" \in Faults
           /\ RecordUnsaved(flow.addr, e) /\ AnswersAdoption(e.berth, FALSE)
        \/ e # NoEntry /\ RecordRefused(flow.addr, e) /\ AnswersAdoption(e.berth, FALSE)
  /\ flow' = NoFlow
  /\ UNCHANGED <<sensorVars, nodeDb, handedOut, wayVars>>

(* A sensor that hears the node reset wipes itself; one that does not goes *)
(* on publishing.                                                          *)
Wiped(s) ==
  /\ addrOf' = [addrOf EXCEPT ![s] = None]
  /\ publishing' = publishing \ {s}

HearsReset(a) ==
  \/ \E s \in Sensors : addrOf[s] = a /\ Wiped(s)
  \/ UNCHANGED sensorVars

Forgets(a) == ForgetSaved(a) \/ ("nvs" \in Faults /\ ForgetUnsaved(a))

(* prov_finish_err, in the BTC or the timer task.                          *)
FlowFails ==
  /\ flow # NoFlow
  /\ HearsReset(flow.addr)
  /\ nodeDb' = [nodeDb EXCEPT ![flow.addr] = None]
  /\ Forgets(flow.addr)
  /\ flow' = NoFlow
  /\ UNCHANGED <<handedOut, backendVars, wayVars>>

(* decom_local_cleanup_and_finish; the backend has dropped its row when it *)
(* asked for it.                                                           *)
Decommissioned(a) ==
  /\ BtcFree
  /\ nodeDb[a] # None /\ flow.addr # a
  /\ HearsReset(a)
  /\ nodeDb' = [nodeDb EXCEPT ![a] = None]
  /\ Forgets(a)
  /\ rows' = [rows EXCEPT ![a] = None]
  /\ UNCHANGED <<handedOut, flow, doubtful, wayVars>>

(* The sensor's button, held.                                              *)
ButtonWipes(s) ==
  /\ "button" \in Faults
  /\ addrOf[s] # None
  /\ Wiped(s)
  /\ UNCHANGED <<mapVars, backendVars, controlVars, wayVars>>

-----------------------------------------------------------------------------
(* The way of a message.                                                   *)

(* dp_mesh_publish_status or dp_mesh_publish_diag of a sensor.             *)
Sends(s) ==
  /\ s \in publishing
  /\ Cardinality(air) < MaxFlight
  /\ air' = air \cup {[from |-> s, src |-> addrOf[s]]}
  /\ UNCHANGED <<mapVars, sensorVars, backendVars, controlVars, task>>

Lost(m) ==
  /\ air' = air \ {m}
  /\ UNCHANGED <<mapVars, sensorVars, backendVars, controlVars, task>>

(* handle_model_op, and on_status or on_diag: whatever the node database   *)
(* holds, a message under the network's keys is taken.                     *)
Receives(m) ==
  /\ BtcFree
  /\ air' = air \ {m}
  /\ task' = [Idle EXCEPT !.at = "berth", !.from = m.from, !.src = m.src]
  /\ UNCHANGED <<mapVars, sensorVars, backendVars, controlVars>>

(* Mutant: the bench index comes before the map.                           *)
BenchFirst(e, s) == IF FallbackOf[s] # None THEN FallbackOf[s]
                    ELSE IF e # NoEntry THEN e.berth ELSE None

(* render_berth_id: the map's berth, else the one the index in the message *)
(* stands for, else none.                                                  *)
RenderBerth(e, s) == IF e # NoEntry THEN e.berth ELSE FallbackOf[s]

(* Mutant: a message without a berth is published too.                     *)
NeverDrops ==
  /\ task.at = "berth"
  /\ LET e == berths[task.src]
     IN task' = [task EXCEPT !.at = "node", !.berth = RenderBerth(e, task.from), !.of = e]
  /\ UNCHANGED <<mapVars, sensorVars, backendVars, controlVars, air>>

(* Without a berth the message is dropped.                                 *)
LooksUpBerth ==
  /\ task.at = "berth"
  /\ LET e == berths[task.src]
         b == RenderBerth(e, task.from)
     IN task' = IF b = None THEN Idle
                ELSE [task EXCEPT !.at = "node", !.berth = b, !.of = e]
  /\ UNCHANGED <<mapVars, sensorVars, backendVars, controlVars, air>>

(* dp_prov_lookup_node_id, and the "node-NNN" of bench builds.             *)
NodeIdOf(e) == IF e = NoEntry \/ e.node = NoNode THEN BenchNode ELSE e.node

(* Mutant: the node id is looked up by the berth, not by the address.      *)
LooksUpNodeOfBerth ==
  LET e == IF \E a \in Mapped(berths) : berths[a].berth = task.berth
           THEN CHOOSE x \in {berths[a] : a \in Mapped(berths)} : x.berth = task.berth
           ELSE NoEntry
  IN /\ task.at = "node"
     /\ task' = [task EXCEPT !.at = "publish", !.node = NodeIdOf(e)]
     /\ UNCHANGED <<mapVars, sensorVars, backendVars, controlVars, air>>

LooksUpNode ==
  /\ task.at = "node"
  /\ task' = [task EXCEPT !.at = "publish", !.node = NodeIdOf(berths[task.src])]
  /\ UNCHANGED <<mapVars, sensorVars, backendVars, controlVars, air>>

(* dp_gateway_mqtt_publish: what task then holds is the publication.       *)
Publishes ==
  /\ task.at = "publish"
  /\ task' = Idle
  /\ UNCHANGED <<mapVars, sensorVars, backendVars, controlVars, air>>

(* A power cycle of the gateway: the mapping and the database are read     *)
(* from flash, a flow under way leaves its node behind.                    *)
Reboot ==
  /\ "reboot" \in Faults
  /\ RestoreMap
  /\ flow' = NoFlow
  /\ air' = {}
  /\ task' = Idle
  /\ UNCHANGED <<sensorVars, backendVars, nodeDb, handedOut>>

(* The gateway's button, held: its flash is erased, the stack counts its   *)
(* addresses from the first again, and neither the sensors nor the backend *)
(* hear of it.  The network's keys are constants, so that what the sensors *)
(* publish is still taken.                                                 *)
GatewayWiped ==
  /\ "wipe" \in Faults
  /\ WipeMap
  /\ nodeDb' = [a \in Addrs |-> None]
  /\ handedOut' = {}
  /\ flow' = NoFlow
  /\ doubtful' = Berths
  /\ air' = {}
  /\ task' = Idle
  /\ UNCHANGED <<sensorVars, rows>>

Next ==
  \/ \E s \in Sensors, a \in Addrs, e \in Asked : Joins(s, a, e)
  \/ BecomesReady
  \/ Adopted
  \/ FlowFails
  \/ \E a \in Addrs : Decommissioned(a)
  \/ \E s \in Sensors : ButtonWipes(s) \/ Sends(s)
  \/ \E m \in air : Lost(m) \/ Receives(m)
  \/ LooksUpBerth
  \/ LooksUpNode
  \/ Publishes
  \/ Reboot
  \/ GatewayWiped

Spec == Init /\ [][Next]_vars

-----------------------------------------------------------------------------
(* A publication's berth and node id are of one record, though they are    *)
(* looked up one after the other: no record of an address that publishes   *)
(* is changed outside of the BTC task, where the lookups are made.         *)
PairedAsRecorded == task.at = "publish" => task.node = NodeIdOf(task.of)

(* The backend "uses this to reject rogue nodes publishing to a berth they *)
(* aren't bound to" (dp_gateway.c:142-143): a publication of an address    *)
(* that has a row goes to the berth of that row, through hot swaps, power  *)
(* cycles and decommissions, unless the answer or the record of the        *)
(* berth's last adoption was lost, which the gateway only logs, or it was  *)
(* wiped since.                                                            *)
RoutedAsBackendBelieves ==
  (task.at = "publish" /\ rows[task.src] \notin {None} \cup doubtful)
     => task.berth = rows[task.src]

(* The cross-check can tell a rogue node: a publication under the address  *)
(* of a node comes from that node.                                         *)
SourceIsNode ==
  (task.at = "publish" /\ nodeDb[task.src] # None) => task.from = nodeDb[task.src]

(* "the new node takes over publishing" (docs/architecture.md:91): once no *)
(* adoption is under way, what a node of the gateway has published for a   *)
(* berth that is mapped comes from the address it is mapped to.            *)
NewNodeTakesOver ==
  [][(task'.at = "publish" /\ nodeDb[task'.src] # None /\ flow = NoFlow) =>
       \A a \in Addrs : berths[a] # NoEntry /\ berths[a].berth = task'.berth
                          => task'.src = a]_task
=============================================================================
