------------------------------ MODULE MeshStack ------------------------------
(***************************************************************************)
(* External: the ESP-BLE-MESH stack the gateway runs on, the radio and the *)
(* sensors, as dp_mesh_provisioner.c and dp_mesh_sensor.c use them.  The   *)
(* stack provisions the one device whose uuid is matched, keeps the        *)
(* database of nodes, sends one configuration message at a time to a node  *)
(* and reports everything through a queue of events; the callbacks that    *)
(* take events off the queue are in Provisioner.                           *)
(***************************************************************************)
EXTENDS Addresses, Naturals, Sequences

CONSTANTS Devices,     \* sensors, by uuid
          None,        \* no device; address 0
          MaxQueue,    \* bound on the event queue, not in the code
          Faults       \* what may go wrong, besides the radio: FaultNames

FaultNames == {"send",      \* set_state returns an error
               "delete",    \* delete_node_with_addr fails
               "start",     \* set_static_oob or set_dev_uuid_match fails
               "nvs",       \* a write of the berth table fails
               "refuse",    \* a node answers a configuration with an error
               "leave",     \* a node resets itself: button or watchdog
               "reboot",    \* the gateway loses power
               "broker"}    \* the connection to the broker comes and goes

ASSUME NoneAssumption == None \notin Devices \cup Addrs
ASSUME FaultsAssumption == Faults \subseteq FaultNames

(* The messages, by the cfg_step_t that sends them, and the node reset.    *)
IDLE == 0
APP_KEY_ADD == 1
MODEL_APP_BIND == 2
MODEL_PUB_SET == 3
DONE == 4
NODE_RESET == 5

VARIABLES
  uuidMatch,  \* the uuid that is provisioned when it beacons, None: disarmed
  link,       \* the PB-ADV link to each device
  nodeDb,     \* the device provisioned at each address; kept in flash
  pending,    \* the message each address has not answered yet
  events,     \* events the application has not been given yet
  node        \* each sensor: its address, and how far it is configured

meshVars == <<uuidMatch, link, nodeDb, pending, events, node>>

Senders == {"flow", "cleanup", "decom"}    \* who sent a message; for properties
NoMsg == [op |-> IDLE, dev |-> None, by |-> "flow"]
Msg == [op : {APP_KEY_ADD, MODEL_APP_BIND, MODEL_PUB_SET, NODE_RESET},
        dev : Devices \cup {None}, by : Senders]

CfgKinds == {"ack", "err", "timeout"}
CfgEvent(kind, op, by) == [kind |-> kind, op |-> op, addr |-> None, by |-> by]
CompleteEvent(a) == [kind |-> "complete", op |-> IDLE, addr |-> a, by |-> "link-ok"]
CloseEvent(by) == [kind |-> "close", op |-> IDLE, addr |-> None, by |-> by]
Event ==
  [kind : CfgKinds, op : 0..5, addr : {None}, by : Senders]
    \cup [kind : {"complete"}, op : {IDLE}, addr : Addrs, by : {"link-ok"}]
    \cup [kind : {"close"}, op : {IDLE}, addr : {None}, by : {"link-ok", "link-failed"}]

Unprovisioned == [addr |-> None, cfg |-> 0]

MeshTypeOK ==
  /\ uuidMatch \in Devices \cup {None}
  /\ link \in [Devices -> {"closed", "open"}]
  /\ nodeDb \in [Addrs -> Devices \cup {None}]
  /\ pending \in [Addrs -> Msg \cup {NoMsg}]
  /\ events \in Seq(Event)
  /\ node \in [Devices -> [addr : Addrs \cup {None}, cfg : 0..3]]

MeshInit ==
  /\ uuidMatch = None
  /\ link = [d \in Devices |-> "closed"]
  /\ nodeDb = [a \in Addrs |-> None]
  /\ pending = [a \in Addrs |-> NoMsg]
  /\ events = <<>>
  /\ node = [d \in Devices |-> Unprovisioned]

(* What is left of the stack's state after the gateway lost power.         *)
MeshRestarts ==
  /\ uuidMatch' = None
  /\ link' = [d \in Devices |-> "closed"]
  /\ pending' = [a \in Addrs |-> NoMsg]
  /\ events' = <<>>
  /\ UNCHANGED <<nodeDb, node>>

-----------------------------------------------------------------------------
(* Calls of the application.                                               *)

(* set_state: to a known node that owes no answer the message goes out, to *)
(* any other an error event comes back; it may also fail at once, as it    *)
(* does for address 0.  "queue" is the event queue the caller leaves.      *)
Accepts(a) == a # None /\ nodeDb[a] # None /\ pending[a] = NoMsg

Sends(op, a, by, queue) ==
  /\ a # None
  /\ IF Accepts(a)
     THEN /\ pending' = [pending EXCEPT ![a] =
                           [op |-> op, dev |-> nodeDb[a], by |-> by]]
          /\ events' = queue
     ELSE /\ events' = Append(queue, CfgEvent("err", op, by))
          /\ UNCHANGED pending

SendFails(a, queue) ==
  /\ a = None \/ "send" \in Faults
  /\ events' = queue
  /\ UNCHANGED pending

Deletes(a) == nodeDb' = [nodeDb EXCEPT ![a] = None]
DeleteFails == "delete" \in Faults /\ UNCHANGED nodeDb

HasNode(d) == \E a \in Addrs : nodeDb[a] = d

-----------------------------------------------------------------------------
(* Steps of the stack, the radio and the sensors.                          *)

(* Mutant: the match is armed with fewer than the 16 bytes of the uuid.    *)
MatchesPrefix(d) == uuidMatch # None

(* set_dev_uuid_match(uuid, 16, 0, true): the whole uuid is compared.      *)
Matches(d) == uuidMatch = d

(* The matched device beacons, unprovisioned, and a link to it opens.      *)
LinkOpens(d) ==
  /\ Matches(d)
  /\ node[d].addr = None
  /\ link[d] = "closed"
  /\ Len(events) < MaxQueue
  /\ link' = [link EXCEPT ![d] = "open"]
  /\ UNCHANGED <<uuidMatch, nodeDb, pending, events, node>>

(* The link drops before the device is provisioned.                        *)
LinkFails(d) ==
  /\ link[d] = "open"
  /\ link' = [link EXCEPT ![d] = "closed"]
  /\ events' = Append(events, CloseEvent("link-failed"))
  /\ UNCHANGED <<uuidMatch, nodeDb, pending, node>>

(* The device is provisioned at a free address, under a new device key: a  *)
(* node the database still held for it is replaced, and it cannot read     *)
(* what was sent to it before.  Then the link closes.  The match is not    *)
(* looked at again.                                                        *)
Provisions(d, a) ==
  /\ link[d] = "open"
  /\ nodeDb[a] = None
  /\ link' = [link EXCEPT ![d] = "closed"]
  /\ nodeDb' = [x \in Addrs |-> IF x = a THEN d
                                ELSE IF nodeDb[x] = d THEN None ELSE nodeDb[x]]
  /\ node' = [node EXCEPT ![d] = [addr |-> a, cfg |-> 0]]
  /\ pending' = [x \in Addrs |-> IF pending[x].dev = d
                                 THEN [pending[x] EXCEPT !.dev = None]
                                 ELSE pending[x]]
  /\ events' = events \o <<CompleteEvent(a), CloseEvent("link-ok")>>
  /\ UNCHANGED uuidMatch

(* The node an unanswered message is for, if it still has the key of it.   *)
Hears(a, d) == pending[a].dev = d /\ node[d].addr = a

(* What the message does to the node.  A configuration needs the ones      *)
(* before it; a reset makes the sensor wipe itself and beacon again.       *)
Applied(op, n) ==
  IF op = NODE_RESET THEN Unprovisioned
  ELSE IF op > n.cfg THEN [n EXCEPT !.cfg = op] ELSE n

CanApply(op, n) == op = NODE_RESET \/ op <= n.cfg + 1

Unheard(a) == [pending EXCEPT ![a] = [@ EXCEPT !.dev = None]]

(* The node answers, and the answer arrives: the stack takes it only from  *)
(* a node of its database.  Otherwise the message stays unanswered.        *)
Answers(a, d, kind) ==
  IF nodeDb[a] = d
  THEN /\ pending' = [pending EXCEPT ![a] = NoMsg]
       /\ events' = Append(events, CfgEvent(kind, pending[a].op, pending[a].by))
  ELSE pending' = Unheard(a) /\ UNCHANGED events

NodeApplies(a, d) ==
  /\ Hears(a, d)
  /\ CanApply(pending[a].op, node[d])
  /\ node' = [node EXCEPT ![d] = Applied(pending[a].op, node[d])]
  /\ \/ Answers(a, d, "ack")
     \/ pending' = Unheard(a) /\ UNCHANGED events    \* the answer is lost
  /\ UNCHANGED <<uuidMatch, link, nodeDb>>

NodeRefuses(a, d) ==
  /\ Hears(a, d)
  /\ "refuse" \in Faults \/ ~CanApply(pending[a].op, node[d])
  /\ Answers(a, d, "err")
  /\ UNCHANGED <<uuidMatch, link, nodeDb, node>>

(* No answer within msg_timeout: the message or its answer was lost, or    *)
(* the answer is late and comes as a PUBLISH_EVT, which the application    *)
(* ignores.  The node does nothing about the message any more.             *)
NoAnswer(a) ==
  /\ pending[a] # NoMsg
  /\ pending' = [pending EXCEPT ![a] = NoMsg]
  /\ events' = Append(events, CfgEvent("timeout", pending[a].op, pending[a].by))
  /\ UNCHANGED <<uuidMatch, link, nodeDb, node>>

(* The sensor's watchdog or its button wipes it.                           *)
NodeLeaves(d) ==
  /\ "leave" \in Faults
  /\ node[d].addr # None
  /\ node' = [node EXCEPT ![d] = Unprovisioned]
  /\ UNCHANGED <<uuidMatch, link, nodeDb, pending, events>>

MeshNext ==
  \/ \E d \in Devices : LinkOpens(d) \/ LinkFails(d) \/ NodeLeaves(d)
  \/ \E d \in Devices, a \in Addrs :
       Provisions(d, a) \/ NodeApplies(a, d) \/ NodeRefuses(a, d)
  \/ \E a \in Addrs : NoAnswer(a)

(* Nothing is under way.                                                   *)
Quiet ==
  /\ \A d \in Devices : link[d] = "closed"
  /\ \A a \in Addrs : pending[a] = NoMsg
  /\ events = <<>>
=============================================================================
