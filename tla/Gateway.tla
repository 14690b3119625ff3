------------------------------- MODULE Gateway -------------------------------
(***************************************************************************)
(* The control plane of the gateway: the request handlers of               *)
(* dp_gateway_adopt.c and dp_gateway_decom.c on top of Provisioner, with   *)
(* the broker connection, the start of the mesh and power cycles.          *)
(*                                                                         *)
(* A request may be delivered more than once (QoS 1) and at any time; when *)
(* OneAtATime holds, the backend sends one only when the gateway has       *)
(* nothing under way.                                                      *)
(***************************************************************************)
EXTENDS Provisioner

CONSTANTS BadReqs,         \* provision requests whose uuid or oob is not hex
          MaxDeliveries,   \* bound on the deliveries of a request, not in the code
          OneAtATime

ASSUME BackendAssumption ==
  BadReqs \subseteq ProvReqs /\ MaxDeliveries \in Nat /\ OneAtATime \in BOOLEAN

vars == <<meshVars, mapVars, replyVars, provVars>>

TypeOK == MeshTypeOK /\ MapTypeOK /\ RepliesTypeOK /\ ProvTypeOK

Init ==
  /\ MeshInit
  /\ berths = NoMap /\ savedBerths = NoMap
  /\ RepliesInit
  /\ ProvInit

-----------------------------------------------------------------------------
Idle == Quiet /\ ~inflight.active /\ ~decom.active

(* A request reaches its handler, which runs in the MQTT task.             *)
Delivers(r) ==
  /\ online
  /\ delivered[r] < MaxDeliveries
  /\ OneAtATime => Idle
  /\ delivered' = [delivered EXCEPT ![r] = @ + 1]

(* handle_provision_req: answered at once.  The checks come in this order: *)
(* busy, malformed, already provisioned; each answers with its error.      *)
RejectProvision(r) ==
  /\ Delivers(r)
  /\ inflight.active \/ r \in BadReqs \/ HasNodeWithUuid(ReqDev[r])
  /\ Replies(r, "err", None)
  /\ UNCHANGED <<meshVars, mapVars, provVars, inflight, online, announced>>

(* handle_provision_req: the request becomes the one in flight.            *)
StartProvision(r) ==
  /\ Delivers(r)
  /\ ~inflight.active /\ r \notin BadReqs /\ ~HasNodeWithUuid(ReqDev[r])
  /\ \/ /\ ProvisionStarts(ReqDev[r])
        /\ inflight' = [active |-> TRUE, req |-> r]
        /\ NoReply
     \/ /\ ProvisionStartFails(ReqDev[r]) \/ ProvisionRefused
        /\ Replies(r, "err", None)        \* "start-fail"
        /\ UNCHANGED inflight
  /\ UNCHANGED <<link, nodeDb, pending, events, node, mapVars, online, announced,
                 meshUp, decom>>

(* handle_decommission_req, with any unicast address.                      *)
StartDecommission(r, a) ==
  /\ Delivers(r)
  /\ DecommissionStarts(a, r)
  /\ NoReply
  /\ UNCHANGED <<uuidMatch, link, nodeDb, node, mapVars, inflight, online, announced,
                 meshUp, flowVars>>

(* handle_decommission_req: no or a bad unicast_addr, another one in       *)
(* flight, or the mesh not up yet.                                         *)
RejectDecommission(r) ==
  /\ Delivers(r)
  /\ Replies(r, "err", None)
  /\ UNCHANGED <<meshVars, mapVars, provVars, inflight, online, announced>>

-----------------------------------------------------------------------------
(* dp_gateway_run: the requests are subscribed to before the mesh is up.   *)
MeshStarts ==
  /\ online /\ ~meshUp
  /\ meshUp' = TRUE
  /\ UNCHANGED <<meshVars, mapVars, replyVars, flowVars, decom>>

(* MQTT_EVENT_CONNECTED and MQTT_EVENT_DISCONNECTED.                       *)
BrokerConnects ==
  /\ ~online
  /\ online' = TRUE
  /\ UNCHANGED <<meshVars, mapVars, provVars, inflight, delivered, answers, said, announced>>

BrokerDisconnects ==
  /\ "broker" \in Faults
  /\ online
  /\ online' = FALSE
  /\ UNCHANGED <<meshVars, mapVars, provVars, inflight, delivered, answers, said, announced>>

(* The gateway loses power: RAM is lost, with the requests under way; the  *)
(* node database and the berth table are read back from flash.             *)
Reboot ==
  /\ "reboot" \in Faults
  /\ MeshRestarts
  /\ RestoreMap
  /\ inflight' = NoFlow
  /\ online' = FALSE
  /\ delivered' = answers
  /\ meshUp' = FALSE
  /\ provInFlight' = FALSE
  /\ provUuid' = None
  /\ provTarget' = None
  /\ cfgStep' = IDLE
  /\ cfgAttempts' = 0
  /\ provTimer' = FALSE
  /\ decom' = NoDecom
  /\ UNCHANGED <<answers, said, announced>>

(* A step of the stack alone.                                              *)
StackStep == MeshNext /\ UNCHANGED <<mapVars, replyVars, provVars>>

Next ==
  \/ \E r \in ProvReqs : RejectProvision(r) \/ StartProvision(r)
  \/ \E r \in DecomReqs, a \in Addrs : StartDecommission(r, a)
  \/ \E r \in DecomReqs : RejectDecommission(r)
  \/ StackStep
  \/ OnEvent
  \/ ProvTimeout
  \/ MeshStarts
  \/ BrokerConnects \/ BrokerDisconnects
  \/ Reboot

Spec == Init /\ [][Next]_vars

(* The stack times out every message, its task delivers every event, and   *)
(* the ttl timer fires.                                                    *)
LiveSpec ==
  /\ Spec
  /\ WF_vars(ProvTimeout)
  /\ WF_vars(OnEvent)
  /\ \A a \in Addrs : WF_vars(NoAnswer(a) /\ UNCHANGED <<mapVars, replyVars, provVars>>)

-----------------------------------------------------------------------------
(* The flow is kept three times over: s_inflight in the adopt layer, the   *)
(* flag, step and target in the mesh layer, and the uuid match and ttl     *)
(* timer armed in the stack.  They agree between any two callbacks: a flow *)
(* in flight has its request, its timer and its match, and the step tells  *)
(* whether a node has been given to it; nothing is left of an ended one.   *)
FlowAgreement ==
  /\ inflight.active = provInFlight
  /\ provTimer = provInFlight
  /\ provInFlight => /\ inflight.req \in ProvReqs
                     /\ uuidMatch = ReqDev[inflight.req]
                     /\ (cfgStep = IDLE) <=> (provTarget = None)
                     /\ cfgStep < DONE
  /\ ~provInFlight => uuidMatch = None /\ cfgStep = IDLE

(* Every request that reached a handler has had exactly one answer, or is  *)
(* the one under way: the callbacks of a flow or a decommission fire once, *)
(* on every path that ends it, and answer the request that started it.     *)
UnderWay(r) == (inflight.active /\ inflight.req = r) \/ (decom.active /\ decom.req = r)

OneAnswerEach ==
  \A r \in Reqs : delivered[r] = answers[r] + (IF UnderWay(r) THEN 1 ELSE 0)

(* A node adopted with an "ok" is deleted only by its decommission, never  *)
(* by the failure of a later flow or a late event of the stack.            *)
AdoptedNodeSurvives ==
  [][\A a \in announced \ announced' : decom.active /\ decom.addr = a /\ ~decom'.active]_vars

(* A node the gateway said "ok" for is the device the request named:       *)
(* "filters scan beacons by UUID" (docs/architecture.md:73).               *)
NewOk == {m \in said' \ said : m.status = "ok"}

OkNamesRequestedDevice ==
  [][\A m \in NewOk : m.req \in ProvReqs => nodeDb[m.addr] = ReqDev[m.req]]_vars

(* ... and has all of its configuration, unless it has reset itself since: *)
(* "pushes AppKey Add, Model App Bind, Model Pub Set, ... then publishes"  *)
(* (docs/architecture.md:76-79).                                           *)
OkOnlyWhenConfigured ==
  [][\A m \in NewOk : (m.req \in ProvReqs /\ nodeDb[m.addr] # None)
                          => \/ node[nodeDb[m.addr]].cfg = MODEL_PUB_SET
                             \/ node[nodeDb[m.addr]].addr # m.addr]_vars

PowerLost == meshUp /\ ~meshUp'

(* No callback leaves a half-configured node in the database: each node    *)
(* was announced, is the flow's target, or its PROV_COMPLETE is to come.   *)
(* A power cut, which is no callback, may.                                 *)
Stray ==
  {a \in Addrs :
     /\ nodeDb[a] # None /\ a \notin announced /\ ~(provInFlight /\ a = provTarget)
     /\ \A i \in DOMAIN events : events[i] # CompleteEvent(a)}

NoStrayNode == [][Stray' \subseteq Stray \/ PowerLost]_vars

(* A node that is dropped from the database takes its berth with it, when  *)
(* it was adopted or is the flow's target: the uplink would name the berth *)
(* to the next node of that address.                                       *)
BerthGoesWithNode ==
  [][\A a \in Addrs :
       /\ nodeDb[a] # None /\ nodeDb'[a] = None
       /\ a \in announced \/ (provInFlight /\ a = provTarget)
       => berths'[a] = NoEntry]_vars

(* A flow ends, and its request is answered, whatever the sensor and the   *)
(* radio do: the ttl (prov_timer_cb) bounds every wait.                    *)
EveryAdoptionEnds ==
  \A r \in ProvReqs :
    (inflight.active /\ inflight.req = r) ~> ~(inflight.active /\ inflight.req = r)

(* "retry Config Node Reset up to N times ..., then run local cleanup, then *)
(* fire cb" (dp_mesh.h:68-69).                                             *)
EveryDecommissionEnds ==
  \A r \in DecomReqs :
    (decom.active /\ decom.req = r) ~> ~(decom.active /\ decom.req = r)

=============================================================================
