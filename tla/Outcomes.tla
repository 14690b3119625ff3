------------------------------- MODULE Outcomes -------------------------------
(***************************************************************************)
(* Gateway with a history of each flow and of each decommission, to say    *)
(* what an "ok" is worth when requests overlap, links and answers of ended *)
(* flows are still on their way, and sensors leave when they like.  The    *)
(* gateway looks at none of these variables.                               *)
(***************************************************************************)
EXTENDS Gateway

VARIABLES
  stale,     \* the flow found a link to another sensor or a PROV_COMPLETE
  mixed,     \* the flow may have taken another answer for one of its own
  given,     \* the address a sensor was provisioned at in the flow
  earlier,   \* the decommission found a reset of an earlier one unanswered
  wiped      \* a sensor has left the decommission's address in the meantime

historyVars == <<stale, mixed, given, earlier, wiped>>
hvars == <<vars, historyVars>>

HInit ==
  /\ Init
  /\ stale = FALSE /\ mixed = FALSE /\ given = None
  /\ earlier = FALSE /\ wiped = FALSE

(* A sensor is provisioned at the address.                                 *)
Joins(a) == nodeDb'[a] # None /\ nodeDb'[a] # nodeDb[a]

(* What an ended flow may leave behind: the link to a sensor that is not   *)
(* the next flow's, a complete, or a message or its answer.                *)
LinkOrComplete(d) ==
  \/ \E x \in Devices \ {d} : link[x] = "open"
  \/ \E i \in DOMAIN events : events[i].kind = "complete"

OpenConfig ==
  \/ \E a \in Addrs : pending[a] # NoMsg /\ pending[a].op # NODE_RESET
  \/ \E i \in DOMAIN events : events[i].kind \in CfgKinds /\ events[i].op # NODE_RESET

(* on_cfg_client takes the answer to a node reset for the answer to the    *)
(* current step: no decommission is there to claim it.                     *)
TakesReset == OnEvent /\ provInFlight /\ ForFlow /\ Head1.op = NODE_RESET

FlowHistory ==
  IF ~provInFlight /\ provInFlight'
  THEN /\ stale' = LinkOrComplete(uuidMatch')
       /\ mixed' = OpenConfig
       /\ given' = None
  ELSE /\ stale' = stale
       /\ mixed' = (mixed \/ TakesReset \/ (given # None /\ \E a \in Addrs : Joins(a)))
       /\ IF \E a \in Addrs : Joins(a) THEN \E a \in Addrs : Joins(a) /\ given' = a
          ELSE given' = given

(* A reset of a decommission that is not answered yet.                     *)
OpenReset ==
  \/ \E a \in Addrs : pending[a].by = "decom"
  \/ \E i \in DOMAIN events : events[i].by = "decom"

DecomHistory ==
  IF ~decom.active /\ decom'.active
  THEN earlier' = OpenReset /\ wiped' = FALSE
  ELSE /\ earlier' = earlier
       /\ wiped' = (wiped \/ \E d \in Devices : node[d].addr = decom.addr
                                               /\ node'[d].addr # decom.addr)

HNext == Next /\ FlowHistory /\ DecomHistory

HSpec == HInit /\ [][HNext]_hvars

-----------------------------------------------------------------------------
(* However requests and flows overlap: the node of an "ok" is the device   *)
(* the request named, unless it has been deleted since.  A late            *)
(* PROV_COMPLETE can only be taken for the flow's own when its link was    *)
(* open, or it was waiting, before the flow started: handle_prov_event     *)
(* does not compare the uuid.                                              *)
OkNamesDeviceUnlessStale ==
  [][\A m \in NewOk : m.req \in ProvReqs =>
        stale \/ nodeDb[m.addr] \in {ReqDev[m.req], None}]_hvars

(* ... and has all of its configuration, unless it has left: one step      *)
(* counts for another only when messages of an earlier flow were under way *)
(* at the start, an answer to a node reset was taken, or the sensor was    *)
(* provisioned twice in the flow.                                          *)
OkConfiguredUnlessMixed ==
  [][\A m \in NewOk : (m.req \in ProvReqs /\ nodeDb[m.addr] # None) =>
        \/ stale \/ mixed'
        \/ node[nodeDb[m.addr]].cfg = MODEL_PUB_SET
        \/ node[nodeDb[m.addr]].addr # m.addr]_hvars

(* Beside flows and their cleanup: a decommission answered "ok" has made   *)
(* the sensor at its address wipe itself, although on_cfg_client compares  *)
(* the opcode only.  The "ok" may only come from a reset of an earlier     *)
(* decommission that was still open, or from the reset of a cleanup that   *)
(* failed to delete its node.                                              *)
DecomOkWipedNode ==
  [][\A m \in NewOk : m.req \in DecomReqs =>
        \/ wiped \/ earlier
        \/ Head1.by = "cleanup" /\ "delete" \in Faults]_hvars
=============================================================================
