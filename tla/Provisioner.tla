----------------------------- MODULE Provisioner -----------------------------
(***************************************************************************)
(* components/dp_mesh/dp_mesh_provisioner.c: one provisioning flow at a    *)
(* time (PB-ADV by uuid match, then AppKeyAdd, ModelAppBind and            *)
(* ModelPubSet through the configuration client), and, beside it, one      *)
(* decommission at a time (node reset, retried, then local cleanup).       *)
(*                                                                         *)
(* One action per callback or call; a callback runs to its end before the  *)
(* next one starts.  s_prov_cb is on_prov_done and s_decom.cb on_decom_done*)
(* throughout, so they are called here by name.  Progress messages         *)
(* (emit_state) and error codes are left out.                              *)
(***************************************************************************)
EXTENDS Replies

CONSTANTS CFG_MAX_ATTEMPTS, DECOM_MAX_ATTEMPTS

ASSUME AttemptsAssumption ==
  CFG_MAX_ATTEMPTS \in Nat \ {0} /\ DECOM_MAX_ATTEMPTS \in Nat \ {0}

VARIABLES
  meshUp,        \* dp_mesh_init has set the role: calls are accepted
  provInFlight,  \* s_prov_in_flight
  provUuid,      \* s_prov_uuid
  provTarget,    \* s_prov_target_addr
  cfgStep,       \* s_cfg_step
  cfgAttempts,   \* s_cfg_attempts
  provTimer,     \* s_prov_timer is armed
  decom          \* s_decom; req is its context

flowVars == <<provInFlight, provUuid, provTarget, cfgStep, cfgAttempts, provTimer>>
provVars == <<meshUp, flowVars, decom>>

NoDecom == [active |-> FALSE, addr |-> None, attempts |-> 0, req |-> NoReq]

ProvTypeOK ==
  /\ meshUp \in BOOLEAN
  /\ provInFlight \in BOOLEAN
  /\ provUuid \in Devices \cup {None}
  /\ provTarget \in Addrs \cup {None}
  /\ cfgStep \in IDLE..DONE
  /\ cfgAttempts \in 0..CFG_MAX_ATTEMPTS
  /\ provTimer \in BOOLEAN
  /\ decom \in [active : BOOLEAN, addr : Addrs \cup {None},
                attempts : 0..DECOM_MAX_ATTEMPTS, req : DecomReqs \cup {NoReq}]

ProvInit ==
  /\ meshUp = FALSE
  /\ provInFlight = FALSE
  /\ provUuid = None
  /\ provTarget = None
  /\ cfgStep = IDLE
  /\ cfgAttempts = 0
  /\ provTimer = FALSE
  /\ decom = NoDecom

-----------------------------------------------------------------------------
(* The ways a flow ends, and the steps of its configuration.               *)

(* Mutant: the node is left in the database.                               *)
KeepsNode(a) == a \in Addrs /\ UNCHANGED <<nodeDb, announced>>

(* delete_node_with_addr.                                                  *)
DropsNode(a) ==
  \/ Deletes(a) /\ announced' = announced \ {a}
  \/ DeleteFails /\ UNCHANGED announced

(* send_node_reset: an error is only logged.                               *)
SendsReset(a, by, queue) == Sends(NODE_RESET, a, by, queue) \/ SendFails(a, queue)

(* Mutant: the match of the ended flow stays armed.                        *)
LeavesMatch == UNCHANGED uuidMatch

(* clear_dev_uuid_match.                                                   *)
ClearsMatch == uuidMatch' = None

(* prov_finish_err of the flow in flight.  The flag is dropped before the  *)
(* reset is sent, the reset is sent before the node is deleted.            *)
FinishErr(target, queue) ==
  /\ provInFlight' = FALSE
  /\ cfgStep' = IDLE
  /\ provTimer' = FALSE
  /\ IF target # None
     THEN SendsReset(target, "cleanup", queue) /\ DropsNode(target) /\ Forgets(target)
     ELSE events' = queue /\ UNCHANGED <<pending, nodeDb, announced, mapVars>>
  /\ provTarget' = None
  /\ ClearsMatch
  /\ OnProvDoneErr

(* prov_finish_ok: s_prov_target_addr keeps the address.                   *)
FinishOk(target, queue) ==
  /\ provInFlight' = FALSE
  /\ cfgStep' = IDLE
  /\ provTimer' = FALSE
  /\ provTarget' = target
  /\ ClearsMatch
  /\ events' = queue
  /\ UNCHANGED <<pending, nodeDb>>
  /\ OnProvDoneOk(target)

(* cfg_do_current_step, first or again, without ending the flow.           *)
FlowSends(step, target, queue) ==
  /\ step \in APP_KEY_ADD..MODEL_PUB_SET
  /\ Sends(step, target, "flow", queue)
  /\ cfgStep' = step
  /\ provTarget' = target
  /\ NoReply
  /\ UNCHANGED <<uuidMatch, nodeDb, mapVars, announced, inflight, provInFlight, provTimer>>

(* cfg_do_current_step fails: always when the step is IDLE.                *)
FlowCannotSend(step, target, queue) ==
  /\ step = IDLE \/ target = None \/ "send" \in Faults
  /\ FinishErr(target, queue)

(* Mutant: the last message counts as answered when it is sent.            *)
DoneEarly(step) == step >= MODEL_PUB_SET

(* case CFG_STEP_DONE.                                                     *)
IsDone(step) == step = DONE

(* cfg_step_advance from the current step.                                 *)
AdvanceStep(target, queue) ==
  /\ cfgAttempts' = 1
  /\ IF IsDone(cfgStep + 1)
     THEN FinishOk(target, queue)
     ELSE \/ FlowSends(cfgStep + 1, target, queue)
          \/ FlowCannotSend(cfgStep + 1, target, queue)

(* Mutant: one attempt too many.                                           *)
CfgMayRetryOnceMore == cfgAttempts <= CFG_MAX_ATTEMPTS

(* 1 initial and 2 retries of each step.                                   *)
CfgMayRetry == cfgAttempts < CFG_MAX_ATTEMPTS

(* cfg_step_redo.                                                          *)
RedoStep(queue) ==
  /\ cfgAttempts' = cfgAttempts + 1
  /\ FlowSends(cfgStep, provTarget, queue) \/ FlowCannotSend(cfgStep, provTarget, queue)

(* decom_local_cleanup_and_finish: a failed cleanup turns ok into err.     *)
DecomFinish(result, queue) ==
  LET a == decom.addr
      status(clean) == IF result = "ok" /\ ~clean THEN "err" ELSE result
  IN /\ \/ /\ Deletes(a) /\ announced' = announced \ {a}
           /\ \/ ForgetSaved(a) /\ OnDecomDone(decom.req, status(TRUE), a)
              \/ /\ "nvs" \in Faults /\ ForgetUnsaved(a)
                 /\ OnDecomDone(decom.req, status(FALSE), a)
        \/ /\ DeleteFails /\ UNCHANGED announced
           /\ Forgets(a)
           /\ OnDecomDone(decom.req, status(FALSE), a)
     /\ decom' = NoDecom
     /\ events' = queue
     /\ UNCHANGED <<uuidMatch, pending, inflight, flowVars>>

-----------------------------------------------------------------------------
(* Callbacks of the stack: each takes the event at the head of the queue.  *)

Head1 == Head(events)
Rest == Tail(events)

(* LINK_CLOSE: ends a flow that has not been given its node yet.           *)
OnLinkClose ==
  /\ events # <<>> /\ Head1.kind = "close"
  /\ IF provInFlight /\ cfgStep < APP_KEY_ADD
     THEN /\ FinishErr(provTarget, Rest)
          /\ UNCHANGED <<provUuid, cfgAttempts>>
     ELSE /\ events' = Rest
          /\ NoReply
          /\ UNCHANGED <<uuidMatch, nodeDb, pending, mapVars, announced, inflight, flowVars>>
  /\ UNCHANGED <<link, node, online, delivered, meshUp, decom>>

(* PROV_COMPLETE in a flow: whatever device it is about becomes the        *)
(* flow's target.                                                          *)
OnProvComplete ==
  /\ events # <<>> /\ Head1.kind = "complete"
  /\ provInFlight
  /\ AdvanceStep(Head1.addr, Rest)
  /\ UNCHANGED <<link, node, online, delivered, meshUp, decom, provUuid>>

(* PROV_COMPLETE outside a flow: the node is deleted again.                *)
OnOrphanComplete ==
  /\ events # <<>> /\ Head1.kind = "complete"
  /\ ~provInFlight
  /\ DropsNode(Head1.addr)
  /\ events' = Rest
  /\ NoReply
  /\ UNCHANGED <<uuidMatch, link, pending, node, mapVars, inflight, online,
                 delivered, provVars>>

(* Mutant: error events are not recognised as the decommission's.          *)
ForDecomUnlessError ==
  Head1.kind \in {"ack", "timeout"} /\ decom.active /\ Head1.op = NODE_RESET

(* Mutant: any configuration event is taken for the decommission's.        *)
ForDecomAnyOp == Head1.kind \in CfgKinds /\ decom.active

(* on_cfg_client, its first half: a decommission takes every event that    *)
(* carries the node-reset opcode.                                          *)
ForDecom == Head1.kind \in CfgKinds /\ decom.active /\ Head1.op = NODE_RESET

OnDecomTimeout ==
  /\ events # <<>> /\ ForDecom /\ Head1.kind = "timeout"
  /\ IF decom.attempts < DECOM_MAX_ATTEMPTS
     THEN /\ decom' = [decom EXCEPT !.attempts = @ + 1]
          /\ SendsReset(decom.addr, "decom", Rest)
          /\ NoReply
          /\ UNCHANGED <<uuidMatch, nodeDb, mapVars, announced, inflight, flowVars>>
     ELSE DecomFinish("orphan", Rest)
  /\ UNCHANGED <<link, node, online, delivered, meshUp>>

DecomResult(kind) == IF kind = "ack" THEN "ok" ELSE "orphan"

OnDecomAnswer ==
  /\ events # <<>> /\ ForDecom /\ Head1.kind # "timeout"
  /\ DecomFinish(DecomResult(Head1.kind), Rest)
  /\ UNCHANGED <<link, node, online, delivered, meshUp>>

(* Its second half: any other event is taken for the answer to the current *)
(* step of the flow, if there is a flow.                                   *)
ForFlow == Head1.kind \in CfgKinds /\ ~ForDecom

OnCfgTimeout ==
  /\ events # <<>> /\ ForFlow /\ provInFlight /\ Head1.kind = "timeout"
  /\ \/ CfgMayRetry /\ RedoStep(Rest)
     \/ /\ ~CfgMayRetry
        /\ FinishErr(provTarget, Rest)
        /\ UNCHANGED cfgAttempts
  /\ UNCHANGED <<link, node, online, delivered, meshUp, decom, provUuid>>

OnCfgAck ==
  /\ events # <<>> /\ ForFlow /\ provInFlight /\ Head1.kind = "ack"
  /\ AdvanceStep(provTarget, Rest)
  /\ UNCHANGED <<link, node, online, delivered, meshUp, decom, provUuid>>

OnCfgError ==
  /\ events # <<>> /\ ForFlow /\ provInFlight /\ Head1.kind = "err"
  /\ FinishErr(provTarget, Rest)
  /\ UNCHANGED <<link, node, online, delivered, meshUp, decom, provUuid, cfgAttempts>>

OnStrayCfgEvent ==
  /\ events # <<>> /\ ForFlow /\ ~provInFlight
  /\ events' = Rest
  /\ UNCHANGED <<uuidMatch, link, nodeDb, pending, node, mapVars, replyVars, provVars>>

(* prov_timer_cb: the flow's ttl is over.                                  *)
ProvTimeout ==
  /\ provTimer
  /\ IF provInFlight
     THEN FinishErr(provTarget, events) /\ UNCHANGED <<provUuid, cfgAttempts>>
     ELSE /\ provTimer' = FALSE
          /\ NoReply
          /\ UNCHANGED <<uuidMatch, nodeDb, pending, events, mapVars, announced, inflight,
                         provInFlight, provUuid, provTarget, cfgStep, cfgAttempts>>
  /\ UNCHANGED <<link, node, online, delivered, meshUp, decom>>

OnEvent ==
  \/ OnLinkClose \/ OnProvComplete \/ OnOrphanComplete
  \/ OnDecomTimeout \/ OnDecomAnswer
  \/ OnCfgTimeout \/ OnCfgAck \/ OnCfgError \/ OnStrayCfgEvent

-----------------------------------------------------------------------------
(* The entry points the request handlers call.                             *)

(* dp_mesh_gateway_provision, accepted: the match is armed and the ttl     *)
(* starts.                                                                 *)
ProvisionAccepted == meshUp /\ ~provInFlight

(* Mutant: the target of an earlier flow that succeeded stays.             *)
ResetsAllButTarget(d) ==
  /\ provUuid' = d
  /\ cfgStep' = IDLE
  /\ cfgAttempts' = 0
  /\ UNCHANGED provTarget

ResetsFlow(d) ==
  /\ provUuid' = d
  /\ provTarget' = None
  /\ cfgStep' = IDLE
  /\ cfgAttempts' = 0

(* Mutant: the timer is created and not started.                           *)
ForgetsTimer == provTimer' = FALSE

StartsTimer == provTimer' = TRUE

ProvisionStarts(d) ==
  /\ ProvisionAccepted
  /\ provInFlight' = TRUE
  /\ ResetsFlow(d)
  /\ uuidMatch' = d
  /\ StartsTimer

(* Accepted, but arming the stack fails: only the flag is taken back.      *)
ProvisionStartFails(d) ==
  /\ ProvisionAccepted
  /\ "start" \in Faults
  /\ ResetsFlow(d)
  /\ UNCHANGED <<provInFlight, uuidMatch, provTimer>>

ProvisionRefused == ~ProvisionAccepted /\ UNCHANGED <<flowVars, uuidMatch>>

(* dp_mesh_gateway_decommission_node.                                      *)
DecommissionAccepted == meshUp /\ ~decom.active

DecommissionStarts(a, r) ==
  /\ DecommissionAccepted
  /\ decom' = [active |-> TRUE, addr |-> a, attempts |-> 1, req |-> r]
  /\ SendsReset(a, "decom", events)

(* dp_mesh_gateway_has_node_with_uuid: false until the role is set.        *)
HasNodeWithUuid(d) == meshUp /\ HasNode(d)
=============================================================================
