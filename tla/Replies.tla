------------------------------- MODULE Replies -------------------------------
(***************************************************************************)
(* The backend's requests and the gateway's answers: the state of          *)
(* dp_gateway_adopt.c and the two callbacks, on_prov_done and              *)
(* on_decom_done, through which the mesh layer hands back a result.  The   *)
(* handlers of the requests themselves are in Gateway.                     *)
(***************************************************************************)
EXTENDS MeshStack, BerthMap

CONSTANTS ProvReqs,     \* ids of provision requests
          DecomReqs,    \* ids of decommission requests
          ReqDev,       \* the device a provision request names
          ReqEntry,     \* its berth and node id, NoEntry when it sends none
          NoReq

Reqs == ProvReqs \cup DecomReqs

ASSUME NoEntryAssumption == NoEntry \notin Entry
ASSUME RequestsAssumption ==
  /\ ProvReqs \cap DecomReqs = {} /\ NoReq \notin Reqs
  /\ ReqDev \in [ProvReqs -> Devices]
  /\ ReqEntry \in [ProvReqs -> Entry \cup {NoEntry}]

VARIABLES
  inflight,    \* s_inflight: the request being adopted; its other fields
               \* are the request's
  online,      \* MQTT_CONNECTED_BIT
  delivered,   \* how often each request reached a handler since the boot
  answers,     \* how often each was answered, whatever the answer
  said,        \* the answers given to dp_gateway_mqtt_publish, which drops
               \* them when the broker is away; no caller looks at its result
  announced    \* the addresses of nodes adopted with an "ok"

replyVars == <<inflight, online, delivered, answers, said, announced>>

Answer == [req : Reqs, status : {"ok", "orphan", "err"}, addr : Addrs \cup {None}]

RepliesTypeOK ==
  /\ inflight \in [active : BOOLEAN, req : ProvReqs \cup {NoReq}]
  /\ online \in BOOLEAN
  /\ delivered \in [Reqs -> Nat]
  /\ answers \in [Reqs -> Nat]
  /\ said \subseteq Answer
  /\ announced \subseteq Addrs

NoFlow == [active |-> FALSE, req |-> NoReq]

RepliesInit ==
  /\ inflight = NoFlow
  /\ online = FALSE
  /\ delivered = [r \in Reqs |-> 0]
  /\ answers = [r \in Reqs |-> 0]
  /\ said = {}
  /\ announced = {}

(* publish_resp_ok, publish_resp_err, publish_resp: the request's answer.  *)
Replies(r, status, a) ==
  /\ answers' = [answers EXCEPT ![r] = @ + 1]
  /\ said' = said \cup {[req |-> r, status |-> status, addr |-> a]}

NoReply == UNCHANGED <<answers, said>>

(* dp_prov_record_node, whose result on_prov_done drops.                   *)
Records(a, e) ==
  \/ RecordSaved(a, e)
  \/ "nvs" \in Faults /\ RecordUnsaved(a, e)
  \/ RecordRefused(a, e)

Forgets(a) == ForgetSaved(a) \/ ("nvs" \in Faults /\ ForgetUnsaved(a))

(* on_prov_done with a result that is ok.                                  *)
OnProvDoneOk(a) ==
  IF inflight.active
  THEN /\ IF ReqEntry[inflight.req] # NoEntry
          THEN Records(a, ReqEntry[inflight.req])
          ELSE UNCHANGED mapVars
       /\ Replies(inflight.req, "ok", a)
       /\ announced' = announced \cup {a}
       /\ inflight' = NoFlow
  ELSE NoReply /\ UNCHANGED <<inflight, announced, mapVars>>

(* Mutant: s_inflight is not cleared after an error.                       *)
OnProvDoneErrStays ==
  IF inflight.active
  THEN Replies(inflight.req, "err", None) /\ UNCHANGED inflight
  ELSE NoReply /\ UNCHANGED inflight

(* on_prov_done with an error; the caller says what became of announced.   *)
OnProvDoneErr ==
  IF inflight.active
  THEN Replies(inflight.req, "err", None) /\ inflight' = NoFlow
  ELSE NoReply /\ UNCHANGED inflight

(* on_decom_done, with the context the request handler allocated.          *)
OnDecomDone(r, status, a) == Replies(r, status, a)
=============================================================================
