----------------------------- MODULE GatewayProofs -----------------------------
(***************************************************************************)
(* Proofs about Gateway, for any number of sensors, addresses and          *)
(* requests, any set of faults and any bounds: type correctness, the       *)
(* agreement of the flow's three copies, that every request is answered    *)
(* exactly once, and, from the history that Outcomes keeps, what an ok is  *)
(* worth when requests overlap and sensors leave.  For a backend that      *)
(* sends one request at a time: an adopted node survives, takes its berth  *)
(* along, and no callback leaves a stray one.                              *)
(***************************************************************************)
EXTENDS Outcomes, TLAPS

(* What the mesh layer's types do not say of a decommission: while one is  *)
(* active it has an address and the request that started it.               *)
DecomAgreement ==
  decom.active => decom.addr \in Addrs /\ decom.req \in DecomReqs

(* The inductive invariant.  FlowAgreement needs the types of the queue    *)
(* and of the step; the types need a flow in flight to have a request.     *)
IInv == TypeOK /\ FlowAgreement /\ DecomAgreement

USE DEF IDLE, APP_KEY_ADD, MODEL_APP_BIND, MODEL_PUB_SET, DONE, NODE_RESET

Ops == {APP_KEY_ADD, MODEL_APP_BIND, MODEL_PUB_SET, NODE_RESET}

-----------------------------------------------------------------------------
(* The helpers of the modules, one lemma each: the types of what they set. *)

LEMMA EventTypes ==
  ASSUME NEW kind \in CfgKinds, NEW op \in 0..5, NEW by \in Senders,
         NEW a \in Addrs, NEW cause \in {"link-ok", "link-failed"}
  PROVE  /\ CfgEvent(kind, op, by) \in Event
         /\ CompleteEvent(a) \in Event
         /\ CloseEvent(cause) \in Event
BY DEF CfgEvent, CompleteEvent, CloseEvent, Event, CfgKinds, Senders

LEMMA SendTypes ==
  ASSUME MeshTypeOK, NEW op \in Ops, NEW a \in Addrs \cup {None}, NEW by \in Senders,
         NEW queue \in Seq(Event),
         Sends(op, a, by, queue) \/ SendFails(a, queue)
  PROVE  /\ pending' \in [Addrs -> Msg \cup {NoMsg}]
         /\ events' \in Seq(Event)
<1>1. CfgEvent("err", op, by) \in Event
  BY DEF CfgEvent, Event, CfgKinds, Ops
<1>2. CASE SendFails(a, queue)
  BY <1>2 DEF SendFails, MeshTypeOK
<1>3. CASE Sends(op, a, by, queue) /\ Accepts(a)
  <2>1. [op |-> op, dev |-> nodeDb[a], by |-> by] \in Msg
    BY <1>3 DEF Msg, MeshTypeOK, Ops, Accepts
  <2> QED
    BY <1>3, <2>1 DEF Sends, MeshTypeOK, Accepts
<1>4. CASE Sends(op, a, by, queue) /\ ~Accepts(a)
  <2>1. Append(queue, CfgEvent("err", op, by)) \in Seq(Event)
    BY <1>1
  <2>2. events' = Append(queue, CfgEvent("err", op, by)) /\ pending' = pending
    BY <1>4 DEF Sends
  <2> QED
    BY <2>1, <2>2 DEF MeshTypeOK
<1> QED
  BY <1>2, <1>3, <1>4

LEMMA ReplyTypes ==
  ASSUME RepliesTypeOK, NEW r \in Reqs, NEW status \in {"ok", "orphan", "err"},
         NEW a \in Addrs \cup {None},
         Replies(r, status, a)
  PROVE  /\ answers' \in [Reqs -> Nat]
         /\ said' \subseteq Answer
         /\ answers' = [answers EXCEPT ![r] = @ + 1]
BY DEF RepliesTypeOK, Replies, Answer

LEMMA NoReplyTypes ==
  ASSUME RepliesTypeOK, NoReply
  PROVE  /\ answers' \in [Reqs -> Nat]
         /\ said' \subseteq Answer
         /\ answers' = answers
BY DEF RepliesTypeOK, NoReply

LEMMA BindTypes ==
  ASSUME NEW m \in Maps, NEW a \in Addrs, NEW e \in Entry
  PROVE  Bind(m, a, e) \in Maps /\ Unbind(m, a) \in Maps
BY DEF Maps, Bind, Unbind

LEMMA RecordTypes ==
  ASSUME MapTypeOK, NEW a \in Addrs, NEW e \in Entry, Records(a, e)
  PROVE  MapTypeOK'
BY BindTypes DEF Records, RecordSaved, RecordUnsaved, RecordRefused, MapTypeOK, mapVars

LEMMA ForgetTypes ==
  ASSUME MapTypeOK, NEW a \in Addrs, Forgets(a)
  PROVE  MapTypeOK'
<1>1. Unbind(berths, a) \in Maps
  BY DEF Unbind, Maps, MapTypeOK
<1> QED
  BY <1>1 DEF Forgets, ForgetSaved, ForgetUnsaved, MapTypeOK, mapVars

LEMMA DropTypes ==
  ASSUME MeshTypeOK, RepliesTypeOK, NEW a \in Addrs, DropsNode(a)
  PROVE  nodeDb' \in [Addrs -> Devices \cup {None}] /\ announced' \subseteq Addrs
BY DEF DropsNode, Deletes, DeleteFails, MeshTypeOK, RepliesTypeOK

-----------------------------------------------------------------------------
(* What a callback of the stack may touch when it works on the flow, and   *)
(* what it leaves alone.                                                   *)
FlowTypes ==
  /\ uuidMatch \in Devices \cup {None}
  /\ nodeDb \in [Addrs -> Devices \cup {None}]
  /\ pending \in [Addrs -> Msg \cup {NoMsg}]
  /\ events \in Seq(Event)
  /\ MapTypeOK
  /\ inflight \in [active : BOOLEAN, req : ProvReqs \cup {NoReq}]
  /\ answers \in [Reqs -> Nat]
  /\ said \subseteq Answer
  /\ announced \subseteq Addrs
  /\ provInFlight \in BOOLEAN
  /\ provTarget \in Addrs \cup {None}
  /\ cfgStep \in IDLE..DONE
  /\ provTimer \in BOOLEAN

OtherTypes ==
  /\ link \in [Devices -> {"closed", "open"}]
  /\ node \in [Devices -> [addr : Addrs \cup {None}, cfg : 0..3]]
  /\ online \in BOOLEAN
  /\ delivered \in [Reqs -> Nat]
  /\ meshUp \in BOOLEAN
  /\ provUuid \in Devices \cup {None}
  /\ cfgAttempts \in 0..CFG_MAX_ATTEMPTS
  /\ decom \in [active : BOOLEAN, addr : Addrs \cup {None},
                attempts : 0..DECOM_MAX_ATTEMPTS, req : DecomReqs \cup {NoReq}]

LEMMA TypesSplit == TypeOK <=> FlowTypes /\ OtherTypes
BY DEF TypeOK, MeshTypeOK, RepliesTypeOK, ProvTypeOK, FlowTypes, OtherTypes

LEMMA TypesSplitNext == TypeOK' <=> FlowTypes' /\ OtherTypes'
BY DEF TypeOK, MeshTypeOK, RepliesTypeOK, ProvTypeOK, FlowTypes, OtherTypes

(* The flow is over: nothing of it is left.                                *)
Ended ==
  /\ inflight = NoFlow
  /\ provInFlight = FALSE
  /\ provTimer = FALSE
  /\ uuidMatch = None
  /\ cfgStep = IDLE

LEMMA EndedAgrees == Ended' => FlowAgreement'
<1> SUFFICES ASSUME Ended' PROVE FlowAgreement'
  OBVIOUS
<1>1. inflight'.active = FALSE
  BY DEF Ended, NoFlow
<1> QED
  BY <1>1 DEF Ended, FlowAgreement

(* The ways a step may change the account of requests and answers.         *)
SameBooks ==
  /\ delivered' = delivered /\ answers' = answers
  /\ inflight' = inflight
  /\ decom'.active = decom.active /\ decom'.req = decom.req

AnswersFlow ==
  /\ inflight.active /\ inflight.req \in ProvReqs
  /\ inflight' = NoFlow
  /\ answers' = [answers EXCEPT ![inflight.req] = @ + 1]

LEMMA FlowRequest ==
  ASSUME IInv, provInFlight
  PROVE  inflight.active /\ inflight.req \in ProvReqs
BY DEF IInv, FlowAgreement

LEMMA FinishErrEnds ==
  ASSUME IInv, provInFlight, NEW target \in Addrs \cup {None}, NEW queue \in Seq(Event),
         FinishErr(target, queue)
  PROVE  FlowTypes' /\ Ended' /\ AnswersFlow
<1> USE FlowRequest DEF IInv
<1>1. MeshTypeOK /\ MapTypeOK /\ RepliesTypeOK /\ ProvTypeOK
  BY DEF TypeOK
<1>2. Replies(inflight.req, "err", None) /\ inflight' = NoFlow
  BY DEF FinishErr, OnProvDoneErr
<1>3. /\ answers' \in [Reqs -> Nat] /\ said' \subseteq Answer
      /\ answers' = [answers EXCEPT ![inflight.req] = @ + 1]
  BY <1>1, <1>2, ReplyTypes DEF Reqs
<1>4. /\ pending' \in [Addrs -> Msg \cup {NoMsg}] /\ events' \in Seq(Event)
      /\ nodeDb' \in [Addrs -> Devices \cup {None}] /\ announced' \subseteq Addrs
      /\ MapTypeOK'
  <2>1. CASE target = None
    BY <1>1, <2>1 DEF FinishErr, MeshTypeOK, RepliesTypeOK, MapTypeOK, mapVars
  <2>2. CASE target # None
    <3>1. /\ SendsReset(target, "cleanup", queue)
          /\ DropsNode(target) /\ Forgets(target) /\ target \in Addrs
      BY <2>2 DEF FinishErr
    <3>2. NODE_RESET \in Ops /\ "cleanup" \in Senders
      BY DEF Ops, Senders
    <3>3. pending' \in [Addrs -> Msg \cup {NoMsg}] /\ events' \in Seq(Event)
      BY <1>1, <3>1, <3>2, SendTypes DEF SendsReset
    <3> QED
      BY <1>1, <3>1, <3>3, DropTypes, ForgetTypes
  <2> QED
    BY <2>1, <2>2
<1>5. /\ uuidMatch' = None /\ provInFlight' = FALSE /\ provTimer' = FALSE
      /\ cfgStep' = IDLE /\ provTarget' = None
  BY DEF FinishErr, ClearsMatch
<1>6. NoFlow \in [active : BOOLEAN, req : ProvReqs \cup {NoReq}]
  BY DEF NoFlow
<1>7. FlowTypes'
  <2>1. uuidMatch' \in Devices \cup {None} /\ provTarget' \in Addrs \cup {None}
    BY <1>5
  <2>2. cfgStep' \in IDLE..DONE
    BY <1>5
  <2>3. provInFlight' \in BOOLEAN /\ provTimer' \in BOOLEAN
    BY <1>5
  <2>4. inflight' \in [active : BOOLEAN, req : ProvReqs \cup {NoReq}]
    BY <1>2, <1>6
  <2> QED
    BY <1>3, <1>4, <2>1, <2>2, <2>3, <2>4 DEF FlowTypes
<1>8. Ended'
  BY <1>2, <1>5 DEF Ended
<1> QED
  BY <1>2, <1>3, <1>7, <1>8 DEF AnswersFlow

LEMMA FinishOkEnds ==
  ASSUME IInv, provInFlight, NEW target \in Addrs, NEW queue \in Seq(Event),
         FinishOk(target, queue)
  PROVE  FlowTypes' /\ Ended' /\ AnswersFlow
<1> USE FlowRequest DEF IInv
<1>1. MeshTypeOK /\ MapTypeOK /\ RepliesTypeOK /\ ProvTypeOK
  BY DEF TypeOK
<1>2. /\ Replies(inflight.req, "ok", target) /\ inflight' = NoFlow
      /\ announced' = announced \cup {target}
  BY DEF FinishOk, OnProvDoneOk
<1>3. /\ answers' \in [Reqs -> Nat] /\ said' \subseteq Answer
      /\ answers' = [answers EXCEPT ![inflight.req] = @ + 1]
  BY <1>1, <1>2, ReplyTypes DEF Reqs
<1>4. MapTypeOK'
  <2>1. CASE ReqEntry[inflight.req] # NoEntry
    <3>1. ReqEntry[inflight.req] \in Entry
      BY <2>1, RequestsAssumption
    <3> QED
      BY <1>1, <2>1, <3>1, RecordTypes DEF FinishOk, OnProvDoneOk
  <2>2. CASE ReqEntry[inflight.req] = NoEntry
    BY <1>1, <2>2 DEF FinishOk, OnProvDoneOk, MapTypeOK, mapVars
  <2> QED
    BY <2>1, <2>2
<1>5. /\ uuidMatch' = None /\ provInFlight' = FALSE /\ provTimer' = FALSE
      /\ cfgStep' = IDLE /\ provTarget' = target
      /\ events' = queue /\ pending' = pending /\ nodeDb' = nodeDb
  BY DEF FinishOk, ClearsMatch
<1>6. NoFlow \in [active : BOOLEAN, req : ProvReqs \cup {NoReq}]
  BY DEF NoFlow
<1>7. FlowTypes'
  <2>1. uuidMatch' \in Devices \cup {None} /\ provTarget' \in Addrs \cup {None}
    BY <1>5
  <2>2. cfgStep' \in IDLE..DONE
    BY <1>5
  <2>3. provInFlight' \in BOOLEAN /\ provTimer' \in BOOLEAN
    BY <1>5
  <2>4. inflight' \in [active : BOOLEAN, req : ProvReqs \cup {NoReq}]
    BY <1>2, <1>6
  <2>5. /\ nodeDb' \in [Addrs -> Devices \cup {None}]
        /\ pending' \in [Addrs -> Msg \cup {NoMsg}]
        /\ events' \in Seq(Event) /\ announced' \subseteq Addrs
    BY <1>1, <1>2, <1>5 DEF MeshTypeOK, RepliesTypeOK
  <2> QED
    BY <1>3, <1>4, <2>1, <2>2, <2>3, <2>4, <2>5 DEF FlowTypes
<1>8. Ended'
  BY <1>2, <1>5 DEF Ended
<1> QED
  BY <1>2, <1>3, <1>7, <1>8 DEF AnswersFlow

(* A step of the configuration was sent: the flow goes on.                 *)
LEMMA FlowSendsOn ==
  ASSUME IInv, provInFlight, NEW step \in IDLE..DONE, NEW target \in Addrs \cup {None},
         NEW queue \in Seq(Event), FlowSends(step, target, queue)
  PROVE  FlowTypes' /\ FlowAgreement' /\ inflight' = inflight /\ answers' = answers
<1> USE FlowRequest DEF IInv
<1>1. MeshTypeOK /\ MapTypeOK /\ RepliesTypeOK /\ ProvTypeOK
  BY DEF TypeOK
<1>2. step \in Ops /\ "flow" \in Senders /\ step # IDLE /\ step < DONE
  BY DEF FlowSends, Ops, Senders
<1>3. pending' \in [Addrs -> Msg \cup {NoMsg}] /\ events' \in Seq(Event)
  BY <1>1, <1>2, SendTypes DEF FlowSends
<1>4. /\ cfgStep' = step /\ provTarget' = target /\ target # None
      /\ uuidMatch' = uuidMatch /\ nodeDb' = nodeDb /\ berths' = berths
      /\ savedBerths' = savedBerths /\ announced' = announced /\ inflight' = inflight
      /\ provInFlight' = provInFlight /\ provTimer' = provTimer
      /\ answers' = answers /\ said' = said
  BY DEF FlowSends, Sends, NoReply, mapVars
<1>5. FlowTypes'
  BY <1>1, <1>3, <1>4
  DEF FlowTypes, MeshTypeOK, MapTypeOK, RepliesTypeOK, ProvTypeOK
<1>6. FlowAgreement'
  BY <1>2, <1>4 DEF FlowAgreement
<1> QED
  BY <1>4, <1>5, <1>6

(* Either way of going on with the configuration keeps the agreement, and  *)
(* answers the request exactly when it ends the flow.                      *)
FlowGoesOn == FlowTypes' /\ FlowAgreement'
              /\ ((inflight' = inflight /\ answers' = answers) \/ AnswersFlow)

LEMMA AdvanceGoesOn ==
  ASSUME IInv, provInFlight, NEW target \in Addrs \cup {None}, NEW queue \in Seq(Event),
         target # None \/ cfgStep = IDLE,
         AdvanceStep(target, queue)
  PROVE  FlowGoesOn /\ cfgAttempts' \in 0..CFG_MAX_ATTEMPTS
<1>1. cfgStep \in IDLE..DONE /\ cfgStep < DONE
  BY DEF IInv, TypeOK, ProvTypeOK, FlowAgreement
<1>2. cfgAttempts' \in 0..CFG_MAX_ATTEMPTS
  BY AttemptsAssumption DEF AdvanceStep
<1>3. CASE cfgStep + 1 = DONE
  BY <1>1, <1>2, <1>3, FinishOkEnds, EndedAgrees DEF AdvanceStep, IsDone, FlowGoesOn
<1>4. CASE cfgStep + 1 # DONE
  <2>1. cfgStep + 1 \in IDLE..DONE
    BY <1>1
  <2>2. CASE FlowSends(cfgStep + 1, target, queue)
    BY <1>2, <2>1, <2>2, FlowSendsOn DEF FlowGoesOn
  <2>3. CASE FinishErr(target, queue)
    BY <1>2, <2>3, FinishErrEnds, EndedAgrees DEF FlowGoesOn
  <2> QED
    BY <1>4, <2>2, <2>3 DEF AdvanceStep, IsDone, FlowCannotSend
<1> QED
  BY <1>2, <1>3, <1>4

LEMMA RedoGoesOn ==
  ASSUME IInv, provInFlight, NEW queue \in Seq(Event), CfgMayRetry, RedoStep(queue)
  PROVE  FlowGoesOn /\ cfgAttempts' \in 0..CFG_MAX_ATTEMPTS
<1>1. cfgStep \in IDLE..DONE /\ provTarget \in Addrs \cup {None}
  BY DEF IInv, TypeOK, ProvTypeOK
<1>2. cfgAttempts' \in 0..CFG_MAX_ATTEMPTS
  BY AttemptsAssumption DEF RedoStep, CfgMayRetry, IInv, TypeOK, ProvTypeOK
<1>3. CASE FlowSends(cfgStep, provTarget, queue)
  BY <1>1, <1>2, <1>3, FlowSendsOn DEF FlowGoesOn
<1>4. CASE FinishErr(provTarget, queue)
  BY <1>1, <1>2, <1>4, FinishErrEnds, EndedAgrees DEF FlowGoesOn
<1> QED
  BY <1>2, <1>3, <1>4 DEF RedoStep, FlowCannotSend

-----------------------------------------------------------------------------
(* The stack keeps the types of its own state, and the match.              *)
LEMMA StackTypes ==
  ASSUME MeshTypeOK, MeshNext
  PROVE  MeshTypeOK' /\ uuidMatch' = uuidMatch
<1> USE DEF MeshTypeOK
<1>1. ASSUME NEW d \in Devices, LinkOpens(d)
      PROVE  MeshTypeOK' /\ uuidMatch' = uuidMatch
  BY <1>1 DEF LinkOpens
<1>2. ASSUME NEW d \in Devices, LinkFails(d)
      PROVE  MeshTypeOK' /\ uuidMatch' = uuidMatch
  <2>1. CloseEvent("link-failed") \in Event
    BY DEF CloseEvent, Event
  <2>2. events' \in Seq(Event)
    BY <1>2, <2>1 DEF LinkFails
  <2> QED
    BY <1>2, <2>2 DEF LinkFails
<1>3. ASSUME NEW d \in Devices, NodeLeaves(d)
      PROVE  MeshTypeOK' /\ uuidMatch' = uuidMatch
  <2>1. Unprovisioned \in [addr : Addrs \cup {None}, cfg : 0..3]
    BY DEF Unprovisioned
  <2> QED
    BY <1>3, <2>1 DEF NodeLeaves
<1>4. ASSUME NEW d \in Devices, NEW a \in Addrs, Provisions(d, a)
      PROVE  MeshTypeOK' /\ uuidMatch' = uuidMatch
  <2>1. <<CompleteEvent(a), CloseEvent("link-ok")>> \in Seq(Event)
    BY DEF CompleteEvent, CloseEvent, Event
  <2>2. events' \in Seq(Event)
    BY <1>4, <2>1 DEF Provisions
  <2>3. ASSUME NEW x \in Addrs
        PROVE  [pending[x] EXCEPT !.dev = None] \in Msg \cup {NoMsg}
    <3>1. CASE pending[x] \in Msg
      BY <3>1 DEF Msg
    <3>2. CASE pending[x] = NoMsg
      <4>1. [NoMsg EXCEPT !.dev = None] = NoMsg
        BY DEF NoMsg
      <4> QED
        BY <3>2, <4>1
    <3> QED
      BY <3>1, <3>2
  <2>4. pending' \in [Addrs -> Msg \cup {NoMsg}]
    BY <1>4, <2>3 DEF Provisions
  <2>5. /\ node' \in [Devices -> [addr : Addrs \cup {None}, cfg : 0..3]]
        /\ nodeDb' \in [Addrs -> Devices \cup {None}]
        /\ link' \in [Devices -> {"closed", "open"}]
    BY <1>4 DEF Provisions
  <2> QED
    BY <1>4, <2>2, <2>4, <2>5 DEF Provisions
<1>5. ASSUME NEW a \in Addrs, NEW d \in Devices, Hears(a, d)
      PROVE  /\ pending[a] \in Msg
             /\ Unheard(a) \in [Addrs -> Msg \cup {NoMsg}]
  <2>1. pending[a] \in Msg
    BY <1>5, NoneAssumption DEF Hears, NoMsg
  <2>2. [pending[a] EXCEPT !.dev = None] \in Msg
    BY <2>1 DEF Msg
  <2> QED
    BY <2>1, <2>2 DEF Unheard
<1>6. ASSUME NEW a \in Addrs, NEW d \in Devices, NEW kind \in CfgKinds,
             Hears(a, d), Answers(a, d, kind)
      PROVE  pending' \in [Addrs -> Msg \cup {NoMsg}] /\ events' \in Seq(Event)
  <2>1. pending[a].op \in 0..5 /\ pending[a].by \in Senders
    BY <1>5, <1>6 DEF Msg
  <2>2. CfgEvent(kind, pending[a].op, pending[a].by) \in Event
    BY <2>1 DEF CfgEvent, Event
  <2>3. CASE nodeDb[a] = d
    <3>1. /\ pending' = [pending EXCEPT ![a] = NoMsg]
          /\ events' = Append(events, CfgEvent(kind, pending[a].op, pending[a].by))
      BY <1>6, <2>3 DEF Answers
    <3>2. events' \in Seq(Event)
      BY <2>2, <3>1
    <3> QED
      BY <3>1, <3>2
  <2>4. CASE nodeDb[a] # d
    <3>1. pending' = Unheard(a) /\ events' = events
      BY <1>6, <2>4 DEF Answers
    <3> QED
      BY <1>5, <1>6, <3>1
  <2> QED
    BY <2>3, <2>4
<1>7. ASSUME NEW a \in Addrs, NEW d \in Devices, NodeApplies(a, d)
      PROVE  MeshTypeOK' /\ uuidMatch' = uuidMatch
  <2>1. Hears(a, d) /\ CanApply(pending[a].op, node[d])
    BY <1>7 DEF NodeApplies
  <2>2. pending[a].op \in {1, 2, 3, 5}
    BY <1>5, <2>1 DEF Msg
  <2>3. Applied(pending[a].op, node[d]) \in [addr : Addrs \cup {None}, cfg : 0..3]
    <3>1. Unprovisioned \in [addr : Addrs \cup {None}, cfg : 0..3]
      BY DEF Unprovisioned
    <3>2. ASSUME NEW n \in [addr : Addrs \cup {None}, cfg : 0..3], NEW op \in {1, 2, 3}
          PROVE  [n EXCEPT !.cfg = op] \in [addr : Addrs \cup {None}, cfg : 0..3]
      OBVIOUS
    <3>3. node[d] \in [addr : Addrs \cup {None}, cfg : 0..3]
      OBVIOUS
    <3>4. pending[a].op = 5 \/ pending[a].op \in {1, 2, 3}
      BY <2>2
    <3> QED
      BY <3>1, <3>2, <3>3, <3>4 DEF Applied
  <2>4. node' \in [Devices -> [addr : Addrs \cup {None}, cfg : 0..3]]
    BY <1>7, <2>3 DEF NodeApplies
  <2>5. pending' \in [Addrs -> Msg \cup {NoMsg}] /\ events' \in Seq(Event)
    <3>1. CASE Answers(a, d, "ack")
      BY <1>6, <2>1, <3>1 DEF CfgKinds
    <3>2. CASE pending' = Unheard(a) /\ UNCHANGED events
      BY <1>5, <2>1, <3>2
    <3> QED
      BY <1>7, <3>1, <3>2 DEF NodeApplies
  <2> QED
    BY <1>7, <2>4, <2>5 DEF NodeApplies
<1>8. ASSUME NEW a \in Addrs, NEW d \in Devices, NodeRefuses(a, d)
      PROVE  MeshTypeOK' /\ uuidMatch' = uuidMatch
  <2>1. pending' \in [Addrs -> Msg \cup {NoMsg}] /\ events' \in Seq(Event)
    BY <1>6, <1>8 DEF NodeRefuses, CfgKinds
  <2> QED
    BY <1>8, <2>1 DEF NodeRefuses
<1>9. ASSUME NEW a \in Addrs, NoAnswer(a)
      PROVE  MeshTypeOK' /\ uuidMatch' = uuidMatch
  <2>1. pending[a] \in Msg
    BY <1>9 DEF NoAnswer
  <2>2. CfgEvent("timeout", pending[a].op, pending[a].by) \in Event
    BY <2>1 DEF CfgEvent, Event, CfgKinds, Msg
  <2>3. events' \in Seq(Event)
    BY <1>9, <2>2 DEF NoAnswer
  <2> QED
    BY <1>9, <2>3 DEF NoAnswer
<1> QED
  BY <1>1, <1>2, <1>3, <1>4, <1>7, <1>8, <1>9 DEF MeshNext

-----------------------------------------------------------------------------
(* The account of requests and answers, for every kind of step.            *)
AnswersDecom ==
  /\ decom.active /\ decom.req \in DecomReqs
  /\ decom' = NoDecom
  /\ answers' = [answers EXCEPT ![decom.req] = @ + 1]

Arrives(r) == delivered' = [delivered EXCEPT ![r] = @ + 1]

Books ==
  \/ SameBooks
  \/ AnswersFlow /\ delivered' = delivered /\ decom' = decom
  \/ AnswersDecom /\ delivered' = delivered /\ inflight' = inflight
  \/ \E r \in Reqs : /\ Arrives(r) /\ answers' = [answers EXCEPT ![r] = @ + 1]
                      /\ inflight' = inflight /\ decom' = decom
  \/ \E r \in ProvReqs : /\ Arrives(r) /\ answers' = answers /\ decom' = decom
                          /\ ~inflight.active
                          /\ inflight' = [active |-> TRUE, req |-> r]
  \/ \E r \in DecomReqs : /\ Arrives(r) /\ answers' = answers /\ inflight' = inflight
                           /\ ~decom.active
                           /\ decom'.active = TRUE /\ decom'.req = r
  \/ /\ delivered' = answers /\ answers' = answers
     /\ inflight' = NoFlow /\ decom' = NoDecom

LEMMA BooksBalance ==
  ASSUME IInv, OneAnswerEach, Books
  PROVE  OneAnswerEach'
<1>1. /\ delivered \in [Reqs -> Nat] /\ answers \in [Reqs -> Nat]
      /\ ProvReqs \cap DecomReqs = {} /\ ProvReqs \subseteq Reqs /\ DecomReqs \subseteq Reqs
  BY RequestsAssumption DEF IInv, TypeOK, RepliesTypeOK, Reqs
<1>2. /\ inflight.active => inflight.req \in ProvReqs
      /\ decom.active => decom.req \in DecomReqs
  BY DEF IInv, FlowAgreement, DecomAgreement
<1> SUFFICES ASSUME NEW r \in Reqs
             PROVE  delivered'[r] = answers'[r] + (IF UnderWay(r)' THEN 1 ELSE 0)
  BY DEF OneAnswerEach
<1>3. delivered[r] = answers[r] + (IF UnderWay(r) THEN 1 ELSE 0)
  BY DEF OneAnswerEach
<1> USE DEF UnderWay
<1>4. CASE SameBooks
  BY <1>3, <1>4 DEF SameBooks
<1>5. CASE AnswersFlow /\ delivered' = delivered /\ decom' = decom
  <2>1. answers' = [answers EXCEPT ![inflight.req] = @ + 1] /\ ~inflight'.active
    BY <1>5 DEF AnswersFlow, NoFlow
  <2> QED
    BY <1>1, <1>2, <1>3, <1>5, <2>1 DEF AnswersFlow
<1>6. CASE AnswersDecom /\ delivered' = delivered /\ inflight' = inflight
  <2>1. answers' = [answers EXCEPT ![decom.req] = @ + 1] /\ ~decom'.active
    BY <1>6 DEF AnswersDecom, NoDecom
  <2> QED
    BY <1>1, <1>2, <1>3, <1>6, <2>1 DEF AnswersDecom
<1>7. ASSUME NEW q \in Reqs, Arrives(q), answers' = [answers EXCEPT ![q] = @ + 1],
             inflight' = inflight, decom' = decom
      PROVE  delivered'[r] = answers'[r] + (IF UnderWay(r)' THEN 1 ELSE 0)
  BY <1>1, <1>3, <1>7 DEF Arrives
<1>8. ASSUME NEW q \in ProvReqs, Arrives(q), answers' = answers, decom' = decom,
             ~inflight.active, inflight' = [active |-> TRUE, req |-> q]
      PROVE  delivered'[r] = answers'[r] + (IF UnderWay(r)' THEN 1 ELSE 0)
  <2>1. inflight'.active /\ inflight'.req = q
    BY <1>8
  <2> QED
    BY <1>1, <1>2, <1>3, <1>8, <2>1 DEF Arrives
<1>9. ASSUME NEW q \in DecomReqs, Arrives(q), answers' = answers, inflight' = inflight,
             ~decom.active, decom'.active = TRUE, decom'.req = q
      PROVE  delivered'[r] = answers'[r] + (IF UnderWay(r)' THEN 1 ELSE 0)
  BY <1>1, <1>2, <1>3, <1>9 DEF Arrives
<1>10. CASE /\ delivered' = answers /\ answers' = answers
            /\ inflight' = NoFlow /\ decom' = NoDecom
  <2>1. ~inflight'.active /\ ~decom'.active
    BY <1>10 DEF NoFlow, NoDecom
  <2> QED
    BY <1>1, <1>10, <2>1
<1> QED
  BY <1>4, <1>5, <1>6, <1>7, <1>8, <1>9, <1>10 DEF Books

-----------------------------------------------------------------------------
(* Every kind of step keeps the invariant and enters the books.            *)
Keeps == IInv' /\ Books

LEMMA FlowStep ==
  ASSUME IInv, FlowGoesOn, cfgAttempts' \in 0..CFG_MAX_ATTEMPTS,
         UNCHANGED <<link, node, online, delivered, meshUp, decom, provUuid>>
  PROVE  Keeps
<1>1. OtherTypes'
  BY TypesSplit DEF IInv, OtherTypes
<1>2. TypeOK'
  BY <1>1, TypesSplitNext DEF FlowGoesOn
<1>3. DecomAgreement'
  BY DEF IInv, DecomAgreement
<1>4. Books
  BY DEF Books, SameBooks, FlowGoesOn
<1> QED
  BY <1>2, <1>3, <1>4 DEF Keeps, IInv, FlowGoesOn

LEMMA FlowEnds ==
  ASSUME IInv, provInFlight, NEW queue \in Seq(Event), FinishErr(provTarget, queue),
         UNCHANGED <<link, node, online, delivered, meshUp, decom, provUuid, cfgAttempts>>
  PROVE  Keeps
<1>1. provTarget \in Addrs \cup {None} /\ cfgAttempts \in 0..CFG_MAX_ATTEMPTS
  BY DEF IInv, TypeOK, ProvTypeOK
<1>2. FlowGoesOn
  BY <1>1, FinishErrEnds, EndedAgrees DEF FlowGoesOn
<1> QED
  BY <1>1, <1>2, FlowStep

(* A step that touches neither the flow nor the requests.                  *)
LEMMA QuietStep ==
  ASSUME IInv, TypeOK', SameBooks, decom' = decom,
         UNCHANGED <<uuidMatch, flowVars>>
  PROVE  Keeps
<1>1. /\ uuidMatch' = uuidMatch /\ provInFlight' = provInFlight
      /\ provTarget' = provTarget /\ cfgStep' = cfgStep /\ provTimer' = provTimer
      /\ inflight' = inflight
  BY DEF flowVars, SameBooks
<1>2. FlowAgreement'
  BY <1>1 DEF IInv, FlowAgreement
<1>3. DecomAgreement'
  BY DEF IInv, DecomAgreement
<1> QED
  BY <1>2, <1>3 DEF Keeps, IInv, Books

LEMMA DecomEnds ==
  ASSUME IInv, decom.active, NEW result \in {"ok", "orphan"}, NEW queue \in Seq(Event),
         DecomFinish(result, queue),
         UNCHANGED <<link, node, online, delivered, meshUp>>
  PROVE  Keeps
<1>1. /\ MeshTypeOK /\ MapTypeOK /\ RepliesTypeOK /\ ProvTypeOK
      /\ decom.addr \in Addrs /\ decom.req \in DecomReqs
  BY DEF IInv, TypeOK, DecomAgreement
<1>2. PICK status \in {"ok", "orphan", "err"} : Replies(decom.req, status, decom.addr)
  BY DEF DecomFinish, OnDecomDone
<1>3. /\ answers' \in [Reqs -> Nat] /\ said' \subseteq Answer
      /\ answers' = [answers EXCEPT ![decom.req] = @ + 1]
  <2>1. decom.req \in Reqs /\ decom.addr \in Addrs \cup {None}
    BY <1>1 DEF Reqs
  <2> QED
    BY <1>1, <1>2, <2>1, ReplyTypes
<1>4. MapTypeOK'
  <2>1. Forgets(decom.addr)
    BY DEF DecomFinish, Forgets
  <2> QED
    BY <1>1, <2>1, ForgetTypes
<1>5. nodeDb' \in [Addrs -> Devices \cup {None}] /\ announced' \subseteq Addrs
  <2>1. DropsNode(decom.addr)
    BY DEF DecomFinish, DropsNode
  <2> QED
    BY <1>1, <2>1, DropTypes
<1>6. /\ decom' = NoDecom /\ events' = queue
      /\ uuidMatch' = uuidMatch /\ pending' = pending /\ inflight' = inflight
      /\ UNCHANGED flowVars
  BY DEF DecomFinish
<1>7. NoDecom \in [active : BOOLEAN, addr : Addrs \cup {None},
                   attempts : 0..DECOM_MAX_ATTEMPTS, req : DecomReqs \cup {NoReq}]
  BY AttemptsAssumption DEF NoDecom
<1>8. TypeOK'
  <2>1. MeshTypeOK'
    BY <1>1, <1>5, <1>6 DEF MeshTypeOK
  <2>2. RepliesTypeOK'
    BY <1>1, <1>3, <1>5, <1>6 DEF RepliesTypeOK
  <2>3. ProvTypeOK'
    BY <1>1, <1>6, <1>7 DEF ProvTypeOK, flowVars
  <2> QED
    BY <1>4, <2>1, <2>2, <2>3 DEF TypeOK
<1>9. FlowAgreement'
  BY <1>6 DEF IInv, FlowAgreement, flowVars
<1>10. DecomAgreement'
  BY <1>6 DEF DecomAgreement, NoDecom
<1>11. Books
  BY <1>1, <1>3, <1>6 DEF Books, AnswersDecom
<1> QED
  BY <1>8, <1>9, <1>10, <1>11 DEF Keeps, IInv

-----------------------------------------------------------------------------
(* The callbacks of the stack.                                             *)

LEMMA QueueHead ==
  ASSUME MeshTypeOK, events # <<>>
  PROVE  Head1 \in Event /\ Rest \in Seq(Event)
BY DEF MeshTypeOK, Head1, Rest

LEMMA CallbackKeeps ==
  ASSUME IInv, OnEvent
  PROVE  Keeps
<1>1. /\ MeshTypeOK /\ MapTypeOK /\ RepliesTypeOK /\ ProvTypeOK
      /\ provTarget \in Addrs \cup {None} /\ provInFlight \in BOOLEAN
  BY DEF IInv, TypeOK, ProvTypeOK
<1>2. events # <<>>
  BY DEF OnEvent, OnLinkClose, OnProvComplete, OnOrphanComplete, OnDecomTimeout,
         OnDecomAnswer, OnCfgTimeout, OnCfgAck, OnCfgError, OnStrayCfgEvent
<1>3. Head1 \in Event /\ Rest \in Seq(Event)
  BY <1>1, <1>2, QueueHead
<1>4. CASE OnLinkClose
  <2>1. CASE provInFlight /\ cfgStep < APP_KEY_ADD
    BY <1>3, <1>4, <2>1, FlowEnds DEF OnLinkClose
  <2>2. CASE ~(provInFlight /\ cfgStep < APP_KEY_ADD)
    <3>1. /\ events' = Rest /\ NoReply
          /\ UNCHANGED <<uuidMatch, nodeDb, pending, mapVars, announced, inflight, flowVars,
                         link, node, online, delivered, meshUp, decom>>
      BY <1>4, <2>2 DEF OnLinkClose
    <3>2. TypeOK'
      BY <1>1, <1>3, <3>1
      DEF TypeOK, MeshTypeOK, MapTypeOK, RepliesTypeOK, ProvTypeOK, mapVars, flowVars, NoReply
    <3> QED
      BY <3>1, <3>2, QuietStep DEF SameBooks, NoReply
  <2> QED
    BY <2>1, <2>2
<1>5. CASE OnProvComplete
  <2>1. Head1.addr \in Addrs
    BY <1>3, <1>5 DEF OnProvComplete, Event, CfgKinds
  <2>2. Head1.addr # None
    BY <2>1, NoneAssumption
  <2> QED
    BY <1>3, <1>5, <2>1, <2>2, AdvanceGoesOn, FlowStep DEF OnProvComplete
<1>6. CASE OnOrphanComplete
  <2>1. Head1.addr \in Addrs
    BY <1>3, <1>6 DEF OnOrphanComplete, Event, CfgKinds
  <2>2. nodeDb' \in [Addrs -> Devices \cup {None}] /\ announced' \subseteq Addrs
    BY <1>1, <1>6, <2>1, DropTypes DEF OnOrphanComplete
  <2>3. /\ events' = Rest /\ NoReply
        /\ UNCHANGED <<uuidMatch, link, pending, node, mapVars, inflight, online,
                       delivered, meshUp, flowVars, decom>>
    BY <1>6 DEF OnOrphanComplete, provVars
  <2>4. TypeOK'
    BY <1>1, <1>3, <2>2, <2>3
    DEF TypeOK, MeshTypeOK, MapTypeOK, RepliesTypeOK, ProvTypeOK, mapVars, flowVars, NoReply
  <2> QED
    BY <2>3, <2>4, QuietStep DEF SameBooks, NoReply
<1>7. CASE OnDecomTimeout
  <2>1. decom.active
    BY <1>7 DEF OnDecomTimeout, ForDecom
  <2>2. CASE decom.attempts < DECOM_MAX_ATTEMPTS
    <3>1. /\ decom' = [decom EXCEPT !.attempts = @ + 1]
          /\ SendsReset(decom.addr, "decom", Rest) /\ NoReply
          /\ UNCHANGED <<uuidMatch, nodeDb, mapVars, announced, inflight, flowVars,
                         link, node, online, delivered, meshUp>>
      BY <1>7, <2>2 DEF OnDecomTimeout
    <3>2. /\ decom' \in [active : BOOLEAN, addr : Addrs \cup {None},
                         attempts : 0..DECOM_MAX_ATTEMPTS, req : DecomReqs \cup {NoReq}]
          /\ decom'.active = decom.active /\ decom'.addr = decom.addr
          /\ decom'.req = decom.req
      <4>1. decom.attempts + 1 \in 0..DECOM_MAX_ATTEMPTS
        BY <1>1, <2>2, AttemptsAssumption DEF ProvTypeOK
      <4> QED
        BY <1>1, <3>1, <4>1 DEF ProvTypeOK
    <3>3. NODE_RESET \in Ops /\ "decom" \in Senders /\ decom.addr \in Addrs \cup {None}
      BY <1>1 DEF Ops, Senders, ProvTypeOK
    <3>4. pending' \in [Addrs -> Msg \cup {NoMsg}] /\ events' \in Seq(Event)
      BY <1>1, <1>3, <3>1, <3>3, SendTypes DEF SendsReset
    <3>5. TypeOK'
      BY <1>1, <3>1, <3>2, <3>4
      DEF TypeOK, MeshTypeOK, MapTypeOK, RepliesTypeOK, ProvTypeOK, mapVars, flowVars, NoReply
    <3>6. FlowAgreement'
      BY <3>1 DEF IInv, FlowAgreement, flowVars
    <3>7. DecomAgreement'
      BY <3>2 DEF IInv, DecomAgreement
    <3>8. Books
      BY <3>1, <3>2 DEF Books, SameBooks, NoReply
    <3> QED
      BY <3>5, <3>6, <3>7, <3>8 DEF Keeps, IInv
  <2>3. CASE ~(decom.attempts < DECOM_MAX_ATTEMPTS)
    BY <1>3, <1>7, <2>1, <2>3, DecomEnds DEF OnDecomTimeout
  <2> QED
    BY <2>2, <2>3
<1>8. CASE OnDecomAnswer
  <2>1. decom.active /\ DecomResult(Head1.kind) \in {"ok", "orphan"}
    BY <1>8 DEF OnDecomAnswer, ForDecom, DecomResult
  <2> QED
    BY <1>3, <1>8, <2>1, DecomEnds DEF OnDecomAnswer
<1>9. CASE OnCfgTimeout
  <2>1. CASE CfgMayRetry /\ RedoStep(Rest)
    BY <1>3, <1>9, <2>1, RedoGoesOn, FlowStep DEF OnCfgTimeout
  <2>2. CASE FinishErr(provTarget, Rest) /\ UNCHANGED cfgAttempts
    BY <1>3, <1>9, <2>2, FlowEnds DEF OnCfgTimeout
  <2> QED
    BY <1>9, <2>1, <2>2 DEF OnCfgTimeout
<1>10. CASE OnCfgAck
  <2>1. provTarget # None \/ cfgStep = IDLE
    BY <1>10 DEF OnCfgAck, IInv, FlowAgreement
  <2> QED
    BY <1>1, <1>3, <1>10, <2>1, AdvanceGoesOn, FlowStep DEF OnCfgAck
<1>11. CASE OnCfgError
  BY <1>3, <1>11, FlowEnds DEF OnCfgError
<1>12. CASE OnStrayCfgEvent
  <2>1. TypeOK'
    BY <1>1, <1>3, <1>12
    DEF OnStrayCfgEvent, TypeOK, MeshTypeOK, MapTypeOK, RepliesTypeOK, ProvTypeOK, mapVars,
        replyVars, provVars, flowVars
  <2> QED
    BY <1>12, <2>1, QuietStep DEF OnStrayCfgEvent, SameBooks, replyVars, provVars, flowVars
<1> QED
  BY <1>4, <1>5, <1>6, <1>7, <1>8, <1>9, <1>10, <1>11, <1>12 DEF OnEvent

LEMMA TimerKeeps ==
  ASSUME IInv, ProvTimeout
  PROVE  Keeps
<1>1. provInFlight /\ events \in Seq(Event)
  BY DEF ProvTimeout, IInv, FlowAgreement, TypeOK, MeshTypeOK
<1> QED
  BY <1>1, FlowEnds DEF ProvTimeout

-----------------------------------------------------------------------------
(* The requests, the connection, the start of the mesh and the reboot.     *)

LEMMA ArrivalTypes ==
  ASSUME RepliesTypeOK, NEW r \in Reqs, Delivers(r)
  PROVE  delivered' \in [Reqs -> Nat] /\ Arrives(r)
BY DEF RepliesTypeOK, Delivers, Arrives

(* A request that is answered at once and changes nothing of the flow but  *)
(* what an idle one may keep.                                              *)
FlowKept ==
  /\ UNCHANGED <<meshVars, mapVars, meshUp, decom, inflight, online, announced,
                 provInFlight, provTimer>>
  /\ \/ cfgStep' = cfgStep /\ provTarget' = provTarget /\ provUuid' = provUuid
          /\ cfgAttempts' = cfgAttempts
     \/ ~provInFlight /\ cfgStep' = IDLE /\ provTarget' = None
          /\ provUuid' \in Devices \cup {None} /\ cfgAttempts' = 0

LEMMA AnsweredAtOnce ==
  ASSUME IInv, NEW r \in Reqs, Delivers(r), Replies(r, "err", None), FlowKept
  PROVE  Keeps
<1> USE DEF FlowKept
<1>1. MeshTypeOK /\ MapTypeOK /\ RepliesTypeOK /\ ProvTypeOK
  BY DEF IInv, TypeOK
<1>2. delivered' \in [Reqs -> Nat] /\ Arrives(r)
  BY <1>1, ArrivalTypes
<1>3. /\ answers' \in [Reqs -> Nat] /\ said' \subseteq Answer
      /\ answers' = [answers EXCEPT ![r] = @ + 1]
  BY <1>1, ReplyTypes
<1>4. MeshTypeOK' /\ MapTypeOK' /\ uuidMatch' = uuidMatch
  BY <1>1 DEF MeshTypeOK, meshVars, MapTypeOK, mapVars
<1>5. RepliesTypeOK'
  BY <1>1, <1>2, <1>3 DEF RepliesTypeOK
<1>6. ProvTypeOK'
  BY <1>1, AttemptsAssumption DEF ProvTypeOK
<1>7. FlowAgreement'
  BY <1>4 DEF IInv, FlowAgreement
<1>8. DecomAgreement'
  BY DEF IInv, DecomAgreement
<1>9. Books
  BY <1>2, <1>3 DEF Books
<1> QED
  BY <1>4, <1>5, <1>6, <1>7, <1>8, <1>9 DEF Keeps, IInv, TypeOK

LEMMA UnchangedFlow ==
  UNCHANGED <<meshVars, mapVars, provVars, inflight, online, announced>> => FlowKept
BY DEF provVars, flowVars, FlowKept

LEMMA RejectProvisionKeeps ==
  ASSUME IInv, NEW r \in ProvReqs, RejectProvision(r)
  PROVE  Keeps
<1>1. /\ r \in Reqs /\ Delivers(r) /\ Replies(r, "err", None)
      /\ UNCHANGED <<meshVars, mapVars, provVars, inflight, online, announced>>
  BY DEF RejectProvision, Reqs
<1> QED
  BY <1>1, UnchangedFlow, AnsweredAtOnce

LEMMA RejectDecommissionKeeps ==
  ASSUME IInv, NEW r \in DecomReqs, RejectDecommission(r)
  PROVE  Keeps
<1>1. /\ r \in Reqs /\ Delivers(r) /\ Replies(r, "err", None)
      /\ UNCHANGED <<meshVars, mapVars, provVars, inflight, online, announced>>
  BY DEF RejectDecommission, Reqs
<1> QED
  BY <1>1, UnchangedFlow, AnsweredAtOnce

LEMMA StartProvisionKeeps ==
  ASSUME IInv, NEW r \in ProvReqs, StartProvision(r)
  PROVE  Keeps
<1> DEFINE d == ReqDev[r]
<1>1. /\ MeshTypeOK /\ MapTypeOK /\ RepliesTypeOK /\ ProvTypeOK
      /\ r \in Reqs /\ d \in Devices /\ d # None
  BY RequestsAssumption, NoneAssumption DEF IInv, TypeOK, Reqs
<1>2. /\ Delivers(r) /\ ~inflight.active
      /\ UNCHANGED <<link, nodeDb, pending, events, node, mapVars, online, announced,
                     meshUp, decom>>
  BY DEF StartProvision
<1>3. CASE ProvisionStarts(d) /\ inflight' = [active |-> TRUE, req |-> r] /\ NoReply
  <2>1. /\ provInFlight' = TRUE /\ provTimer' = TRUE /\ uuidMatch' = d
        /\ provUuid' = d /\ provTarget' = None /\ cfgStep' = IDLE /\ cfgAttempts' = 0
    BY <1>3 DEF ProvisionStarts, ResetsFlow, StartsTimer
  <2>2. delivered' \in [Reqs -> Nat] /\ Arrives(r)
    BY <1>1, <1>2, ArrivalTypes
  <2>3. MeshTypeOK' /\ MapTypeOK'
    BY <1>1, <1>2, <2>1 DEF MeshTypeOK, MapTypeOK, mapVars
  <2>4. RepliesTypeOK'
    BY <1>1, <1>2, <1>3, <2>2 DEF RepliesTypeOK, NoReply
  <2>5. ProvTypeOK'
    BY <1>1, <1>2, <2>1, AttemptsAssumption DEF ProvTypeOK
  <2>6. FlowAgreement'
    <3>1. inflight'.active = TRUE /\ inflight'.req = r
      BY <1>3
    <3>2. /\ inflight'.active = provInFlight' /\ provTimer' = provInFlight'
          /\ inflight'.req \in ProvReqs /\ uuidMatch' = ReqDev[inflight'.req]
          /\ cfgStep' = IDLE /\ provTarget' = None
      BY <2>1, <3>1
    <3> QED
      BY <2>1, <3>2 DEF FlowAgreement
  <2>7. DecomAgreement'
    BY <1>2 DEF IInv, DecomAgreement
  <2>8. Books
    BY <1>2, <1>3, <2>2 DEF Books, NoReply
  <2> QED
    BY <2>3, <2>4, <2>5, <2>6, <2>7, <2>8 DEF Keeps, IInv, TypeOK
<1>4. CASE /\ ProvisionStartFails(d) \/ ProvisionRefused
           /\ Replies(r, "err", None) /\ UNCHANGED inflight
  <2>1. /\ UNCHANGED <<provInFlight, provTimer, uuidMatch>>
        /\ \/ cfgStep' = cfgStep /\ provTarget' = provTarget /\ provUuid' = provUuid
                /\ cfgAttempts' = cfgAttempts
           \/ ~provInFlight /\ cfgStep' = IDLE /\ provTarget' = None
                /\ provUuid' \in Devices \cup {None} /\ cfgAttempts' = 0
    BY <1>1, <1>4
    DEF ProvisionStartFails, ProvisionRefused, ProvisionAccepted, ResetsFlow, flowVars
  <2>2. FlowKept
    BY <1>2, <1>4, <2>1 DEF FlowKept, meshVars
  <2> QED
    BY <1>1, <1>2, <1>4, <2>2, AnsweredAtOnce
<1> QED
  BY <1>3, <1>4 DEF StartProvision

LEMMA StartDecommissionKeeps ==
  ASSUME IInv, NEW r \in DecomReqs, NEW a \in Addrs, StartDecommission(r, a)
  PROVE  Keeps
<1>1. MeshTypeOK /\ MapTypeOK /\ RepliesTypeOK /\ ProvTypeOK /\ r \in Reqs
  BY DEF IInv, TypeOK, Reqs
<1>2. /\ Delivers(r) /\ ~decom.active /\ NoReply
      /\ decom' = [active |-> TRUE, addr |-> a, attempts |-> 1, req |-> r]
      /\ SendsReset(a, "decom", events)
      /\ UNCHANGED <<uuidMatch, link, nodeDb, node, mapVars, inflight, online, announced,
                     meshUp, flowVars>>
  BY DEF StartDecommission, DecommissionStarts, DecommissionAccepted
<1>3. /\ decom' \in [active : BOOLEAN, addr : Addrs \cup {None},
                     attempts : 0..DECOM_MAX_ATTEMPTS, req : DecomReqs \cup {NoReq}]
      /\ decom'.active = TRUE /\ decom'.addr = a /\ decom'.req = r
  BY <1>2, AttemptsAssumption
<1>4. NODE_RESET \in Ops /\ "decom" \in Senders /\ events \in Seq(Event)
  BY <1>1 DEF Ops, Senders, MeshTypeOK
<1>5. pending' \in [Addrs -> Msg \cup {NoMsg}] /\ events' \in Seq(Event)
  BY <1>1, <1>2, <1>4, SendTypes DEF SendsReset
<1>6. delivered' \in [Reqs -> Nat] /\ Arrives(r)
  BY <1>1, <1>2, ArrivalTypes
<1>7. MeshTypeOK' /\ MapTypeOK'
  BY <1>1, <1>2, <1>5 DEF MeshTypeOK, MapTypeOK, mapVars
<1>8. RepliesTypeOK'
  BY <1>1, <1>2, <1>6 DEF RepliesTypeOK, NoReply
<1>9. ProvTypeOK'
  BY <1>1, <1>2, <1>3 DEF ProvTypeOK, flowVars
<1>10. FlowAgreement'
  BY <1>2 DEF IInv, FlowAgreement, flowVars
<1>11. DecomAgreement'
  BY <1>3 DEF DecomAgreement
<1>12. Books
  BY <1>2, <1>3, <1>6 DEF Books, NoReply
<1> QED
  BY <1>7, <1>8, <1>9, <1>10, <1>11, <1>12 DEF Keeps, IInv, TypeOK

LEMMA StackKeeps ==
  ASSUME IInv, StackStep
  PROVE  Keeps
<1>1. MeshTypeOK /\ MapTypeOK /\ RepliesTypeOK /\ ProvTypeOK
  BY DEF IInv, TypeOK
<1>2. MeshTypeOK' /\ uuidMatch' = uuidMatch
  BY <1>1, StackTypes DEF StackStep
<1>3. TypeOK'
  BY <1>1, <1>2
  DEF StackStep, TypeOK, MapTypeOK, RepliesTypeOK, ProvTypeOK, mapVars, replyVars, provVars,
      flowVars
<1> QED
  BY <1>2, <1>3, QuietStep DEF StackStep, SameBooks, replyVars, provVars, flowVars

(* Steps that change nothing but the connection or the start of the mesh.  *)
LEMMA LinkKeeps ==
  ASSUME IInv, MeshStarts \/ BrokerConnects \/ BrokerDisconnects \/ UNCHANGED vars
  PROVE  Keeps
<1>1. MeshTypeOK /\ MapTypeOK /\ RepliesTypeOK /\ ProvTypeOK
  BY DEF IInv, TypeOK
<1>2. /\ UNCHANGED <<meshVars, mapVars, flowVars, decom, inflight, delivered, answers,
                     said, announced>>
      /\ meshUp' \in BOOLEAN /\ online' \in BOOLEAN
  BY <1>1
  DEF MeshStarts, BrokerConnects, BrokerDisconnects, vars, replyVars, provVars,
      RepliesTypeOK, ProvTypeOK
<1>3. MeshTypeOK' /\ MapTypeOK'
  BY <1>1, <1>2 DEF MeshTypeOK, meshVars, MapTypeOK, mapVars
<1>4. RepliesTypeOK' /\ ProvTypeOK'
  BY <1>1, <1>2 DEF RepliesTypeOK, ProvTypeOK, flowVars
<1> QED
  BY <1>2, <1>3, <1>4, QuietStep DEF TypeOK, SameBooks, meshVars

LEMMA RebootKeeps ==
  ASSUME IInv, Reboot
  PROVE  Keeps
<1>1. MeshTypeOK /\ MapTypeOK /\ RepliesTypeOK /\ ProvTypeOK
  BY DEF IInv, TypeOK
<1>2. MeshTypeOK' /\ uuidMatch' = None
  <2>1. <<>> \in Seq(Event)
    OBVIOUS
  <2> QED
    BY <1>1, <2>1 DEF Reboot, MeshRestarts, MeshTypeOK
<1>3. MapTypeOK'
  BY <1>1 DEF Reboot, RestoreMap, MapTypeOK
<1>4. NoFlow \in [active : BOOLEAN, req : ProvReqs \cup {NoReq}]
  BY DEF NoFlow
<1>5. RepliesTypeOK'
  BY <1>1, <1>4 DEF Reboot, RepliesTypeOK
<1>6. NoDecom \in [active : BOOLEAN, addr : Addrs \cup {None},
                   attempts : 0..DECOM_MAX_ATTEMPTS, req : DecomReqs \cup {NoReq}]
  BY AttemptsAssumption DEF NoDecom
<1>7. ProvTypeOK'
  <2>1. 0 \in 0..CFG_MAX_ATTEMPTS
    BY AttemptsAssumption
  <2>2. cfgStep' \in IDLE..DONE /\ cfgAttempts' \in 0..CFG_MAX_ATTEMPTS
    BY <2>1 DEF Reboot
  <2>3. meshUp' \in BOOLEAN /\ provInFlight' \in BOOLEAN /\ provTimer' \in BOOLEAN
    BY DEF Reboot
  <2>4. provUuid' \in Devices \cup {None} /\ provTarget' \in Addrs \cup {None}
    BY DEF Reboot
  <2> QED
    BY <1>6, <2>2, <2>3, <2>4 DEF Reboot, ProvTypeOK
<1>8. Ended'
  BY <1>2 DEF Reboot, Ended
<1>9. DecomAgreement'
  BY DEF Reboot, DecomAgreement, NoDecom
<1>10. Books
  BY DEF Reboot, Books
<1> QED
  BY <1>2, <1>3, <1>5, <1>7, <1>8, <1>9, <1>10, EndedAgrees DEF Keeps, IInv, TypeOK

LEMMA StepKeeps ==
  ASSUME IInv, [Next]_vars
  PROVE  Keeps
BY RejectProvisionKeeps, StartProvisionKeeps, StartDecommissionKeeps,
   RejectDecommissionKeeps, StackKeeps, CallbackKeeps, TimerKeeps, LinkKeeps, RebootKeeps
DEF Next

LEMMA InitHolds == Init => IInv /\ OneAnswerEach
<1> SUFFICES ASSUME Init PROVE IInv /\ OneAnswerEach
  OBVIOUS
<1>1. MeshTypeOK
  <2>1. <<>> \in Seq(Event) /\ Unprovisioned \in [addr : Addrs \cup {None}, cfg : 0..3]
    BY DEF Unprovisioned
  <2> QED
    BY <2>1 DEF Init, MeshInit, MeshTypeOK
<1>2. MapTypeOK
  BY DEF Init, MapTypeOK, Maps, NoMap
<1>3. RepliesTypeOK
  BY DEF Init, RepliesInit, RepliesTypeOK, NoFlow
<1>4. ProvTypeOK
  <2>1. 0 \in 0..CFG_MAX_ATTEMPTS /\ cfgStep \in IDLE..DONE
    BY AttemptsAssumption DEF Init, ProvInit
  <2>2. decom \in [active : BOOLEAN, addr : Addrs \cup {None},
                   attempts : 0..DECOM_MAX_ATTEMPTS, req : DecomReqs \cup {NoReq}]
    BY AttemptsAssumption DEF Init, ProvInit, NoDecom
  <2>3. meshUp \in BOOLEAN /\ provInFlight \in BOOLEAN /\ provTimer \in BOOLEAN
    BY DEF Init, ProvInit
  <2>4. provUuid \in Devices \cup {None} /\ provTarget \in Addrs \cup {None}
    BY DEF Init, ProvInit
  <2> QED
    BY <2>1, <2>2, <2>3, <2>4 DEF Init, ProvInit, ProvTypeOK
<1>5. FlowAgreement
  BY DEF Init, MeshInit, RepliesInit, ProvInit, FlowAgreement, NoFlow
<1>6. DecomAgreement
  BY DEF Init, ProvInit, DecomAgreement, NoDecom
<1>7. OneAnswerEach
  BY DEF Init, RepliesInit, ProvInit, OneAnswerEach, UnderWay, NoFlow, NoDecom
<1> QED
  BY <1>1, <1>2, <1>3, <1>4, <1>5, <1>6, <1>7 DEF IInv, TypeOK

-----------------------------------------------------------------------------
(* The theorems.                                                           *)

THEOREM Invariance == Spec => []IInv
<1>1. IInv /\ [Next]_vars => IInv'
  BY StepKeeps DEF Keeps
<1> QED
  BY <1>1, InitHolds, PTL DEF Spec

(* Every variable of the gateway keeps its type: the attempts stay within  *)
(* their limits, the step within cfg_step_t, the queue well formed.        *)
THEOREM TypeCorrect == Spec => []TypeOK
<1>1. IInv => TypeOK
  BY DEF IInv
<1> QED
  BY <1>1, Invariance, PTL

(* The three copies of the flow, in dp_gateway_adopt.c, in                 *)
(* dp_mesh_provisioner.c and in the stack, agree between any two callbacks,*)
(* whatever fails and however many requests, sensors and nodes there are.  *)
THEOREM FlowAgrees == Spec => []FlowAgreement
<1>1. IInv => FlowAgreement
  BY DEF IInv
<1> QED
  BY <1>1, Invariance, PTL

(* Every request that reached a handler is answered once or under way: no  *)
(* path through the two components loses a callback or fires it twice.     *)
THEOREM AnsweredOnce == Spec => []OneAnswerEach
<1>1. IInv /\ OneAnswerEach /\ [Next]_vars => OneAnswerEach'
  BY StepKeeps, BooksBalance DEF Keeps
<1> QED
  BY <1>1, InitHolds, Invariance, PTL DEF Spec

-----------------------------------------------------------------------------
(* What an ok says, while the requests come one at a time and no sensor    *)
(* leaves by itself.  First the queue of events: the addresses whose       *)
(* complete it holds, and the answers to configuration messages.           *)

Completed(q) == {a \in Addrs : \E i \in DOMAIN q : q[i] = CompleteEvent(a)}
CfgEventsIn(q) == {e \in Event : e.kind \in CfgKinds /\ \E i \in DOMAIN q : q[i] = e}

(* Each address is completed once, and one answer is to come at most.      *)
NoTwins(q) ==
  \A i, j \in DOMAIN q : q[i].kind = "complete" /\ q[i] = q[j] => i = j
OneAnswer(q) ==
  \A i, j \in DOMAIN q : q[i].kind \in CfgKinds /\ q[j].kind \in CfgKinds => i = j

(* The indices of a queue that lost its head.                              *)
LEMMA TailIndices ==
  ASSUME NEW q \in Seq(Event), q # <<>>
  PROVE  /\ Tail(q) \in Seq(Event) /\ Head(q) \in Event
         /\ Head(q) = q[1] /\ 1 \in DOMAIN q
         /\ \A i \in DOMAIN Tail(q) : i + 1 \in DOMAIN q /\ Tail(q)[i] = q[i + 1] /\ i + 1 # 1
         /\ \A i \in DOMAIN q : i # 1 => i - 1 \in DOMAIN Tail(q) /\ q[i] = Tail(q)[i - 1]
         /\ \A i \in DOMAIN Tail(q) : i \in Nat
OBVIOUS

(* ... and of one that an event was appended to.                           *)
LEMMA AppendIndices ==
  ASSUME NEW q \in Seq(Event), NEW e \in Event
  PROVE  /\ Append(q, e) \in Seq(Event)
         /\ DOMAIN Append(q, e) = DOMAIN q \cup {Len(q) + 1} /\ Len(q) + 1 \notin DOMAIN q
         /\ Append(q, e)[Len(q) + 1] = e
         /\ \A i \in DOMAIN q : Append(q, e)[i] = q[i]
OBVIOUS

(* A complete carries nothing but the address.                             *)
LEMMA CompleteKind ==
  ASSUME NEW e \in Event, e.kind = "complete"
  PROVE  e.addr \in Addrs /\ e = CompleteEvent(e.addr)
BY DEF Event, CompleteEvent, CfgKinds

(* What a callback takes off the queue, and what it leaves there.          *)
LEMMA QueuePops ==
  ASSUME NEW q \in Seq(Event), q # <<>>
  PROVE  /\ Completed(q) =
              Completed(Tail(q)) \cup {a \in Addrs : Head(q) = CompleteEvent(a)}
         /\ CfgEventsIn(q) = CfgEventsIn(Tail(q)) \cup
                            (IF Head(q).kind \in CfgKinds THEN {Head(q)} ELSE {})
         /\ NoTwins(q) => /\ NoTwins(Tail(q))
                          /\ \A a \in Addrs :
                               Head(q) = CompleteEvent(a) => a \notin Completed(Tail(q))
         /\ OneAnswer(q) => /\ OneAnswer(Tail(q))
                            /\ Head(q).kind \in CfgKinds => CfgEventsIn(Tail(q)) = {}
<1>1. /\ Head(q) \in Event /\ Head(q) = q[1] /\ 1 \in DOMAIN q
      /\ \A i \in DOMAIN Tail(q) : i + 1 \in DOMAIN q /\ Tail(q)[i] = q[i + 1] /\ i + 1 # 1
      /\ \A i \in DOMAIN q : i # 1 => i - 1 \in DOMAIN Tail(q) /\ q[i] = Tail(q)[i - 1]
  BY TailIndices
<1>2. \A e : (\E i \in DOMAIN q : q[i] = e) <=>
        (e = Head(q) \/ \E i \in DOMAIN Tail(q) : Tail(q)[i] = e)
  BY <1>1
<1>3. Completed(q) = Completed(Tail(q)) \cup {a \in Addrs : Head(q) = CompleteEvent(a)}
  BY <1>2 DEF Completed
<1>4. CfgEventsIn(q) = CfgEventsIn(Tail(q)) \cup
                       (IF Head(q).kind \in CfgKinds THEN {Head(q)} ELSE {})
  BY <1>1, <1>2 DEF CfgEventsIn
<1>5. ASSUME NoTwins(q)
      PROVE  /\ NoTwins(Tail(q))
             /\ \A a \in Addrs : Head(q) = CompleteEvent(a) => a \notin Completed(Tail(q))
  <2>1. \A i, j \in DOMAIN Tail(q) : i + 1 = j + 1 => i = j
    BY TailIndices
  <2>2. NoTwins(Tail(q))
    BY <1>1, <1>5, <2>1 DEF NoTwins
  <2>3. \A a : CompleteEvent(a).kind = "complete"
    BY DEF CompleteEvent
  <2> QED
    BY <1>1, <1>5, <2>2, <2>3 DEF NoTwins, Completed
<1>6. ASSUME OneAnswer(q)
      PROVE  /\ OneAnswer(Tail(q))
             /\ Head(q).kind \in CfgKinds => CfgEventsIn(Tail(q)) = {}
  <2>1. \A i, j \in DOMAIN Tail(q) : i + 1 = j + 1 => i = j
    BY TailIndices
  <2> QED
    BY <1>1, <1>6, <2>1 DEF OneAnswer, CfgEventsIn
<1> QED
  BY <1>3, <1>4, <1>5, <1>6

(* What the queue holds after an event was appended.                       *)
LEMMA QueueGrows ==
  ASSUME NEW q \in Seq(Event), NEW e \in Event
  PROVE  /\ Completed(Append(q, e)) = Completed(q) \cup {a \in Addrs : e = CompleteEvent(a)}
         /\ CfgEventsIn(Append(q, e)) =
              CfgEventsIn(q) \cup (IF e.kind \in CfgKinds THEN {e} ELSE {})
         /\ NoTwins(q) /\ (\A a \in Completed(q) : e # CompleteEvent(a)) =>
              NoTwins(Append(q, e))
         /\ OneAnswer(q) /\ (e.kind \in CfgKinds => CfgEventsIn(q) = {}) =>
              OneAnswer(Append(q, e))
<1> DEFINE p == Append(q, e)
           n == Len(q) + 1
<1>1. /\ DOMAIN p = DOMAIN q \cup {n} /\ n \notin DOMAIN q /\ p[n] = e
      /\ \A i \in DOMAIN q : p[i] = q[i] /\ q[i] \in Event
  BY AppendIndices
<1> HIDE DEF p, n
<1>2. \A x : (\E i \in DOMAIN p : p[i] = x) <=> (x = e \/ \E i \in DOMAIN q : q[i] = x)
  BY <1>1
<1>3. Completed(p) = Completed(q) \cup {a \in Addrs : e = CompleteEvent(a)}
  BY <1>2 DEF Completed
<1>4. CfgEventsIn(p) = CfgEventsIn(q) \cup (IF e.kind \in CfgKinds THEN {e} ELSE {})
  BY <1>2 DEF CfgEventsIn
<1>5. ASSUME NoTwins(q), \A a \in Completed(q) : e # CompleteEvent(a)
      PROVE  NoTwins(p)
  <2>1. \A i \in DOMAIN q : q[i] = e => e.kind # "complete"
    BY <1>1, <1>5, CompleteKind DEF Completed
  <2> QED
    BY <1>1, <1>5, <2>1 DEF NoTwins
<1>6. ASSUME OneAnswer(q), e.kind \in CfgKinds => CfgEventsIn(q) = {}
      PROVE  OneAnswer(p)
  <2>1. e.kind \in CfgKinds => \A i \in DOMAIN q : q[i].kind \notin CfgKinds
    BY <1>1, <1>6 DEF CfgEventsIn
  <2> QED
    BY <1>1, <1>6, <2>1 DEF OneAnswer
<1> QED
  BY <1>3, <1>4, <1>5, <1>6 DEF p

-----------------------------------------------------------------------------
(* The invariant behind an ok.  A sensor whose link is open, or whose      *)
(* match is armed while it is unprovisioned, is not in the database.       *)
LinkInv ==
  \A d \in Devices :
    link[d] = "open" \/ (uuidMatch = d /\ node[d].addr = None) =>
      node[d].addr = None /\ ~HasNode(d)

(* Nodes that were announced are in the database, and so are those whose   *)
(* complete is to come, which were not announced.                          *)
NodesInv ==
  /\ \A a \in announced : nodeDb[a] # None
  /\ NoTwins(events)
  /\ \A a \in Completed(events) : nodeDb[a] # None /\ a \notin announced

(* The sensor of the flow has the address, and the database has it there.  *)
Given(a) == nodeDb[a] = uuidMatch /\ node[uuidMatch].addr = a

FlowInv ==
  provInFlight =>
    /\ ~decom.active
    /\ \A d \in Devices : link[d] = "open" => d = uuidMatch
    /\ provTarget # None => /\ Given(provTarget) /\ provTarget \notin announced
                            /\ node[uuidMatch].cfg + 1 >= cfgStep
    /\ \A a \in Completed(events) : Given(a) /\ a # provTarget

(* A flow waits for one answer at a time, to its current step; an          *)
(* acknowledgement says that the node has applied it.                      *)
AnswerInv ==
  provInFlight =>
    /\ \A a \in Addrs : pending[a] # NoMsg =>
         a = provTarget /\ pending[a].op = cfgStep /\ CfgEventsIn(events) = {}
    /\ OneAnswer(events)
    /\ \A e \in CfgEventsIn(events) :
         provTarget # None /\ (e.kind = "ack" => node[uuidMatch].cfg >= cfgStep)

(* The node of the address, if it has one, has left the mesh.              *)
Left(a) == nodeDb[a] # None => node[nodeDb[a]].addr # a

(* During a decommission nothing else is under way, and an acknowledgement *)
(* says that the node has reset itself.                                    *)
DecomInv ==
  decom.active =>
    /\ \A d \in Devices : link[d] = "closed"
    /\ \A a \in Addrs : pending[a] # NoMsg =>
         a = decom.addr /\ pending[a].op = NODE_RESET
    /\ Completed(events) = {}
    /\ \A e \in CfgEventsIn(events) : e.kind = "ack" => Left(decom.addr)

DownInv == ~meshUp => ~provInFlight /\ ~decom.active /\ Quiet

TruthInv == LinkInv /\ NodesInv /\ FlowInv /\ AnswerInv /\ DecomInv /\ DownInv

(* What a step may not do: the bodies of the action properties.            *)
SurvivesStep ==
  \A a \in announced \ announced' : decom.active /\ decom.addr = a /\ ~decom'.active
NamedStep == \A m \in NewOk : m.req \in ProvReqs => nodeDb[m.addr] = ReqDev[m.req]
ConfiguredStep ==
  \A m \in NewOk : (m.req \in ProvReqs /\ nodeDb[m.addr] # None)
                     => \/ node[nodeDb[m.addr]].cfg = MODEL_PUB_SET
                        \/ node[nodeDb[m.addr]].addr # m.addr
LeftStep ==
  \A m \in NewOk : (m.req \in DecomReqs /\ nodeDb[m.addr] # None)
                     => node[nodeDb[m.addr]].addr # m.addr
StrayStep == Stray' \subseteq Stray \/ PowerLost
BerthStep ==
  \A a \in Addrs :
    /\ nodeDb[a] # None /\ nodeDb'[a] = None
    /\ a \in announced \/ (provInFlight /\ a = provTarget)
    => berths'[a] = NoEntry

Truths ==
  /\ SurvivesStep /\ NamedStep /\ ConfiguredStep /\ LeftStep /\ BerthStep
  /\ "delete" \notin Faults => StrayStep

Alone == OneAtATime /\ "leave" \notin Faults

-----------------------------------------------------------------------------
(* What the calls leave behind.                                            *)

(* A message adds at most its error event to the queue.                    *)
LEMMA SendEffects ==
  ASSUME MeshTypeOK, NEW op \in Ops, NEW a \in Addrs \cup {None}, NEW by \in Senders,
         NEW queue \in Seq(Event),
         Sends(op, a, by, queue) \/ SendFails(a, queue)
  PROVE  /\ Completed(events') = Completed(queue)
         /\ NoTwins(queue) => NoTwins(events')
         /\ \A e \in CfgEventsIn(events') : e \in CfgEventsIn(queue) \/ e.kind = "err"
         /\ \A x \in Addrs : x # a => pending'[x] = pending[x]
<1> DEFINE err == CfgEvent("err", op, by)
<1>1. err \in Event /\ err.kind = "err" /\ \A x : err # CompleteEvent(x)
  BY DEF CfgEvent, CompleteEvent, Event, CfgKinds, Ops
<1>2. events' = queue \/ events' = Append(queue, err)
  BY DEF Sends, SendFails
<1>3. \A x \in Addrs : x # a => pending'[x] = pending[x]
  BY DEF Sends, SendFails, MeshTypeOK
<1> HIDE DEF err
<1>4. Completed(Append(queue, err)) = Completed(queue)
  <2>1. {x \in Addrs : err = CompleteEvent(x)} = {}
    BY <1>1
  <2>2. Completed(Append(queue, err)) =
          Completed(queue) \cup {x \in Addrs : err = CompleteEvent(x)}
    BY <1>1, QueueGrows
  <2> QED
    BY <2>1, <2>2
<1>5. NoTwins(queue) => NoTwins(Append(queue, err))
  BY <1>1, QueueGrows
<1>6. CfgEventsIn(Append(queue, err)) \subseteq CfgEventsIn(queue) \cup {err}
  BY <1>1, QueueGrows
<1> QED
  BY <1>1, <1>2, <1>3, <1>4, <1>5, <1>6

(* A message of the flow, while nothing else of it is under way.           *)
LEMMA FlowSendEffects ==
  ASSUME MeshTypeOK, NEW op \in Ops, NEW a \in Addrs, NEW queue \in Seq(Event),
         Sends(op, a, "flow", queue),
         pending[a] = NoMsg, CfgEventsIn(queue) = {}, OneAnswer(queue)
  PROVE  /\ OneAnswer(events')
         /\ \A e \in CfgEventsIn(events') : e.kind = "err"
         /\ pending'[a] # NoMsg => pending'[a].op = op /\ CfgEventsIn(events') = {}
<1> DEFINE err == CfgEvent("err", op, "flow")
<1>1. err \in Event /\ err.kind = "err"
  BY DEF CfgEvent, Event, CfgKinds, Ops, Senders
<1>2. \/ events' = queue /\ pending'[a].op = op
      \/ events' = Append(queue, err) /\ pending' = pending
  BY DEF Sends, MeshTypeOK
<1> HIDE DEF err
<1>3. /\ CfgEventsIn(Append(queue, err)) \subseteq {err}
      /\ OneAnswer(Append(queue, err))
  BY <1>1, QueueGrows
<1> QED
  BY <1>1, <1>2, <1>3

(* An answer says at most one thing.                                       *)
LEMMA NewOks ==
  ASSUME NEW r, NEW status, NEW a, Replies(r, status, a)
  PROVE  \A m \in NewOk : status = "ok" /\ m.req = r /\ m.addr = a
BY DEF Replies, NewOk

LEMMA NoNewOks ==
  ASSUME NoReply
  PROVE  NewOk = {}
BY DEF NoReply, NewOk

(* A berth that is forgotten is gone from the table in RAM.                *)
LEMMA ForgetEffects ==
  ASSUME MapTypeOK, NEW a \in Addrs, Forgets(a)
  PROVE  berths'[a] = NoEntry
BY DEF Forgets, ForgetSaved, ForgetUnsaved, Unbind, MapTypeOK, Maps

(* Stray, by the sets of addresses.                                        *)
LEMMA StrayIs ==
  Stray = {a \in Addrs : /\ nodeDb[a] # None /\ a \notin announced
                         /\ ~(provInFlight /\ a = provTarget) /\ a \notin Completed(events)}
BY DEF Stray, Completed

LEMMA StrayIsNext ==
  Stray' = {a \in Addrs : /\ nodeDb'[a] # None /\ a \notin announced'
                          /\ ~(provInFlight' /\ a = provTarget') /\ a \notin Completed(events')}
BY DEF Stray, Completed

-----------------------------------------------------------------------------
(* The ways a flow goes on or ends.                                        *)

(* The target of a callback is the flow's, or the node a complete gives    *)
(* it; the queue is what is left.                                          *)
TargetOf(target, queue) ==
  /\ target # None => /\ target \notin announced
                      /\ target = provTarget \/ target \in Completed(events)
  /\ provTarget # None => target = provTarget
  /\ NoTwins(queue) /\ target \notin Completed(queue)
  /\ Completed(queue) \subseteq Completed(events)
  /\ Completed(events) \subseteq Completed(queue) \cup {target}

(* A flow that fails takes its node out of the database, with its berth.   *)
LEMMA FinishErrTruth ==
  ASSUME IInv, TruthInv, provInFlight,
         NEW target \in Addrs \cup {None}, NEW queue \in Seq(Event),
         TargetOf(target, queue), FinishErr(target, queue),
         UNCHANGED <<link, node, meshUp, decom>>
  PROVE  TruthInv' /\ Truths
<1>1. /\ MeshTypeOK /\ MapTypeOK /\ RepliesTypeOK /\ ProvTypeOK
      /\ meshUp /\ ~decom.active
  BY DEF IInv, TypeOK, TruthInv, DownInv, FlowInv
<1>2. /\ ~provInFlight' /\ uuidMatch' = None /\ ~decom'.active /\ meshUp'
      /\ UNCHANGED <<link, node>>
  BY <1>1 DEF FinishErr, ClearsMatch
<1>3. Completed(events') = Completed(queue) /\ NoTwins(events')
  <2>1. CASE target = None
    BY <2>1 DEF FinishErr, TargetOf
  <2>2. CASE target # None
    <3>1. NODE_RESET \in Ops /\ "cleanup" \in Senders
      BY DEF Ops, Senders
    <3> QED
      BY <1>1, <2>2, <3>1, SendEffects DEF FinishErr, SendsReset, TargetOf
  <2> QED
    BY <2>1, <2>2
<1>4. \/ nodeDb' = nodeDb /\ announced' = announced
         /\ (target # None => "delete" \in Faults)
      \/ target \in Addrs /\ nodeDb' = [nodeDb EXCEPT ![target] = None]
         /\ announced' = announced \ {target}
  BY DEF FinishErr, DropsNode, Deletes, DeleteFails
<1>5. /\ \A a \in Addrs : nodeDb'[a] # None => nodeDb'[a] = nodeDb[a]
      /\ \A a \in Addrs : a # target => nodeDb'[a] = nodeDb[a]
      /\ announced' = announced
  <2>1. /\ \A a \in Addrs : nodeDb'[a] # None => nodeDb'[a] = nodeDb[a]
        /\ \A a \in Addrs : a # target => nodeDb'[a] = nodeDb[a]
    BY <1>1, <1>4 DEF MeshTypeOK
  <2>2. target \in Addrs => target \notin announced
    BY NoneAssumption DEF TargetOf
  <2> QED
    BY <1>4, <2>1, <2>2
<1>6. LinkInv'
  BY <1>1, <1>2, <1>5, NoneAssumption DEF TruthInv, LinkInv, HasNode, MeshTypeOK
<1>7. NodesInv'
  <2>1. \A a \in Completed(events') : a \in Addrs /\ a # target
    BY <1>3 DEF Completed, TargetOf
  <2>2. \A a \in announced' : a \in Addrs /\ a # target
    BY <1>1, <1>5, NoneAssumption DEF RepliesTypeOK, TargetOf
  <2> QED
    BY <1>3, <1>5, <2>1, <2>2 DEF TruthInv, NodesInv, TargetOf
<1>8. FlowInv' /\ AnswerInv' /\ DecomInv' /\ DownInv'
  BY <1>2 DEF FlowInv, AnswerInv, DecomInv, DownInv
<1>9. NewOk = {}
  <2>1. inflight.active
    BY FlowRequest
  <2> QED
    BY <2>1, NewOks DEF FinishErr, OnProvDoneErr
<1>10. BerthStep
  <2>1. \A a \in Addrs : nodeDb[a] # None /\ nodeDb'[a] = None => a = target
    BY <1>5
  <2>2. target \in Addrs => berths'[target] = NoEntry
    BY <1>1, ForgetEffects, NoneAssumption DEF FinishErr
  <2> QED
    BY <2>1, <2>2 DEF BerthStep
<1>11. "delete" \notin Faults => StrayStep
  <2> SUFFICES ASSUME "delete" \notin Faults, NEW a \in Stray' PROVE a \in Stray
    BY DEF StrayStep
  <2>1. /\ a \in Addrs /\ nodeDb'[a] # None
        /\ a \notin announced' /\ a \notin Completed(events')
    BY StrayIsNext
  <2>2. a # target
    BY <1>1, <1>4, <2>1, NoneAssumption DEF MeshTypeOK
  <2>3. a # provTarget
    BY <2>1, <2>2, NoneAssumption DEF TargetOf
  <2> QED
    BY <1>3, <1>5, <2>1, <2>2, <2>3, StrayIs DEF TargetOf
<1>12. SurvivesStep
  BY <1>5 DEF SurvivesStep
<1> QED
  BY <1>6, <1>7, <1>8, <1>9, <1>10, <1>11, <1>12
  DEF TruthInv, Truths, NamedStep, ConfiguredStep, LeftStep

(* A flow that succeeds has configured the device it was asked for.        *)
LEMMA FinishOkTruth ==
  ASSUME IInv, TruthInv, provInFlight,
         NEW target \in Addrs, NEW queue \in Seq(Event),
         TargetOf(target, queue), FinishOk(target, queue),
         Given(target), node[uuidMatch].cfg >= MODEL_PUB_SET,
         UNCHANGED <<link, node, meshUp, decom>>
  PROVE  TruthInv' /\ Truths
<1>1. /\ MeshTypeOK /\ MapTypeOK /\ RepliesTypeOK /\ ProvTypeOK
      /\ meshUp /\ ~decom.active /\ inflight.active /\ inflight.req \in ProvReqs
      /\ uuidMatch \in Devices /\ uuidMatch = ReqDev[inflight.req]
  BY RequestsAssumption DEF IInv, TypeOK, TruthInv, DownInv, FlowInv, FlowAgreement
<1>2. /\ ~provInFlight' /\ uuidMatch' = None /\ ~decom'.active /\ meshUp'
      /\ UNCHANGED <<link, node, nodeDb>> /\ events' = queue
      /\ announced' = announced \cup {target}
      /\ Replies(inflight.req, "ok", target)
  BY <1>1 DEF FinishOk, ClearsMatch, OnProvDoneOk
<1>3. nodeDb[target] = uuidMatch /\ nodeDb[target] # None
  BY <1>1, NoneAssumption DEF Given
<1>4. LinkInv'
  BY <1>1, <1>2, NoneAssumption DEF TruthInv, LinkInv, HasNode
<1>5. NodesInv'
  BY <1>2, <1>3 DEF TruthInv, NodesInv, TargetOf
<1>6. FlowInv' /\ AnswerInv' /\ DecomInv' /\ DownInv'
  BY <1>2 DEF FlowInv, AnswerInv, DecomInv, DownInv
<1>7. \A m \in NewOk : m.req \in ProvReqs /\ m.req = inflight.req /\ m.addr = target
  BY <1>1, <1>2, NewOks
<1>8. NamedStep /\ LeftStep
  BY <1>1, <1>3, <1>7, RequestsAssumption DEF NamedStep, LeftStep
<1>9. ConfiguredStep
  <2>1. node[uuidMatch].cfg \in 0 .. 3
    BY <1>1 DEF MeshTypeOK
  <2>2. node[uuidMatch].cfg = MODEL_PUB_SET
    BY <2>1
  <2> QED
    BY <1>3, <1>7, <2>2 DEF ConfiguredStep
<1>10. SurvivesStep /\ BerthStep
  BY <1>2 DEF SurvivesStep, BerthStep
<1>11. StrayStep
  <2> SUFFICES ASSUME NEW a \in Stray' PROVE a \in Stray
    BY DEF StrayStep
  <2>1. /\ a \in Addrs /\ nodeDb[a] # None /\ a \notin announced
        /\ a # target /\ a \notin Completed(queue)
    BY <1>2, StrayIsNext
  <2> QED
    BY <2>1, StrayIs, NoneAssumption DEF TargetOf
<1> QED
  BY <1>4, <1>5, <1>6, <1>8, <1>9, <1>10, <1>11 DEF TruthInv, Truths

(* A flow that goes on waits for one answer, to the message it sends.      *)
LEMMA FlowSendsTruth ==
  ASSUME IInv, TruthInv, provInFlight, NEW step \in IDLE..DONE,
         NEW target \in Addrs, NEW queue \in Seq(Event),
         TargetOf(target, queue), FlowSends(step, target, queue),
         Given(target), node[uuidMatch].cfg + 1 >= step,
         \A a \in Addrs : pending[a] = NoMsg, CfgEventsIn(queue) = {}, OneAnswer(queue),
         \A a \in Completed(queue) : Given(a),
         UNCHANGED <<link, node, meshUp, decom>>
  PROVE  TruthInv' /\ Truths
<1>1. /\ MeshTypeOK /\ MapTypeOK /\ RepliesTypeOK /\ ProvTypeOK
      /\ meshUp /\ ~decom.active
  BY DEF IInv, TypeOK, TruthInv, DownInv, FlowInv
<1>2. /\ provInFlight' /\ uuidMatch' = uuidMatch /\ ~decom'.active /\ meshUp'
      /\ UNCHANGED <<link, node, nodeDb, announced>>
      /\ cfgStep' = step /\ provTarget' = target /\ NoReply
      /\ Sends(step, target, "flow", queue) /\ step \in Ops
  BY <1>1 DEF FlowSends, Ops
<1>3. target # None /\ "flow" \in Senders
  BY NoneAssumption DEF Senders
<1>4. /\ Completed(events') = Completed(queue) /\ NoTwins(events')
      /\ \A x \in Addrs : x # target => pending'[x] = pending[x]
  BY <1>1, <1>2, <1>3, SendEffects DEF TargetOf
<1>5. /\ OneAnswer(events')
      /\ \A e \in CfgEventsIn(events') : e.kind = "err"
      /\ pending'[target] # NoMsg => pending'[target].op = step /\ CfgEventsIn(events') = {}
  BY <1>1, <1>2, FlowSendEffects
<1>6. LinkInv'
  BY <1>2 DEF TruthInv, LinkInv, HasNode
<1>7. NodesInv'
  BY <1>2, <1>4 DEF TruthInv, NodesInv, TargetOf
<1>8. FlowInv'
  BY <1>2, <1>3, <1>4 DEF TruthInv, FlowInv, Given, TargetOf
<1>9. AnswerInv'
  BY <1>2, <1>3, <1>4, <1>5 DEF AnswerInv
<1>10. DecomInv' /\ DownInv'
  BY <1>2 DEF DecomInv, DownInv
<1>11. NewOk = {}
  BY <1>2, NoNewOks
<1>12. SurvivesStep /\ BerthStep
  BY <1>2 DEF SurvivesStep, BerthStep
<1>13. StrayStep
  <2> SUFFICES ASSUME NEW a \in Stray' PROVE a \in Stray
    BY DEF StrayStep
  <2>1. /\ a \in Addrs /\ nodeDb[a] # None /\ a \notin announced
        /\ a # target /\ a \notin Completed(queue)
    BY <1>2, <1>4, StrayIsNext
  <2> QED
    BY <2>1, StrayIs, NoneAssumption DEF TargetOf
<1> QED
  BY <1>6, <1>7, <1>8, <1>9, <1>10, <1>11, <1>12, <1>13
  DEF TruthInv, Truths, NamedStep, ConfiguredStep, LeftStep


(* Going on with the configuration: its next step, or the end.             *)
LEMMA AdvanceTruth ==
  ASSUME IInv, TruthInv, provInFlight, NEW target \in Addrs, NEW queue \in Seq(Event),
         TargetOf(target, queue), AdvanceStep(target, queue),
         Given(target), node[uuidMatch].cfg >= cfgStep,
         \A a \in Addrs : pending[a] = NoMsg, CfgEventsIn(queue) = {}, OneAnswer(queue),
         \A a \in Completed(queue) : Given(a),
         UNCHANGED <<link, node, meshUp, decom>>
  PROVE  TruthInv' /\ Truths
<1>1. /\ cfgStep \in 0 .. 3 /\ uuidMatch \in Devices
      /\ node[uuidMatch].cfg \in 0 .. 3
  BY RequestsAssumption DEF IInv, TypeOK, ProvTypeOK, MeshTypeOK, FlowAgreement
<1>2. CASE cfgStep + 1 = DONE /\ FinishOk(target, queue)
  BY <1>1, <1>2, FinishOkTruth
<1>3. CASE FlowSends(cfgStep + 1, target, queue)
  BY <1>1, <1>3, FlowSendsTruth
<1>4. CASE FinishErr(target, queue)
  BY <1>4, FinishErrTruth
<1> QED
  BY <1>2, <1>3, <1>4 DEF AdvanceStep, IsDone, FlowCannotSend

-----------------------------------------------------------------------------
(* The callbacks.  An event other than a complete leaves the flow its      *)
(* target.                                                                 *)

LEMMA TargetStays ==
  ASSUME IInv, TruthInv, provInFlight, NEW queue \in Seq(Event),
         NoTwins(queue), Completed(queue) = Completed(events)
  PROVE  TargetOf(provTarget, queue)
<1>1. /\ provTarget # None => provTarget \notin announced
      /\ provTarget \notin Completed(events)
  BY DEF TruthInv, FlowInv
<1> QED
  BY <1>1 DEF TargetOf

(* What is left when an event has been taken.                              *)
LEMMA PopEffects ==
  ASSUME IInv, TruthInv, events # <<>>
  PROVE  /\ Head1 \in Event /\ Rest \in Seq(Event) /\ NoTwins(Rest)
         /\ Completed(Rest) \subseteq Completed(events)
         /\ CfgEventsIn(Rest) \subseteq CfgEventsIn(events)
         /\ Head1.kind # "complete" => Completed(Rest) = Completed(events)
         /\ Head1.kind \in CfgKinds => Head1 \in CfgEventsIn(events)
         /\ OneAnswer(events) =>
              OneAnswer(Rest) /\ (Head1.kind \in CfgKinds => CfgEventsIn(Rest) = {})
<1> USE DEF Head1, Rest
<1>1. events \in Seq(Event) /\ NoTwins(events)
  BY DEF IInv, TypeOK, MeshTypeOK, TruthInv, NodesInv
<1>2. Head(events) \in Event /\ Tail(events) \in Seq(Event)
  BY <1>1, TailIndices
<1>3. Head1.kind # "complete" => {a \in Addrs : Head1 = CompleteEvent(a)} = {}
  BY DEF CompleteEvent
<1>4. /\ Completed(events) = Completed(Rest) \cup {a \in Addrs : Head1 = CompleteEvent(a)}
      /\ CfgEventsIn(events) = CfgEventsIn(Rest) \cup
                              (IF Head1.kind \in CfgKinds THEN {Head1} ELSE {})
      /\ NoTwins(Rest)
      /\ OneAnswer(events) =>
           OneAnswer(Rest) /\ (Head1.kind \in CfgKinds => CfgEventsIn(Rest) = {})
  BY <1>1, QueuePops
<1>5. Head1 \in Event /\ Rest \in Seq(Event)
  BY <1>2
<1> QED
  BY ONLY <1>3, <1>4, <1>5

(* An event that changes nothing but the queue.                            *)
LEMMA EventTaken ==
  ASSUME IInv, TruthInv, events # <<>>, Head1.kind # "complete", events' = Rest, NoReply,
         UNCHANGED <<uuidMatch, link, nodeDb, pending, node, mapVars, announced, meshUp,
                     flowVars, decom>>
  PROVE  TruthInv' /\ Truths
<1>1. /\ NoTwins(Rest) /\ Completed(Rest) = Completed(events)
      /\ CfgEventsIn(Rest) \subseteq CfgEventsIn(events)
      /\ OneAnswer(events) => OneAnswer(Rest)
  BY PopEffects
<1>2. UNCHANGED <<provInFlight, provTarget, cfgStep>>
  BY DEF flowVars
<1>3. LinkInv' /\ NodesInv'
  BY <1>1 DEF TruthInv, LinkInv, NodesInv, HasNode
<1>4. FlowInv'
  BY <1>1, <1>2 DEF TruthInv, FlowInv, Given
<1>5. AnswerInv'
  BY <1>1, <1>2 DEF TruthInv, AnswerInv
<1>6. DecomInv'
  BY <1>1 DEF TruthInv, DecomInv, Left
<1>7. DownInv'
  BY <1>2 DEF TruthInv, DownInv, Quiet
<1>8. NewOk = {}
  BY NoNewOks
<1>9. StrayStep
  BY <1>1, <1>2, StrayIs, StrayIsNext DEF StrayStep
<1>10. SurvivesStep /\ BerthStep
  BY DEF SurvivesStep, BerthStep
<1> QED
  BY <1>3, <1>4, <1>5, <1>6, <1>7, <1>8, <1>9, <1>10
  DEF TruthInv, Truths, NamedStep, ConfiguredStep, LeftStep

(* A link that closes ends a flow that has no node yet.                    *)
LEMMA LinkCloseTruth ==
  ASSUME IInv, TruthInv, OnLinkClose
  PROVE  TruthInv' /\ Truths
<1>1. events # <<>> /\ Head1.kind = "close" /\ UNCHANGED <<link, node, meshUp, decom>>
  BY DEF OnLinkClose
<1>2. /\ Rest \in Seq(Event) /\ NoTwins(Rest) /\ Completed(Rest) = Completed(events)
      /\ CfgEventsIn(Rest) \subseteq CfgEventsIn(events)
      /\ OneAnswer(events) => OneAnswer(Rest)
  BY <1>1, PopEffects
<1>3. CASE provInFlight /\ cfgStep < APP_KEY_ADD
  <2>1. FinishErr(provTarget, Rest) /\ provTarget \in Addrs \cup {None}
    BY <1>3 DEF OnLinkClose, IInv, TypeOK, ProvTypeOK
  <2>2. TargetOf(provTarget, Rest)
    BY <1>2, <1>3, TargetStays
  <2> QED
    BY <1>1, <1>2, <1>3, <2>1, <2>2, FinishErrTruth
<1>4. CASE ~(provInFlight /\ cfgStep < APP_KEY_ADD)
  BY <1>1, <1>2, <1>4, EventTaken DEF OnLinkClose
<1> QED
  BY <1>3, <1>4

(* A complete in a flow gives it its node, the first and only one.         *)
LEMMA CompleteTruth ==
  ASSUME IInv, TruthInv, OnProvComplete
  PROVE  TruthInv' /\ Truths
<1> DEFINE a == Head1.addr
<1>1. /\ events # <<>> /\ Head1.kind = "complete" /\ provInFlight
      /\ AdvanceStep(a, Rest) /\ UNCHANGED <<link, node, meshUp, decom>>
  BY DEF OnProvComplete
<1>2. /\ Head1 \in Event /\ Rest \in Seq(Event) /\ NoTwins(Rest)
      /\ CfgEventsIn(Rest) \subseteq CfgEventsIn(events)
      /\ OneAnswer(events) => OneAnswer(Rest)
  BY <1>1, PopEffects
<1>3. a \in Addrs /\ Head1 = CompleteEvent(a)
  BY <1>1, <1>2, CompleteKind
<1>4. /\ a \in Completed(events) /\ a \notin Completed(Rest)
      /\ Completed(events) \subseteq Completed(Rest) \cup {a}
      /\ Completed(Rest) \subseteq Completed(events)
  <2>1. events \in Seq(Event) /\ NoTwins(events)
    BY DEF IInv, TypeOK, MeshTypeOK, TruthInv, NodesInv
  <2>2. {x \in Addrs : Head1 = CompleteEvent(x)} = {a}
    BY <1>3 DEF CompleteEvent
  <2> QED
    BY <1>1, <1>3, <2>1, <2>2, QueuePops DEF Head1, Rest
<1>5. Given(a) /\ a # provTarget /\ a \notin announced
  BY <1>1, <1>4 DEF TruthInv, FlowInv, NodesInv
<1>6. provTarget = None
  BY <1>1, <1>5 DEF TruthInv, FlowInv, Given
<1>7. /\ \A x \in Addrs : pending[x] = NoMsg
      /\ CfgEventsIn(Rest) = {} /\ OneAnswer(Rest)
  BY <1>1, <1>2, <1>6, NoneAssumption DEF TruthInv, AnswerInv
<1>8. node[uuidMatch].cfg >= cfgStep
  <2>1. cfgStep = IDLE /\ uuidMatch \in Devices
    BY <1>1, <1>6, RequestsAssumption DEF IInv, FlowAgreement
  <2> QED
    BY <2>1 DEF IInv, TypeOK, MeshTypeOK
<1>9. TargetOf(a, Rest)
  BY <1>2, <1>4, <1>5, <1>6 DEF TargetOf
<1>10. \A x \in Completed(Rest) : Given(x)
  BY <1>1, <1>4 DEF TruthInv, FlowInv
<1> HIDE DEF a
<1> QED
  BY <1>1, <1>2, <1>3, <1>5, <1>7, <1>8, <1>9, <1>10, AdvanceTruth

(* A complete outside a flow: its node was never announced.                *)
LEMMA OrphanTruth ==
  ASSUME IInv, TruthInv, OnOrphanComplete
  PROVE  TruthInv' /\ Truths
<1> DEFINE a == Head1.addr
<1>1. /\ events # <<>> /\ Head1.kind = "complete" /\ ~provInFlight
      /\ DropsNode(a) /\ events' = Rest /\ NoReply
      /\ UNCHANGED <<uuidMatch, link, pending, node, mapVars, provInFlight, provTarget,
                     meshUp, decom>>
  BY DEF OnOrphanComplete, provVars, flowVars
<1>2. /\ Head1 \in Event /\ NoTwins(Rest)
  BY <1>1, PopEffects
<1>3. a \in Addrs /\ Head1 = CompleteEvent(a)
  BY <1>1, <1>2, CompleteKind
<1>4. /\ a \in Completed(events) /\ a \notin Completed(Rest)
      /\ Completed(events) \subseteq Completed(Rest) \cup {a}
      /\ Completed(Rest) \subseteq Completed(events)
  <2>1. events \in Seq(Event) /\ NoTwins(events)
    BY DEF IInv, TypeOK, MeshTypeOK, TruthInv, NodesInv
  <2>2. {x \in Addrs : Head1 = CompleteEvent(x)} = {a}
    BY <1>3 DEF CompleteEvent
  <2> QED
    BY <1>1, <1>3, <2>1, <2>2, QueuePops DEF Head1, Rest
<1> HIDE DEF a
<1>5. a \notin announced /\ ~decom.active
  BY <1>4 DEF TruthInv, NodesInv, DecomInv
<1>6. /\ nodeDb \in [Addrs -> Devices \cup {None}]
      /\ announced' = announced /\ announced \subseteq Addrs
      /\ \/ nodeDb' = nodeDb /\ "delete" \in Faults
         \/ nodeDb' = [nodeDb EXCEPT ![a] = None]
  <2>1. announced \ {a} = announced
    BY <1>5
  <2> QED
    BY <1>1, <2>1
    DEF DropsNode, Deletes, DeleteFails, IInv, TypeOK, MeshTypeOK, RepliesTypeOK
<1>7. /\ \A x \in Addrs : nodeDb'[x] # None => nodeDb'[x] = nodeDb[x]
      /\ \A x \in Addrs : x # a => nodeDb'[x] = nodeDb[x]
      /\ "delete" \notin Faults => nodeDb'[a] = None
  BY <1>3, <1>6
<1>8. LinkInv'
  BY <1>1, <1>7, NoneAssumption DEF TruthInv, LinkInv, HasNode
<1>9. NodesInv'
  BY <1>1, <1>2, <1>4, <1>5, <1>6, <1>7 DEF TruthInv, NodesInv, Completed
<1>10. FlowInv' /\ AnswerInv' /\ DecomInv'
  BY <1>1, <1>5 DEF FlowInv, AnswerInv, DecomInv
<1>11. DownInv'
  BY <1>1 DEF TruthInv, DownInv, Quiet
<1>12. NewOk = {}
  BY <1>1, NoNewOks
<1>13. SurvivesStep
  BY <1>6 DEF SurvivesStep
<1>14. BerthStep
  BY <1>1, <1>5, <1>7 DEF BerthStep
<1>15. "delete" \notin Faults => StrayStep
  <2> SUFFICES ASSUME "delete" \notin Faults, NEW x \in Stray' PROVE x \in Stray
    BY DEF StrayStep
  <2>1. x \in Addrs /\ nodeDb'[x] # None /\ x \notin announced /\ x \notin Completed(Rest)
    BY <1>1, <1>6, StrayIsNext
  <2>2. x # a
    BY <1>7, <2>1
  <2> QED
    BY <1>1, <1>4, <1>7, <2>1, <2>2, StrayIs
<1> QED
  BY <1>8, <1>9, <1>10, <1>11, <1>12, <1>13, <1>14, <1>15
  DEF TruthInv, Truths, NamedStep, ConfiguredStep, LeftStep

(* The answers to the configuration messages of the flow.                  *)
LEMMA FlowAnswerTruth ==
  ASSUME IInv, TruthInv, OnCfgTimeout \/ OnCfgAck \/ OnCfgError
  PROVE  TruthInv' /\ Truths
<1>1. /\ events # <<>> /\ provInFlight /\ Head1.kind \in CfgKinds
      /\ Head1.kind # "complete" /\ UNCHANGED <<link, node, meshUp, decom>>
  BY DEF OnCfgTimeout, OnCfgAck, OnCfgError, ForFlow, CfgKinds
<1>2. Head1 \in CfgEventsIn(events) /\ OneAnswer(events)
  BY <1>1, PopEffects DEF TruthInv, AnswerInv
<1>3. /\ Rest \in Seq(Event) /\ NoTwins(Rest) /\ Completed(Rest) = Completed(events)
      /\ OneAnswer(Rest) /\ CfgEventsIn(Rest) = {}
  BY <1>1, <1>2, PopEffects
<1>4. /\ provTarget # None /\ provTarget \in Addrs
      /\ Given(provTarget) /\ node[uuidMatch].cfg + 1 >= cfgStep
  BY <1>1, <1>2 DEF TruthInv, AnswerInv, FlowInv, IInv, TypeOK, ProvTypeOK
<1>5. /\ \A x \in Addrs : pending[x] = NoMsg
      /\ Head1.kind = "ack" => node[uuidMatch].cfg >= cfgStep
  BY <1>1, <1>2 DEF TruthInv, AnswerInv
<1>6. \A x \in Completed(Rest) : Given(x)
  BY <1>1, <1>3 DEF TruthInv, FlowInv
<1>7. TargetOf(provTarget, Rest)
  BY <1>1, <1>3, TargetStays
<1>8. CASE FinishErr(provTarget, Rest)
  BY <1>1, <1>3, <1>4, <1>7, <1>8, FinishErrTruth
<1>9. CASE FlowSends(cfgStep, provTarget, Rest)
  <2>1. cfgStep \in IDLE..DONE
    BY DEF IInv, TypeOK, ProvTypeOK
  <2> QED
    BY <1>1, <1>3, <1>4, <1>5, <1>6, <1>7, <1>9, <2>1, FlowSendsTruth
<1>10. CASE OnCfgAck
  BY <1>1, <1>3, <1>4, <1>5, <1>6, <1>7, <1>10, AdvanceTruth DEF OnCfgAck
<1> QED
  BY <1>8, <1>9, <1>10 DEF OnCfgTimeout, OnCfgError, RedoStep, FlowCannotSend

(* The ttl ends a flow without taking an event.                            *)
LEMMA TimeoutTruth ==
  ASSUME IInv, TruthInv, ProvTimeout
  PROVE  TruthInv' /\ Truths
<1>1. /\ provInFlight /\ FinishErr(provTarget, events)
      /\ UNCHANGED <<link, node, meshUp, decom>>
  BY DEF ProvTimeout, IInv, FlowAgreement
<1>2. events \in Seq(Event) /\ NoTwins(events) /\ provTarget \in Addrs \cup {None}
  BY DEF IInv, TypeOK, MeshTypeOK, ProvTypeOK, TruthInv, NodesInv
<1>3. TargetOf(provTarget, events)
  BY <1>1, <1>2, TargetStays
<1> QED
  BY <1>1, <1>2, <1>3, FinishErrTruth

-----------------------------------------------------------------------------
(* The decommission: a retry, and the end.                                 *)

(* The next attempt of a decommission.                                     *)
LEMMA DecomRetryTruth ==
  ASSUME IInv, TruthInv, OnDecomTimeout, decom.attempts < DECOM_MAX_ATTEMPTS
  PROVE  TruthInv' /\ Truths
<1>1. /\ events # <<>> /\ decom.active /\ Head1.kind # "complete"
      /\ decom' = [decom EXCEPT !.attempts = @ + 1]
      /\ SendsReset(decom.addr, "decom", Rest) /\ NoReply
      /\ UNCHANGED <<uuidMatch, nodeDb, mapVars, announced, inflight, flowVars,
                     link, node, meshUp>>
  BY DEF OnDecomTimeout, ForDecom
<1>2. /\ MeshTypeOK /\ decom.addr \in Addrs /\ ~provInFlight /\ meshUp
  BY <1>1 DEF IInv, TypeOK, DecomAgreement, TruthInv, FlowInv, DownInv
<1>3. /\ decom'.active /\ decom'.addr = decom.addr
      /\ UNCHANGED <<provInFlight, provTarget>>
  BY <1>1 DEF IInv, TypeOK, ProvTypeOK, flowVars
<1>4. /\ Rest \in Seq(Event) /\ NoTwins(Rest) /\ Completed(Rest) = Completed(events)
      /\ CfgEventsIn(Rest) \subseteq CfgEventsIn(events)
  BY <1>1, PopEffects
<1>5. /\ Completed(events') = Completed(Rest) /\ NoTwins(events')
      /\ \A e \in CfgEventsIn(events') : e \in CfgEventsIn(Rest) \/ e.kind = "err"
      /\ \A x \in Addrs : x # decom.addr => pending'[x] = pending[x]
  <2>1. NODE_RESET \in Ops /\ "decom" \in Senders
    BY DEF Ops, Senders
  <2> QED
    BY <1>1, <1>2, <1>4, <2>1, SendEffects DEF SendsReset
<1>6. pending'[decom.addr] # NoMsg => pending'[decom.addr].op = NODE_RESET
  <2>1. \/ pending' = pending
        \/ pending' = [pending EXCEPT ![decom.addr] =
                         [op |-> NODE_RESET, dev |-> nodeDb[decom.addr], by |-> "decom"]]
    BY <1>1 DEF SendsReset, Sends, SendFails
  <2>2. CASE pending' = pending
    BY <1>1, <1>2, <2>2 DEF TruthInv, DecomInv
  <2>3. CASE pending' # pending
    BY <1>2, <2>1, <2>3 DEF MeshTypeOK
  <2> QED
    BY <2>2, <2>3
<1>7. LinkInv' /\ NodesInv'
  BY <1>1, <1>4, <1>5 DEF TruthInv, LinkInv, NodesInv, HasNode
<1>8. FlowInv' /\ AnswerInv' /\ DownInv'
  BY <1>1, <1>2, <1>3 DEF FlowInv, AnswerInv, DownInv
<1>9. DecomInv'
  BY <1>1, <1>3, <1>4, <1>5, <1>6 DEF TruthInv, DecomInv, Left
<1>10. NewOk = {}
  BY <1>1, NoNewOks
<1>11. StrayStep
  BY <1>1, <1>3, <1>4, <1>5, StrayIs, StrayIsNext DEF StrayStep
<1>12. SurvivesStep /\ BerthStep
  BY <1>1 DEF SurvivesStep, BerthStep
<1> QED
  BY <1>7, <1>8, <1>9, <1>10, <1>11, <1>12
  DEF TruthInv, Truths, NamedStep, ConfiguredStep, LeftStep

(* Its end, with the local cleanup.                                        *)
LEMMA DecomEndsTruth ==
  ASSUME IInv, TruthInv, decom.active, events # <<>>, Head1.kind \in CfgKinds,
         NEW result \in {"ok", "orphan"}, result = "ok" => Head1.kind = "ack",
         DecomFinish(result, Rest),
         UNCHANGED <<link, node, meshUp>>
  PROVE  TruthInv' /\ Truths
<1> DEFINE a == decom.addr
<1>1. /\ MeshTypeOK /\ MapTypeOK /\ RepliesTypeOK
      /\ a \in Addrs /\ decom.req \in DecomReqs
      /\ ~provInFlight /\ meshUp /\ Completed(events) = {}
  BY DEF IInv, TypeOK, DecomAgreement, TruthInv, FlowInv, DownInv, DecomInv
<1>2. /\ DropsNode(a) /\ Forgets(a)
      /\ ~decom'.active /\ events' = Rest
      /\ UNCHANGED <<uuidMatch, pending, provInFlight, provTarget>>
  BY DEF DecomFinish, DropsNode, Forgets, NoDecom, flowVars
<1>3. PICK status \in {"ok", "orphan", "err"} :
         Replies(decom.req, status, a) /\ (status = "ok" => result = "ok")
  BY DEF DecomFinish, OnDecomDone
<1>4. Completed(Rest) = {} /\ NoTwins(Rest)
  BY <1>1, PopEffects
<1>5. Head1 \in CfgEventsIn(events)
  BY PopEffects
<1>6. result = "ok" => Left(a)
  BY <1>5 DEF TruthInv, DecomInv
<1> HIDE DEF a
<1>7. /\ \A x \in Addrs : nodeDb'[x] # None => nodeDb'[x] = nodeDb[x]
      /\ \A x \in Addrs : x # a => nodeDb'[x] = nodeDb[x]
      /\ "delete" \notin Faults => nodeDb'[a] = None
  BY <1>1, <1>2 DEF DropsNode, Deletes, DeleteFails, MeshTypeOK
<1>8. /\ announced' \subseteq announced /\ announced \ announced' \subseteq {a}
      /\ a \in announced' => nodeDb'[a] = nodeDb[a]
  BY <1>2 DEF DropsNode, DeleteFails
<1>9. LinkInv'
  BY <1>2, <1>7, NoneAssumption DEF TruthInv, LinkInv, HasNode
<1>10. NodesInv'
  <2>1. \A x \in announced' : x \in Addrs /\ nodeDb'[x] = nodeDb[x]
    BY <1>1, <1>7, <1>8 DEF RepliesTypeOK
  <2> QED
    BY <1>2, <1>4, <1>8, <2>1 DEF TruthInv, NodesInv
<1>11. FlowInv' /\ AnswerInv' /\ DecomInv' /\ DownInv'
  BY <1>1, <1>2 DEF FlowInv, AnswerInv, DecomInv, DownInv
<1>12. \A m \in NewOk : result = "ok" /\ m.req \in DecomReqs /\ m.addr = a
  BY <1>1, <1>3, NewOks
<1>13. NamedStep /\ ConfiguredStep /\ LeftStep
  BY <1>6, <1>12, RequestsAssumption DEF NamedStep, ConfiguredStep, LeftStep, Left
<1>14. SurvivesStep
  BY <1>2, <1>8 DEF SurvivesStep, a
<1>15. BerthStep
  <2>1. berths'[a] = NoEntry
    BY <1>1, <1>2, ForgetEffects
  <2> QED
    BY <1>7, <2>1 DEF BerthStep
<1>16. "delete" \notin Faults => StrayStep
  <2> SUFFICES ASSUME "delete" \notin Faults, NEW x \in Stray' PROVE x \in Stray
    BY DEF StrayStep
  <2>1. x \in Addrs /\ nodeDb'[x] # None /\ x \notin announced'
    BY StrayIsNext
  <2>2. x # a
    BY <1>7, <2>1
  <2> QED
    BY <1>1, <1>7, <1>8, <2>1, <2>2, StrayIs
<1> QED
  BY <1>9, <1>10, <1>11, <1>13, <1>14, <1>15, <1>16 DEF TruthInv, Truths

LEMMA CallbackTruth ==
  ASSUME IInv, TruthInv, OnEvent
  PROVE  TruthInv' /\ Truths
<1>1. CASE OnDecomTimeout
  <2>1. /\ events # <<>> /\ decom.active /\ Head1.kind = "timeout"
        /\ UNCHANGED <<link, node, meshUp>>
    BY <1>1 DEF OnDecomTimeout, ForDecom
  <2>2. CASE decom.attempts < DECOM_MAX_ATTEMPTS
    BY <1>1, <2>2, DecomRetryTruth
  <2>3. CASE ~(decom.attempts < DECOM_MAX_ATTEMPTS)
    <3>1. DecomFinish("orphan", Rest)
      BY <1>1, <2>3 DEF OnDecomTimeout
    <3>2. Head1.kind \in CfgKinds
      BY <2>1 DEF CfgKinds
    <3> QED
      BY <2>1, <3>1, <3>2, DecomEndsTruth
  <2> QED
    BY <2>2, <2>3
<1>2. CASE OnDecomAnswer
  <2>1. /\ events # <<>> /\ decom.active /\ Head1.kind \in CfgKinds
        /\ DecomFinish(DecomResult(Head1.kind), Rest)
        /\ UNCHANGED <<link, node, meshUp>>
    BY <1>2 DEF OnDecomAnswer, ForDecom
  <2>2. /\ DecomResult(Head1.kind) \in {"ok", "orphan"}
        /\ DecomResult(Head1.kind) = "ok" => Head1.kind = "ack"
    BY DEF DecomResult
  <2> QED
    BY <2>1, <2>2, DecomEndsTruth
<1>3. CASE OnStrayCfgEvent
  <2>1. /\ events # <<>> /\ Head1.kind # "complete" /\ events' = Rest
        /\ UNCHANGED <<uuidMatch, link, nodeDb, pending, node, mapVars, replyVars, provVars>>
    BY <1>3 DEF OnStrayCfgEvent, ForFlow, CfgKinds
  <2> QED
    BY <2>1, EventTaken DEF replyVars, provVars, NoReply
<1> QED
  BY <1>1, <1>2, <1>3, LinkCloseTruth, CompleteTruth, OrphanTruth, FlowAnswerTruth DEF OnEvent

-----------------------------------------------------------------------------
(* The steps of the stack.  None of them answers a request or forgets a    *)
(* berth, so only the database and the queue matter to the properties.     *)
StackKept == UNCHANGED <<mapVars, replyVars, provVars>>

LEMMA StackTruths ==
  ASSUME StackKept, Stray' \subseteq Stray,
         \A a \in Addrs : nodeDb[a] # None => nodeDb'[a] = nodeDb[a]
  PROVE  Truths
<1>1. announced' = announced /\ NoReply
  BY DEF StackKept, replyVars, NoReply
<1>2. NewOk = {}
  BY <1>1, NoNewOks
<1> QED
  BY <1>1, <1>2
  DEF Truths, SurvivesStep, NamedStep, ConfiguredStep, LeftStep, BerthStep, StrayStep

(* A link that opens or fails.                                             *)
LEMMA LinkTruth ==
  ASSUME IInv, TruthInv, NEW d \in Devices, LinkOpens(d) \/ LinkFails(d), StackKept
  PROVE  TruthInv' /\ Truths
<1>1. /\ events \in Seq(Event) /\ link \in [Devices -> {"closed", "open"}]
      /\ d # None
  BY NoneAssumption DEF IInv, TypeOK, MeshTypeOK
<1>2. /\ UNCHANGED <<uuidMatch, nodeDb, pending, node, provInFlight, provTarget, cfgStep,
                     meshUp, decom, announced>>
  BY DEF LinkOpens, LinkFails, StackKept, replyVars, provVars, flowVars
<1>3. /\ Completed(events') = Completed(events)
      /\ CfgEventsIn(events') = CfgEventsIn(events)
      /\ NoTwins(events) => NoTwins(events')
      /\ OneAnswer(events) => OneAnswer(events')
  <2>1. CASE events' = events
    BY <2>1
  <2>2. CASE events' = Append(events, CloseEvent("link-failed"))
    <3> DEFINE e == CloseEvent("link-failed")
    <3>1. /\ e \in Event /\ e.kind \notin CfgKinds
          /\ \A a : e # CompleteEvent(a)
      BY DEF CloseEvent, CompleteEvent, Event, CfgKinds
    <3> HIDE DEF e
    <3>2. {a \in Addrs : e = CompleteEvent(a)} = {}
      BY <3>1
    <3>3. Completed(Append(events, e)) = Completed(events)
      <4>1. Completed(Append(events, e)) =
              Completed(events) \cup {a \in Addrs : e = CompleteEvent(a)}
        BY <1>1, <3>1, QueueGrows
      <4> QED
        BY <3>2, <4>1
    <3>4. CfgEventsIn(Append(events, e)) = CfgEventsIn(events)
      BY <1>1, <3>1, QueueGrows
    <3>5. /\ NoTwins(events) => NoTwins(Append(events, e))
          /\ OneAnswer(events) => OneAnswer(Append(events, e))
      BY <1>1, <3>1, QueueGrows
    <3> QED
      BY <2>2, <3>3, <3>4, <3>5 DEF e
  <2> QED
    BY <2>1, <2>2 DEF LinkOpens, LinkFails
<1>4. \/ /\ uuidMatch = d /\ node[d].addr = None
         /\ link' = [link EXCEPT ![d] = "open"]
      \/ link[d] = "open" /\ link' = [link EXCEPT ![d] = "closed"]
  BY DEF LinkOpens, LinkFails, Matches
<1>5. \A x \in Devices : link'[x] = "open" =>
        link[x] = "open" \/ (x = d /\ uuidMatch = d /\ node[d].addr = None)
  BY <1>1, <1>4
<1>6. LinkInv'
  BY <1>2, <1>5 DEF TruthInv, LinkInv, HasNode
<1>7. NodesInv'
  BY <1>2, <1>3 DEF TruthInv, NodesInv
<1>8. FlowInv'
  BY <1>2, <1>3, <1>5 DEF TruthInv, FlowInv, Given
<1>9. AnswerInv'
  BY <1>2, <1>3 DEF TruthInv, AnswerInv
<1>10. uuidMatch = d => provInFlight
  BY <1>1 DEF IInv, FlowAgreement
<1>11. DecomInv'
  <2>1. decom.active => \A x \in Devices : link'[x] # "open"
    BY <1>5, <1>10 DEF TruthInv, DecomInv, FlowInv
  <2>2. link' \in [Devices -> {"closed", "open"}]
    BY <1>1, <1>4
  <2> QED
    BY <1>2, <1>3, <2>1, <2>2 DEF TruthInv, DecomInv, Left
<1>12. DownInv'
  BY <1>2, <1>4, <1>10 DEF TruthInv, DownInv, Quiet
<1>13. Stray' \subseteq Stray
  BY <1>2, <1>3, StrayIs, StrayIsNext
<1> QED
  BY <1>2, <1>6, <1>7, <1>8, <1>9, <1>11, <1>12, <1>13, StackTruths DEF TruthInv

(* A sensor is provisioned: the database held no node of it.               *)
LEMMA ProvisionsTruth ==
  ASSUME IInv, TruthInv, NEW d \in Devices, NEW a \in Addrs, Provisions(d, a), StackKept
  PROVE  TruthInv' /\ Truths
<1>1. /\ MeshTypeOK /\ events \in Seq(Event) /\ d # None /\ a # None
  BY NoneAssumption DEF IInv, TypeOK, MeshTypeOK
<1>2. /\ UNCHANGED <<uuidMatch, provInFlight, provTarget, cfgStep, meshUp, decom, announced>>
  BY DEF Provisions, StackKept, replyVars, provVars, flowVars
<1>3. link[d] = "open" /\ nodeDb[a] = None /\ ~HasNode(d) /\ node[d].addr = None
  BY DEF Provisions, TruthInv, LinkInv
<1>4. nodeDb' = [nodeDb EXCEPT ![a] = d]
  BY <1>1, <1>3 DEF Provisions, HasNode, MeshTypeOK
<1>5. /\ node' = [node EXCEPT ![d] = [addr |-> a, cfg |-> 0]]
      /\ link' = [link EXCEPT ![d] = "closed"]
      /\ \A x \in Addrs : pending'[x] # NoMsg => pending[x] # NoMsg
  <2>1. [NoMsg EXCEPT !.dev = None] = NoMsg
    BY DEF NoMsg
  <2> QED
    BY <2>1 DEF Provisions
<1>6. /\ Completed(events') = Completed(events) \cup {a}
      /\ CfgEventsIn(events') = CfgEventsIn(events)
      /\ NoTwins(events')
      /\ OneAnswer(events) => OneAnswer(events')
  <2> DEFINE c == CompleteEvent(a)
             e == CloseEvent("link-ok")
             q == Append(events, c)
  <2>1. /\ c \in Event /\ c.kind \notin CfgKinds /\ \A x : c = CompleteEvent(x) <=> x = a
        /\ e \in Event /\ e.kind \notin CfgKinds /\ \A x : e # CompleteEvent(x)
    BY DEF CloseEvent, CompleteEvent, Event, CfgKinds
  <2>2. events' = Append(q, e) /\ q \in Seq(Event)
    <3>1. events' = events \o <<c, e>>
      BY DEF Provisions
    <3> QED
      BY <1>1, <2>1, <3>1
  <2>3. NoTwins(events) /\ a \notin Completed(events)
    BY <1>3 DEF TruthInv, NodesInv
  <2> HIDE DEF c, e
  <2>4. /\ {x \in Addrs : c = CompleteEvent(x)} = {a}
        /\ {x \in Addrs : e = CompleteEvent(x)} = {}
    BY <2>1
  <2>5. Completed(q) = Completed(events) \cup {a} /\ CfgEventsIn(q) = CfgEventsIn(events)
    <3>1. events \in Seq(Event) /\ c \in Event
      BY <1>1, <2>1
    <3>2. /\ Completed(q) = Completed(events) \cup {x \in Addrs : c = CompleteEvent(x)}
          /\ CfgEventsIn(q) =
               CfgEventsIn(events) \cup (IF c.kind \in CfgKinds THEN {c} ELSE {})
      BY ONLY <3>1, QueueGrows
    <3> QED
      BY ONLY <2>1, <2>4, <3>2
  <2>6. NoTwins(q) /\ (OneAnswer(events) => OneAnswer(q))
    BY <1>1, <2>1, <2>3, QueueGrows
  <2> HIDE DEF q
  <2>7. Completed(events') = Completed(q) /\ CfgEventsIn(events') = CfgEventsIn(q)
    <3>1. /\ Completed(events') = Completed(q) \cup {x \in Addrs : e = CompleteEvent(x)}
          /\ CfgEventsIn(events') =
               CfgEventsIn(q) \cup (IF e.kind \in CfgKinds THEN {e} ELSE {})
      BY <2>1, <2>2, QueueGrows
    <3> QED
      BY <2>1, <2>4, <3>1
  <2>8. NoTwins(events') /\ (OneAnswer(q) => OneAnswer(events'))
    BY <2>1, <2>2, <2>6, QueueGrows
  <2> QED
    BY <2>5, <2>6, <2>7, <2>8
<1>7. provInFlight => /\ d = uuidMatch /\ provTarget = None /\ ~decom.active
                      /\ Completed(events) = {}
  <2>1. \A x \in Addrs : nodeDb[x] # d
    BY <1>3 DEF HasNode
  <2>2. provInFlight => d = uuidMatch /\ ~decom.active
    BY <1>3 DEF TruthInv, FlowInv
  <2>3. \A x \in Addrs : Given(x) => uuidMatch # d
    BY <2>1 DEF Given
  <2>4. provTarget \in Addrs \cup {None} /\ Completed(events) \subseteq Addrs
    BY DEF IInv, TypeOK, ProvTypeOK, Completed
  <2> QED
    BY <2>2, <2>3, <2>4 DEF TruthInv, FlowInv
<1>8. \A x \in Devices : link'[x] = "open" => link[x] = "open" /\ x # d
  BY <1>1, <1>5 DEF MeshTypeOK
<1>9. \A x \in Devices : x # d => node'[x] = node[x] /\ (HasNode(x)' => HasNode(x))
  BY <1>1, <1>4, <1>5 DEF HasNode, MeshTypeOK
<1>10. node'[d].addr = a
  BY <1>1, <1>5 DEF MeshTypeOK
<1>11. LinkInv'
  BY <1>1, <1>2, <1>8, <1>9, <1>10 DEF TruthInv, LinkInv
<1>12. \A x \in Addrs : x # a => nodeDb'[x] = nodeDb[x]
  BY <1>4
<1>13. nodeDb'[a] = d
  BY <1>1, <1>4 DEF MeshTypeOK
<1>14. NodesInv'
  <2>1. a \notin announced /\ announced \subseteq Addrs
    BY <1>3 DEF TruthInv, NodesInv, IInv, TypeOK, RepliesTypeOK
  <2>2. \A x \in Completed(events) : x \in Addrs /\ x # a
    BY <1>3 DEF TruthInv, NodesInv, Completed
  <2> QED
    BY <1>1, <1>2, <1>6, <1>12, <1>13, <2>1, <2>2 DEF TruthInv, NodesInv
<1>15. FlowInv'
  BY <1>1, <1>2, <1>6, <1>7, <1>8, <1>10, <1>13 DEF TruthInv, FlowInv, Given
<1>16. AnswerInv'
  BY <1>1, <1>2, <1>5, <1>6, <1>7, NoneAssumption DEF TruthInv, AnswerInv
<1>17. ~decom.active /\ meshUp
  BY <1>3 DEF TruthInv, DecomInv, DownInv, Quiet
<1>18. DecomInv' /\ DownInv'
  BY <1>2, <1>17 DEF DecomInv, DownInv
<1>19. Stray' \subseteq Stray
  BY <1>2, <1>6, <1>12, StrayIs, StrayIsNext
<1>20. \A x \in Addrs : nodeDb[x] # None => nodeDb'[x] = nodeDb[x]
  BY <1>3, <1>12
<1> QED
  BY <1>11, <1>14, <1>15, <1>16, <1>18, <1>19, <1>20, StackTruths DEF TruthInv

(* An unanswered message is settled, or its reader gives it up; the node   *)
(* may have applied it: a reset clears the node's address, any other       *)
(* message only adds to its configuration.                                 *)
Moves(op) ==
  \A x \in Devices :
    IF op = NODE_RESET THEN node'[x].addr \in {node[x].addr, None}
    ELSE node'[x].addr = node[x].addr /\ node'[x].cfg >= node[x].cfg

(* An acknowledgement comes from the node of the database, and says that   *)
(* it has applied the message.                                             *)
Acknowledged(op, a) ==
  /\ nodeDb[a] \in Devices
  /\ IF op = NODE_RESET THEN node'[nodeDb[a]].addr # a ELSE node'[nodeDb[a]].cfg >= op

Settles(kind, a) ==
  \/ /\ pending' = [pending EXCEPT ![a] = NoMsg]
     /\ events' = Append(events, CfgEvent(kind, pending[a].op, pending[a].by))
  \/ pending' = Unheard(a) /\ events' = events

(* A message that is settled or given up keeps the flow and the            *)
(* decommission.                                                           *)
LEMMA MessageTruth ==
  ASSUME IInv, TruthInv, MeshTypeOK', NEW a \in Addrs, NEW kind \in CfgKinds,
         pending[a] # NoMsg, Moves(pending[a].op),
         kind = "ack" => Acknowledged(pending[a].op, a),
         Settles(kind, a),
         UNCHANGED <<uuidMatch, link, nodeDb>>, StackKept
  PROVE  TruthInv' /\ Truths
<1> DEFINE op == pending[a].op
           e == CfgEvent(kind, op, pending[a].by)
<1>1. /\ MeshTypeOK /\ ProvTypeOK /\ events \in Seq(Event) /\ a # None
      /\ pending[a] \in Msg /\ op \in Ops
  BY NoneAssumption DEF IInv, TypeOK, MeshTypeOK, Msg, Ops
<1>2. /\ UNCHANGED <<provInFlight, provTarget, cfgStep, meshUp, decom, announced>>
  BY DEF StackKept, replyVars, provVars, flowVars
<1>3. /\ e \in Event /\ e.kind = kind /\ \A x : e # CompleteEvent(x)
  BY <1>1 DEF CfgEvent, CompleteEvent, Event, CfgKinds, Ops, Msg
<1>4. \A x \in Addrs : pending'[x] # NoMsg =>
        pending[x] # NoMsg /\ pending'[x].op = pending[x].op
  <2>1. [pending[a] EXCEPT !.dev = None].op = pending[a].op
    BY <1>1 DEF Msg
  <2> QED
    BY <1>1, <2>1 DEF Settles, Unheard, MeshTypeOK
<1>5. \/ events' = events
      \/ events' = Append(events, e) /\ pending'[a] = NoMsg
  BY <1>1 DEF Settles, MeshTypeOK
<1> HIDE DEF e
<1>6. /\ Completed(events') = Completed(events) /\ NoTwins(events')
      /\ \A x \in CfgEventsIn(events') : x \in CfgEventsIn(events) \/ x = e
      /\ CfgEventsIn(events) = {} => OneAnswer(events')
  <2>1. NoTwins(events) /\ (CfgEventsIn(events) = {} => OneAnswer(events))
    <3>1. NoTwins(events)
      BY DEF TruthInv, NodesInv
    <3>2. CfgEventsIn(events) = {} => OneAnswer(events)
      BY <1>1 DEF CfgEventsIn, OneAnswer
    <3> QED
      BY <3>1, <3>2
  <2>2. CASE events' = events
    BY <2>1, <2>2
  <2>3. CASE events' = Append(events, e)
    <3>1. {x \in Addrs : e = CompleteEvent(x)} = {}
      BY <1>3
    <3>2. Completed(Append(events, e)) =
            Completed(events) \cup {x \in Addrs : e = CompleteEvent(x)}
      BY <1>1, <1>3, QueueGrows
    <3>3. CfgEventsIn(Append(events, e)) \subseteq CfgEventsIn(events) \cup {e}
      BY <1>1, <1>3, QueueGrows
    <3>4. /\ NoTwins(Append(events, e))
          /\ CfgEventsIn(events) = {} => OneAnswer(Append(events, e))
      BY <1>1, <1>3, <2>1, QueueGrows
    <3> QED
      BY <2>3, <3>1, <3>2, <3>3, <3>4
  <2> QED
    BY <1>5, <2>2, <2>3
<1>7. provInFlight => /\ a = provTarget /\ op = cfgStep /\ op # NODE_RESET
                      /\ CfgEventsIn(events) = {} /\ ~decom.active
                      /\ nodeDb[a] = uuidMatch /\ uuidMatch \in Devices
  <2>1. provInFlight => /\ a = provTarget /\ op = cfgStep
                        /\ CfgEventsIn(events) = {} /\ ~decom.active
    BY DEF TruthInv, AnswerInv, FlowInv
  <2>2. provInFlight => cfgStep # NODE_RESET /\ uuidMatch \in Devices
    BY <1>1, RequestsAssumption DEF IInv, FlowAgreement, ProvTypeOK
  <2>3. provInFlight => nodeDb[a] = uuidMatch
    BY <1>1, <2>1 DEF TruthInv, FlowInv, Given
  <2> QED
    BY <2>1, <2>2, <2>3
<1>8. decom.active => a = decom.addr /\ op = NODE_RESET
  BY DEF TruthInv, DecomInv
<1>9. meshUp
  BY DEF TruthInv, DownInv, Quiet
<1>10. \A x \in Devices : node'[x].addr = node[x].addr \/ node'[x].addr = None
  BY DEF Moves
<1>11. \A x \in Devices : provInFlight =>
         node'[x].addr = node[x].addr /\ node'[x].cfg >= node[x].cfg
  BY <1>7 DEF Moves
<1>12. \A x \in Devices : node[x].cfg \in 0 .. 3 /\ node'[x].cfg \in 0 .. 3
  BY <1>1 DEF MeshTypeOK
<1>13. provInFlight /\ kind = "ack" => node'[uuidMatch].cfg >= cfgStep
  BY <1>7 DEF Acknowledged
<1> HIDE DEF op
<1>14. LinkInv'
  <2>1. \A d \in Devices : uuidMatch = d => provInFlight
    BY NoneAssumption DEF IInv, FlowAgreement
  <2> QED
    BY <1>10, <1>11, <2>1 DEF TruthInv, LinkInv, HasNode
<1>15. NodesInv'
  BY <1>2, <1>6 DEF TruthInv, NodesInv
<1>16. FlowInv'
  <2> SUFFICES ASSUME provInFlight PROVE FlowInv'
    BY <1>2 DEF FlowInv
  <2>1. /\ node'[uuidMatch].addr = node[uuidMatch].addr
        /\ node'[uuidMatch].cfg >= node[uuidMatch].cfg
        /\ node[uuidMatch].cfg \in 0 .. 3 /\ node'[uuidMatch].cfg \in 0 .. 3
    BY <1>7, <1>11, <1>12
  <2>2. node[uuidMatch].cfg + 1 >= cfgStep => node'[uuidMatch].cfg + 1 >= cfgStep
    BY <1>1, <2>1 DEF ProvTypeOK
  <2>3. \A x : Given(x) => Given(x)'
    BY <2>1 DEF Given
  <2> QED
    BY <1>2, <1>6, <2>2, <2>3 DEF TruthInv, FlowInv
<1>17. AnswerInv'
  <2> SUFFICES ASSUME provInFlight PROVE AnswerInv'
    BY <1>2 DEF AnswerInv
  <2>1. \A x \in Addrs : pending'[x] # NoMsg =>
          /\ x = provTarget /\ pending'[x].op = cfgStep
          /\ CfgEventsIn(events') = {}
    <3>1. \A x \in Addrs : pending'[x] # NoMsg =>
            x = provTarget /\ pending'[x].op = cfgStep
      BY <1>4 DEF TruthInv, AnswerInv
    <3>2. CASE events' = events
      BY <1>7, <3>1, <3>2
    <3>3. CASE pending'[a] = NoMsg
      BY <1>7, <3>1, <3>3
    <3> QED
      BY <1>5, <3>2, <3>3
  <2>2. \A x \in CfgEventsIn(events') :
          provTarget # None /\ (x.kind = "ack" => node'[uuidMatch].cfg >= cfgStep)
    BY <1>1, <1>3, <1>6, <1>7, <1>13
  <2> QED
    BY <1>2, <1>6, <1>7, <2>1, <2>2 DEF AnswerInv
<1>18. DecomInv'
  <2> SUFFICES ASSUME decom.active PROVE DecomInv'
    BY <1>2 DEF DecomInv
  <2>1. \A x \in Addrs : pending'[x] # NoMsg =>
          x = decom.addr /\ pending'[x].op = NODE_RESET
    BY <1>4 DEF TruthInv, DecomInv
  <2>2. kind = "ack" => Left(a)'
    BY <1>8 DEF Acknowledged, Left, op
  <2>3. Left(a) => Left(a)'
    BY <1>1, <1>10 DEF Left, MeshTypeOK
  <2>4. \A x \in CfgEventsIn(events') : x.kind = "ack" => Left(a)'
    BY <1>3, <1>6, <1>8, <2>2, <2>3 DEF TruthInv, DecomInv
  <2> QED
    BY <1>2, <1>6, <1>8, <2>1, <2>4 DEF TruthInv, DecomInv
<1>19. DownInv'
  BY <1>2, <1>9 DEF DownInv
<1>20. Stray' \subseteq Stray
  BY <1>2, <1>6, StrayIs, StrayIsNext
<1> QED
  BY <1>14, <1>15, <1>16, <1>17, <1>18, <1>19, <1>20, StackTruths DEF TruthInv

(* A node applies a message or refuses it.                                 *)
LEMMA NodeTruth ==
  ASSUME IInv, TruthInv, NEW d \in Devices, NEW a \in Addrs,
         NodeApplies(a, d) \/ NodeRefuses(a, d), StackKept, MeshTypeOK'
  PROVE  TruthInv' /\ Truths
<1> DEFINE op == pending[a].op
<1>1. /\ MeshTypeOK /\ d # None /\ a # None
  BY NoneAssumption DEF IInv, TypeOK
<1>2. pending[a].dev = d /\ node[d].addr = a /\ UNCHANGED <<uuidMatch, link, nodeDb>>
  BY DEF NodeApplies, NodeRefuses, Hears
<1>3. /\ pending[a] # NoMsg /\ op \in Ops
  BY <1>1, <1>2 DEF MeshTypeOK, NoMsg, Msg, Ops
<1>4. CASE NodeRefuses(a, d)
  <2>1. node' = node /\ Settles("err", a)
    BY <1>4 DEF NodeRefuses, Answers, Settles
  <2>2. Moves(op)
    BY <1>1, <2>1 DEF Moves, MeshTypeOK
  <2> QED
    BY <1>2, <1>3, <2>1, <2>2, MessageTruth DEF CfgKinds
<1>5. CASE NodeApplies(a, d)
  <2>1. node' = [node EXCEPT ![d] = Applied(op, node[d])]
    BY <1>5 DEF NodeApplies
  <2>2. /\ node'[d] = Applied(op, node[d])
        /\ \A x \in Devices : x # d => node'[x] = node[x]
    BY <1>1, <2>1 DEF MeshTypeOK
  <2>3. /\ op = NODE_RESET => node'[d].addr = None
        /\ op # NODE_RESET => /\ node'[d].addr = node[d].addr
                              /\ node'[d].cfg >= node[d].cfg /\ node'[d].cfg >= op
    <3>1. node[d] \in [addr : Addrs \cup {None}, cfg : 0..3]
      BY <1>1 DEF MeshTypeOK
    <3>2. CASE op = NODE_RESET
      BY <2>2, <3>2 DEF Applied, Unprovisioned
    <3>3. CASE op # NODE_RESET /\ op > node[d].cfg
      BY <1>3, <2>2, <3>1, <3>3 DEF Applied, Ops
    <3>4. CASE op # NODE_RESET /\ ~(op > node[d].cfg)
      BY <1>3, <2>2, <3>1, <3>4 DEF Applied, Ops
    <3> QED
      BY <3>2, <3>3, <3>4
  <2>4. Moves(op)
    <3>1. \A x \in Devices : node[x].cfg \in 0..3
      BY <1>1 DEF MeshTypeOK
    <3>2. \A x \in Devices :
            x # d => node'[x].addr = node[x].addr /\ node'[x].cfg >= node[x].cfg
      BY <2>2, <3>1
    <3> HIDE DEF op
    <3> QED
      BY <2>3, <3>2 DEF Moves
  <2>5. CASE Answers(a, d, "ack") /\ nodeDb[a] = d
    <3>1. Settles("ack", a)
      BY <2>5 DEF Answers, Settles
    <3>2. Acknowledged(op, a)
      BY <1>1, <2>3, <2>5 DEF Acknowledged
    <3> QED
      BY <1>2, <1>3, <2>4, <3>1, <3>2, MessageTruth DEF CfgKinds
  <2>6. CASE pending' = Unheard(a) /\ events' = events
    <3>1. Settles("err", a)
      BY <2>6 DEF Settles
    <3> QED
      BY <1>2, <1>3, <2>4, <3>1, MessageTruth DEF CfgKinds
  <2> QED
    BY <1>5, <2>5, <2>6 DEF NodeApplies, Answers
<1> QED
  BY <1>4, <1>5

(* A message times out.                                                    *)
LEMMA NoAnswerTruth ==
  ASSUME IInv, TruthInv, NEW a \in Addrs, NoAnswer(a), StackKept, MeshTypeOK'
  PROVE  TruthInv' /\ Truths
<1>1. /\ pending[a] # NoMsg /\ node' = node /\ UNCHANGED <<uuidMatch, link, nodeDb>>
      /\ Settles("timeout", a)
  BY DEF NoAnswer, Settles
<1>2. ASSUME NEW x \in Devices PROVE node'[x].addr = node[x].addr /\ node'[x].cfg >= node[x].cfg
  <2>1. node[x] \in [addr : Addrs \cup {None}, cfg : 0 .. 3]
    BY DEF IInv, TypeOK, MeshTypeOK
  <2>2. node[x].cfg \in Nat /\ node' = node
    BY ONLY <1>1, <2>1
  <2> QED
    BY ONLY <2>2
<1>3. Moves(pending[a].op)
  BY <1>2 DEF Moves
<1> QED
  BY <1>1, <1>3, MessageTruth DEF CfgKinds

LEMMA StackTruth ==
  ASSUME IInv, TruthInv, StackStep, "leave" \notin Faults
  PROVE  TruthInv' /\ Truths
<1>1. MeshNext /\ StackKept
  BY DEF StackStep, StackKept
<1>2. MeshTypeOK'
  BY <1>1, StackTypes DEF IInv, TypeOK
<1> QED
  BY <1>1, <1>2, LinkTruth, ProvisionsTruth, NodeTruth, NoAnswerTruth
  DEF MeshNext, NodeLeaves

-----------------------------------------------------------------------------
(* The requests, the connection, the start of the mesh and the reboot.     *)

LEMMA EmptyQueue ==
  /\ Completed(<<>>) = {} /\ CfgEventsIn(<<>>) = {}
  /\ NoTwins(<<>>) /\ OneAnswer(<<>>) /\ <<>> \in Seq(Event)
BY DEF Completed, CfgEventsIn, NoTwins, OneAnswer

(* A request that is refused leaves everything that matters here.          *)
LEMMA RefusalTruth ==
  ASSUME IInv, TruthInv, NEW r \in Reqs, Replies(r, "err", None), FlowKept
  PROVE  TruthInv' /\ Truths
<1>1. /\ UNCHANGED <<uuidMatch, link, nodeDb, pending, events, node, mapVars, announced,
                     meshUp, decom, provInFlight>>
      /\ provInFlight => provTarget' = provTarget /\ cfgStep' = cfgStep
  BY DEF FlowKept, meshVars
<1>2. LinkInv' /\ NodesInv' /\ DecomInv' /\ DownInv'
  BY <1>1 DEF TruthInv, LinkInv, NodesInv, DecomInv, DownInv, HasNode, Left, Quiet
<1>3. FlowInv' /\ AnswerInv'
  BY <1>1 DEF TruthInv, FlowInv, AnswerInv, Given
<1>4. NewOk = {}
  BY NewOks
<1>5. StrayStep
  BY <1>1, StrayIs, StrayIsNext DEF StrayStep
<1>6. SurvivesStep /\ BerthStep
  BY <1>1 DEF SurvivesStep, BerthStep
<1> QED
  BY <1>2, <1>3, <1>4, <1>5, <1>6
  DEF TruthInv, Truths, NamedStep, ConfiguredStep, LeftStep

(* A provision request finds nothing under way.                            *)
LEMMA ProvisionTruth ==
  ASSUME IInv, TruthInv, OneAtATime, NEW r \in ProvReqs,
         RejectProvision(r) \/ StartProvision(r)
  PROVE  TruthInv' /\ Truths
<1> DEFINE d == ReqDev[r]
<1>1. r \in Reqs /\ d \in Devices /\ d # None
  BY RequestsAssumption, NoneAssumption DEF Reqs
<1>2. CASE RejectProvision(r)
  <2>1. Replies(r, "err", None) /\ FlowKept
    BY <1>2, UnchangedFlow DEF RejectProvision
  <2> QED
    BY <1>1, <2>1, RefusalTruth
<1>3. CASE StartProvision(r) /\ Replies(r, "err", None) /\ inflight' = inflight
           /\ (ProvisionStartFails(d) \/ ProvisionRefused)
  <2>1. FlowKept
    BY <1>1, <1>3
    DEF FlowKept, meshVars, StartProvision, ProvisionStartFails, ProvisionRefused,
        ProvisionAccepted, ResetsFlow, flowVars
  <2> QED
    BY <1>1, <1>3, <2>1, RefusalTruth
<1>4. CASE StartProvision(r) /\ ProvisionStarts(d) /\ NoReply
  <2>1. /\ Quiet /\ ~decom.active /\ ~HasNodeWithUuid(d)
        /\ UNCHANGED <<link, nodeDb, pending, events, node, mapVars, announced, meshUp,
                       decom>>
    BY <1>4 DEF StartProvision, Delivers, Idle
  <2>2. /\ meshUp /\ ~provInFlight /\ provInFlight' /\ provTarget' = None /\ uuidMatch' = d
    BY <1>4 DEF ProvisionStarts, ProvisionAccepted, ResetsFlow
  <2>3. ~HasNode(d) /\ events = <<>>
    BY <2>1, <2>2 DEF HasNodeWithUuid, Quiet
  <2>4. LinkInv'
    BY <2>1, <2>2, <2>3 DEF LinkInv, HasNode, Quiet
  <2>5. NodesInv'
    BY <2>1 DEF TruthInv, NodesInv
  <2>6. FlowInv'
    BY <2>1, <2>2, <2>3, EmptyQueue DEF FlowInv, Quiet
  <2>7. AnswerInv'
    BY <2>1, <2>3, EmptyQueue DEF AnswerInv, Quiet
  <2>8. DecomInv' /\ DownInv'
    BY <2>1, <2>2 DEF DecomInv, DownInv
  <2>9. NewOk = {}
    BY <1>4, NoNewOks
  <2>10. StrayStep
    BY <2>1, <2>2, StrayIs, StrayIsNext, NoneAssumption DEF StrayStep
  <2>11. SurvivesStep /\ BerthStep
    BY <2>1 DEF SurvivesStep, BerthStep
  <2> QED
    BY <2>4, <2>5, <2>6, <2>7, <2>8, <2>9, <2>10, <2>11
    DEF TruthInv, Truths, NamedStep, ConfiguredStep, LeftStep
<1> QED
  BY <1>2, <1>3, <1>4 DEF StartProvision

(* So does a decommission request.                                         *)
LEMMA DecommissionTruth ==
  ASSUME IInv, TruthInv, OneAtATime, NEW r \in DecomReqs, NEW a \in Addrs,
         StartDecommission(r, a)
  PROVE  TruthInv' /\ Truths
<1>1. /\ Quiet /\ ~inflight.active /\ meshUp /\ SendsReset(a, "decom", events) /\ NoReply
      /\ decom' = [active |-> TRUE, addr |-> a, attempts |-> 1, req |-> r]
      /\ UNCHANGED <<uuidMatch, link, nodeDb, node, mapVars, announced, meshUp, flowVars>>
  BY DEF StartDecommission, Delivers, Idle, DecommissionStarts, DecommissionAccepted
<1>2. /\ MeshTypeOK /\ ~provInFlight /\ events = <<>>
      /\ UNCHANGED <<provInFlight, provTarget>>
      /\ decom'.addr = a
  BY <1>1 DEF IInv, TypeOK, FlowAgreement, Quiet, flowVars
<1>3. /\ Completed(events') = {} /\ NoTwins(events')
      /\ \A e \in CfgEventsIn(events') : e.kind = "err"
      /\ \A x \in Addrs : x # a => pending'[x] = pending[x]
  <2>1. NODE_RESET \in Ops /\ "decom" \in Senders
    BY DEF Ops, Senders
  <2> QED
    BY <1>1, <1>2, <2>1, SendEffects, EmptyQueue DEF SendsReset
<1>4. pending'[a] # NoMsg => pending'[a].op = NODE_RESET
  <2>1. \/ pending' = pending
        \/ pending' = [pending EXCEPT ![a] =
                         [op |-> NODE_RESET, dev |-> nodeDb[a], by |-> "decom"]]
    BY <1>1 DEF SendsReset, Sends, SendFails
  <2>2. CASE pending' = pending
    BY <1>1, <2>2 DEF Quiet
  <2>3. CASE pending' # pending
    BY <1>2, <2>1, <2>3 DEF MeshTypeOK
  <2> QED
    BY <2>2, <2>3
<1>5. LinkInv' /\ NodesInv'
  BY <1>1, <1>3, EmptyQueue DEF TruthInv, LinkInv, NodesInv, HasNode
<1>6. FlowInv' /\ AnswerInv' /\ DownInv'
  BY <1>1, <1>2 DEF FlowInv, AnswerInv, DownInv
<1>7. DecomInv'
  BY <1>1, <1>2, <1>3, <1>4 DEF DecomInv, Quiet
<1>8. NewOk = {}
  BY <1>1, NoNewOks
<1>9. StrayStep
  BY <1>1, <1>2, <1>3, EmptyQueue, StrayIs, StrayIsNext DEF StrayStep
<1>10. SurvivesStep /\ BerthStep
  BY <1>1 DEF SurvivesStep, BerthStep
<1> QED
  BY <1>5, <1>6, <1>7, <1>8, <1>9, <1>10
  DEF TruthInv, Truths, NamedStep, ConfiguredStep, LeftStep

LEMMA RejectDecommissionTruth ==
  ASSUME IInv, TruthInv, NEW r \in DecomReqs, RejectDecommission(r)
  PROVE  TruthInv' /\ Truths
<1>1. r \in Reqs /\ Replies(r, "err", None) /\ FlowKept
  BY UnchangedFlow DEF RejectDecommission, Reqs
<1> QED
  BY <1>1, RefusalTruth

(* Steps that change nothing but the connection or the start of the mesh.  *)
LEMMA QuietTruth ==
  ASSUME IInv, TruthInv,
         MeshStarts \/ BrokerConnects \/ BrokerDisconnects \/ UNCHANGED vars
  PROVE  TruthInv' /\ Truths
<1>1. /\ UNCHANGED <<uuidMatch, link, nodeDb, pending, events, node, mapVars, announced,
                     decom>>
      /\ UNCHANGED <<provInFlight, provTarget, cfgStep>> /\ NoReply
      /\ meshUp' = meshUp \/ meshUp'
  BY DEF MeshStarts, BrokerConnects, BrokerDisconnects, vars, meshVars, replyVars, provVars,
         flowVars, NoReply
<1>2. LinkInv' /\ NodesInv' /\ DecomInv' /\ DownInv'
  BY <1>1 DEF TruthInv, LinkInv, NodesInv, DecomInv, DownInv, HasNode, Left, Quiet
<1>3. FlowInv' /\ AnswerInv'
  BY <1>1 DEF TruthInv, FlowInv, AnswerInv, Given
<1>4. NewOk = {}
  BY <1>1, NoNewOks
<1>5. StrayStep
  BY <1>1, StrayIs, StrayIsNext DEF StrayStep
<1>6. SurvivesStep /\ BerthStep
  BY <1>1 DEF SurvivesStep, BerthStep
<1> QED
  BY <1>2, <1>3, <1>4, <1>5, <1>6
  DEF TruthInv, Truths, NamedStep, ConfiguredStep, LeftStep

(* After a reboot nothing is under way; the database is what it was.       *)
LEMMA RebootTruth ==
  ASSUME IInv, TruthInv, Reboot
  PROVE  TruthInv' /\ Truths
<1>1. /\ uuidMatch' = None /\ events' = <<>>
      /\ ~provInFlight' /\ ~decom'.active /\ ~meshUp'
      /\ link' = [d \in Devices |-> "closed"] /\ pending' = [a \in Addrs |-> NoMsg]
      /\ UNCHANGED <<nodeDb, node, said, announced>>
  BY DEF Reboot, MeshRestarts, NoDecom
<1>2. LinkInv'
  BY <1>1, NoneAssumption DEF LinkInv
<1>3. NodesInv'
  BY <1>1, EmptyQueue DEF TruthInv, NodesInv
<1>4. FlowInv' /\ AnswerInv' /\ DecomInv' /\ DownInv'
  BY <1>1 DEF FlowInv, AnswerInv, DecomInv, DownInv, Quiet
<1>5. NewOk = {}
  BY <1>1 DEF NewOk
<1>6. StrayStep
  <2>1. CASE meshUp
    BY <1>1, <2>1 DEF StrayStep, PowerLost
  <2>2. CASE ~meshUp
    <3>1. ~provInFlight /\ events = <<>>
      BY <2>2 DEF TruthInv, DownInv, Quiet
    <3> QED
      BY <1>1, <3>1, StrayIs, StrayIsNext DEF StrayStep
  <2> QED
    BY <2>1, <2>2
<1>7. SurvivesStep /\ BerthStep
  BY <1>1 DEF SurvivesStep, BerthStep
<1> QED
  BY <1>2, <1>3, <1>4, <1>5, <1>6, <1>7
  DEF TruthInv, Truths, NamedStep, ConfiguredStep, LeftStep

LEMMA StepTruth ==
  ASSUME IInv, TruthInv, Alone, [Next]_vars
  PROVE  TruthInv' /\ Truths
BY ProvisionTruth, DecommissionTruth, RejectDecommissionTruth, StackTruth, CallbackTruth,
   TimeoutTruth, QuietTruth, RebootTruth
DEF Next, Alone

LEMMA InitTruth == Init => TruthInv
<1> SUFFICES ASSUME Init PROVE TruthInv
  OBVIOUS
<1>1. /\ events = <<>> /\ announced = {} /\ ~provInFlight /\ ~decom.active /\ Quiet
      /\ \A d \in Devices : link[d] # "open" /\ uuidMatch # d
  BY NoneAssumption DEF Init, MeshInit, RepliesInit, ProvInit, NoDecom, Quiet
<1> QED
  BY <1>1, EmptyQueue
  DEF TruthInv, LinkInv, NodesInv, FlowInv, AnswerInv, DecomInv, DownInv

(* What every step of a behaviour does, while the backend sends one        *)
(* request at a time and no sensor leaves the mesh by itself.              *)
THEOREM StepsAreTrue ==
  ASSUME Alone
  PROVE  Spec => []TruthInv /\ [][Truths]_vars
<1>1. IInv /\ TruthInv /\ [Next]_vars => TruthInv'
  BY StepTruth
<1>2. IInv /\ TruthInv /\ [Next]_vars => [Truths]_vars
  BY StepTruth
<1> QED
  BY <1>1, <1>2, InitTruth, Invariance, PTL DEF Spec

(* A node adopted with an ok is deleted only by its own decommission:      *)
(* delete_node_with_addr on the error path and on a late complete never    *)
(* meets one.                                                              *)
THEOREM AdoptedSurvives ==
  ASSUME Alone
  PROVE  Spec => AdoptedNodeSurvives
<1>1. [Truths]_vars =>
        [\A a \in announced \ announced' :
           decom.active /\ decom.addr = a /\ ~decom'.active]_vars
  BY DEF Truths, SurvivesStep
<1> QED
  BY <1>1, StepsAreTrue, PTL DEF AdoptedNodeSurvives

(* Whoever drops an adopted node, or the node of the flow, drops its berth *)
(* in the same callback.                                                   *)
THEOREM BerthGoesAlong ==
  ASSUME Alone
  PROVE  Spec => BerthGoesWithNode
<1>1. [Truths]_vars =>
        [\A a \in Addrs :
           /\ nodeDb[a] # None /\ nodeDb'[a] = None
           /\ a \in announced \/ (provInFlight /\ a = provTarget)
           => berths'[a] = NoEntry]_vars
  BY DEF Truths, BerthStep
<1> QED
  BY <1>1, StepsAreTrue, PTL DEF BerthGoesWithNode

(* Unless a deletion fails, no callback leaves a half-configured node in   *)
(* the database; only a power cut may.                                     *)
THEOREM NoNodeStrays ==
  ASSUME Alone, "delete" \notin Faults
  PROVE  Spec => NoStrayNode
<1>1. [Truths]_vars => [Stray' \subseteq Stray \/ PowerLost]_vars
  BY DEF Truths, StrayStep
<1> QED
  BY <1>1, StepsAreTrue, PTL DEF NoStrayNode

-----------------------------------------------------------------------------
(* What an ok is worth when requests overlap and sensors leave.  The       *)
(* events of the queue, and those a flow acts on: a complete, and the      *)
(* answers to configuration messages.                                      *)
EventsIn(q) == {e \in Event : \E i \in DOMAIN q : q[i] = e}

IsCfg(e) == e.kind \in CfgKinds /\ e.op # NODE_RESET
Turns(e) == e.kind = "complete" \/ IsCfg(e)
AtMostOne(q) == \A i, j \in DOMAIN q : Turns(q[i]) /\ Turns(q[j]) => i = j
NoTurn(q) == \A e \in EventsIn(q) : ~Turns(e)

LEMMA HeadGoes ==
  ASSUME NEW q \in Seq(Event), q # <<>>
  PROVE  /\ Head(q) \in Event /\ Tail(q) \in Seq(Event)
         /\ EventsIn(q) = EventsIn(Tail(q)) \cup {Head(q)}
         /\ AtMostOne(q) => AtMostOne(Tail(q)) /\ (Turns(Head(q)) => NoTurn(Tail(q)))
<1>1. /\ Tail(q) \in Seq(Event)
      /\ Head(q) \in Event /\ Head(q) = q[1] /\ 1 \in DOMAIN q
      /\ \A i \in DOMAIN Tail(q) : i + 1 \in DOMAIN q /\ Tail(q)[i] = q[i + 1] /\ i + 1 # 1
      /\ \A i \in DOMAIN q : i # 1 => i - 1 \in DOMAIN Tail(q) /\ q[i] = Tail(q)[i - 1]
  BY TailIndices
<1>2. \A i, j \in DOMAIN Tail(q) : i + 1 = j + 1 => i = j
  BY TailIndices
<1>3. EventsIn(q) = EventsIn(Tail(q)) \cup {Head(q)}
  BY <1>1 DEF EventsIn
<1>4. ASSUME AtMostOne(q) PROVE AtMostOne(Tail(q)) /\ (Turns(Head(q)) => NoTurn(Tail(q)))
  <2>1. AtMostOne(Tail(q))
    BY <1>1, <1>2, <1>4 DEF AtMostOne
  <2>2. ASSUME Turns(Head(q)), NEW i \in DOMAIN Tail(q) PROVE ~Turns(Tail(q)[i])
    BY <1>1, <1>4, <2>2 DEF AtMostOne
  <2> QED
    BY <2>1, <2>2 DEF NoTurn, EventsIn
<1> QED
  BY <1>1, <1>3, <1>4

LEMMA EventComes ==
  ASSUME NEW q \in Seq(Event), NEW e \in Event
  PROVE  /\ Append(q, e) \in Seq(Event)
         /\ EventsIn(Append(q, e)) = EventsIn(q) \cup {e}
         /\ AtMostOne(q) /\ (Turns(e) => NoTurn(q)) => AtMostOne(Append(q, e))
<1> DEFINE p == Append(q, e)
           n == Len(q) + 1
<1>1. /\ DOMAIN p = DOMAIN q \cup {n} /\ n \notin DOMAIN q /\ p[n] = e
      /\ \A i \in DOMAIN q : p[i] = q[i] /\ q[i] \in Event
      /\ p \in Seq(Event)
  BY AppendIndices
<1> HIDE DEF p, n
<1>2. EventsIn(p) = EventsIn(q) \cup {e}
  BY <1>1 DEF EventsIn
<1>3. ASSUME AtMostOne(q), Turns(e) => NoTurn(q) PROVE AtMostOne(p)
  <2>1. Turns(e) => \A i \in DOMAIN q : ~Turns(q[i])
    BY <1>1, <1>3 DEF NoTurn, EventsIn
  <2> QED
    BY <1>1, <1>3, <2>1 DEF AtMostOne
<1> QED
  BY <1>1, <1>2, <1>3 DEF p

(* A message that is sent or fails: what it adds.                          *)
LEMMA SendAdds ==
  ASSUME MeshTypeOK, NEW op \in Ops, NEW a \in Addrs \cup {None}, NEW by \in Senders,
         NEW queue \in Seq(Event), Sends(op, a, by, queue) \/ SendFails(a, queue)
  PROVE  /\ \A e \in EventsIn(events') : e \in EventsIn(queue) \/ e = CfgEvent("err", op, by)
         /\ AtMostOne(queue) /\ (op = NODE_RESET \/ NoTurn(queue)) => AtMostOne(events')
         /\ \A x \in Addrs : pending'[x] # pending[x] =>
              /\ x = a /\ pending'[x] = [op |-> op, dev |-> nodeDb[x], by |-> by]
              /\ pending[x] = NoMsg /\ nodeDb[x] # None /\ events' = queue
<1> DEFINE e == CfgEvent("err", op, by)
<1>1. /\ e \in Event /\ e.kind = "err" /\ e.op = op
  BY DEF CfgEvent, Event, CfgKinds, Ops
<1>2. op = NODE_RESET => ~Turns(e)
  BY <1>1 DEF Turns, IsCfg
<1> HIDE DEF e
<1>3. CASE events' = queue /\ pending' = pending
  BY <1>3
<1>4. CASE events' = Append(queue, e) /\ pending' = pending
  BY <1>1, <1>2, <1>4, EventComes DEF e
<1>5. CASE /\ Accepts(a) /\ events' = queue
           /\ pending' = [pending EXCEPT ![a] = [op |-> op, dev |-> nodeDb[a], by |-> by]]
  BY <1>5 DEF MeshTypeOK, Accepts
<1> QED
  BY <1>3, <1>4, <1>5 DEF Sends, SendFails, e

-----------------------------------------------------------------------------
(* The invariants.  Unless a link of an ended flow was still open, or its  *)
(* complete waiting, when the flow started, every node it may be given is  *)
(* the device it was asked for.                                            *)
NamesInv ==
  provInFlight /\ ~stale =>
    /\ \A d \in Devices : link[d] = "open" => d = uuidMatch
    /\ \A e \in EventsIn(events) : e.kind = "complete" => nodeDb[e.addr] \in {uuidMatch, None}
    /\ provTarget # None => nodeDb[provTarget] \in {uuidMatch, None}

(* If moreover nothing else was mixed up, the flow waits for one thing at  *)
(* a time: the complete of its sensor, then the answer to its current      *)
(* message, which says that the sensor has applied it or has left.         *)
Asks(a) == pending[a] # NoMsg /\ pending[a].op # NODE_RESET
AtLeast(cfg) == node[uuidMatch].addr = given => node[uuidMatch].cfg >= cfg

ConfigInv ==
  provInFlight /\ ~stale /\ ~mixed =>
    /\ provTarget \in {None, given}
    /\ AtMostOne(events)
    /\ \A e \in EventsIn(events) :
         /\ e.kind = "complete" => provTarget = None /\ e.addr = given
         /\ IsCfg(e) => provTarget # None /\ (e.kind = "ack" => AtLeast(cfgStep))
    /\ \A a \in Addrs : Asks(a) =>
         a = provTarget /\ pending[a].op = cfgStep /\ NoTurn(events)
    /\ provTarget # None => AtLeast(cfgStep - 1)

(* The resets under way, by who sent them: a node that was deleted cannot  *)
(* acknowledge one, and an acknowledgement of the decommission's own says  *)
(* that a sensor has left its address.                                     *)
ResetInv ==
  /\ \A a \in Addrs : pending[a] # NoMsg =>
       (pending[a].by = "flow" <=> pending[a].op # NODE_RESET)
  /\ \A a \in Addrs : pending[a].by = "cleanup" /\ "delete" \notin Faults =>
       pending[a].dev = None \/ pending[a].dev # nodeDb[a]
  /\ \A a \in Addrs : pending[a].by = "decom" /\ decom.active /\ ~earlier => a = decom.addr
  /\ \A e \in EventsIn(events) : e.kind \in CfgKinds /\ e.op = NODE_RESET =>
       /\ e.by # "flow"
       /\ e.kind = "ack" /\ e.by = "cleanup" => "delete" \in Faults
       /\ e.kind = "ack" /\ e.by = "decom" /\ decom.active /\ ~earlier => wiped

OutcomeInv == NamesInv /\ ConfigInv /\ ResetInv

-----------------------------------------------------------------------------
(* The kinds of step, as far as a flow that stays in flight is concerned.  *)
Shrinks == \A x \in Addrs : nodeDb'[x] \in {nodeDb[x], None}

Starts ==
  /\ ~provInFlight /\ provInFlight' /\ provTarget' = None /\ cfgStep' = IDLE
  /\ uuidMatch' \in Devices
  /\ UNCHANGED <<link, nodeDb, pending, events, node>>

(* Nothing the flow acts on comes or goes.                                 *)
Apart ==
  /\ UNCHANGED <<uuidMatch, link, node, provInFlight, provTarget, cfgStep>>
  /\ Shrinks
  /\ \A e \in EventsIn(events') : Turns(e) => e \in EventsIn(events)
  /\ AtMostOne(events) => AtMostOne(events')
  /\ \A x \in Addrs : Asks(x)' => Asks(x) /\ pending'[x].op = pending[x].op

(* The flow acts on the head of the queue and sends its next message.      *)
Turned(target, step) ==
  /\ events # <<>> /\ provInFlight
  /\ FlowSends(step, target, Rest)
  /\ UNCHANGED <<link, node>>
  /\ \/ Head1.kind = "complete" /\ target = Head1.addr /\ step = cfgStep + 1
     \/ /\ Head1.kind \in CfgKinds /\ target = provTarget
        /\ IsCfg(Head1) \/ TakesReset
        /\ step = cfgStep \/ (step = cfgStep + 1 /\ Head1.kind = "ack")

StackKeepsFlow == MeshNext /\ UNCHANGED <<provInFlight, provTarget, cfgStep>>

(* A deletion leaves the other nodes alone.                                *)
LEMMA DropShrinks ==
  ASSUME MeshTypeOK, NEW a \in Addrs, DropsNode(a)
  PROVE  Shrinks
BY DEF DropsNode, Deletes, DeleteFails, Shrinks, MeshTypeOK

(* Sending a reset, with an event taken first that the flow does not act   *)
(* on, is none of its business.                                            *)
LEMMA ResetApart ==
  ASSUME MeshTypeOK, NEW a \in Addrs \cup {None}, NEW by \in Senders, NEW queue \in Seq(Event),
         SendsReset(a, by, queue),
         EventsIn(queue) \subseteq EventsIn(events), AtMostOne(events) => AtMostOne(queue),
         UNCHANGED <<uuidMatch, link, node, provInFlight, provTarget, cfgStep, nodeDb>>
  PROVE  Apart
<1>1. NODE_RESET \in Ops /\ (Sends(NODE_RESET, a, by, queue) \/ SendFails(a, queue))
  BY DEF Ops, SendsReset
<1> DEFINE op == NODE_RESET
<1> HIDE DEF op
<1>2. /\ \A e \in EventsIn(events') : e \in EventsIn(queue) \/ e = CfgEvent("err", op, by)
      /\ AtMostOne(queue) /\ (op = NODE_RESET \/ NoTurn(queue)) => AtMostOne(events')
      /\ \A x \in Addrs : pending'[x] # pending[x] =>
           /\ x = a /\ pending'[x] = [op |-> op, dev |-> nodeDb[x], by |-> by]
           /\ pending[x] = NoMsg /\ nodeDb[x] # None /\ events' = queue
  <2>1. op \in Ops /\ (Sends(op, a, by, queue) \/ SendFails(a, queue))
    BY <1>1 DEF op
  <2> QED
    BY <2>1, SendAdds
<1>3. op = NODE_RESET /\ ~Turns(CfgEvent("err", op, by))
  BY DEF Turns, IsCfg, CfgEvent, op
<1>4. ASSUME NEW x \in Addrs, pending'[x] # pending[x] PROVE pending'[x].op = NODE_RESET
  <2>1. pending'[x] = [op |-> op, dev |-> nodeDb[x], by |-> by]
    BY <1>2, <1>4
  <2> QED
    BY ONLY <1>3, <2>1
<1>5. \A x \in Addrs : Asks(x)' => Asks(x) /\ pending'[x].op = pending[x].op
  BY <1>4 DEF Asks
<1> QED
  BY <1>2, <1>3, <1>5 DEF Apart, Shrinks

(* An event that the flow does not act on is taken.                        *)
LEMMA TakenApart ==
  ASSUME MeshTypeOK, events # <<>>, events' = Rest, pending' = pending, Shrinks,
         UNCHANGED <<uuidMatch, link, node, provInFlight, provTarget, cfgStep>>
  PROVE  Apart
<1>1. /\ EventsIn(Rest) \subseteq EventsIn(events)
      /\ AtMostOne(events) => AtMostOne(Rest)
  BY HeadGoes DEF MeshTypeOK, Rest
<1>2. \A x \in Addrs : Asks(x)' => Asks(x) /\ pending'[x].op = pending[x].op
  BY DEF Asks
<1> QED
  BY <1>1, <1>2 DEF Apart

LEMMA CallbackKinds ==
  ASSUME IInv, OnEvent, provInFlight'
  PROVE  Apart \/ \E target \in Addrs, step \in 1..3 : Turned(target, step)
<1>1. /\ MeshTypeOK /\ ProvTypeOK
      /\ decom.active => decom.addr \in Addrs
  BY DEF IInv, TypeOK, DecomAgreement
<1>2. events # <<>>
  BY DEF OnEvent, OnLinkClose, OnProvComplete, OnOrphanComplete, OnDecomTimeout,
         OnDecomAnswer, OnCfgTimeout, OnCfgAck, OnCfgError, OnStrayCfgEvent
<1>3. /\ Head1 \in Event /\ Rest \in Seq(Event)
      /\ EventsIn(Rest) \subseteq EventsIn(events)
      /\ AtMostOne(events) => AtMostOne(Rest)
  BY <1>1, <1>2, HeadGoes DEF MeshTypeOK, Rest, Head1
<1>4. \A target, queue : ~FinishErr(target, queue) /\ ~FinishOk(target, queue)
  BY DEF FinishErr, FinishOk
<1>5. ASSUME NEW step, NEW target, FlowSends(step, target, Rest)
      PROVE  step \in 1..3 /\ target # None
  BY <1>5 DEF FlowSends, Sends
<1>6. ASSUME NEW target, AdvanceStep(target, Rest)
      PROVE  FlowSends(cfgStep + 1, target, Rest)
  BY <1>4, <1>6 DEF AdvanceStep, FlowCannotSend
<1>7. CASE OnLinkClose
  <2>1. events' = Rest /\ UNCHANGED <<uuidMatch, nodeDb, pending, flowVars, link, node>>
    BY <1>4, <1>7 DEF OnLinkClose
  <2> QED
    BY <1>1, <1>2, <2>1, TakenApart DEF flowVars, Shrinks
<1>8. CASE OnProvComplete
  <2>1. Head1.addr \in Addrs
    BY <1>3, <1>8 DEF OnProvComplete, Event, CfgKinds
  <2>2. FlowSends(cfgStep + 1, Head1.addr, Rest)
    BY <1>6, <1>8 DEF OnProvComplete
  <2>3. Turned(Head1.addr, cfgStep + 1)
    BY <1>2, <1>8, <2>2 DEF Turned, OnProvComplete
  <2> QED
    BY <1>5, <2>1, <2>2, <2>3
<1>9. CASE OnOrphanComplete
  BY <1>9 DEF OnOrphanComplete, provVars, flowVars
<1>10. CASE OnDecomTimeout \/ OnDecomAnswer
  <2>1. decom.active /\ UNCHANGED <<link, node, uuidMatch, flowVars>>
    BY <1>10 DEF OnDecomTimeout, OnDecomAnswer, ForDecom, DecomFinish
  <2>2. CASE SendsReset(decom.addr, "decom", Rest) /\ UNCHANGED nodeDb
    BY <1>1, <1>3, <2>1, <2>2, ResetApart DEF Senders, flowVars
  <2>3. ASSUME NEW result, DecomFinish(result, Rest) PROVE Apart
    <3>1. DropsNode(decom.addr) /\ events' = Rest /\ pending' = pending
      BY <2>3 DEF DecomFinish, DropsNode
    <3> QED
      BY <1>1, <1>2, <2>1, <3>1, DropShrinks, TakenApart DEF flowVars
  <2> QED
    BY <1>10, <2>2, <2>3 DEF OnDecomTimeout, OnDecomAnswer
<1>11. CASE OnCfgTimeout \/ OnCfgAck \/ OnCfgError
  <2>1. /\ provInFlight /\ ForFlow /\ UNCHANGED <<link, node>>
        /\ Head1.kind \in CfgKinds /\ (IsCfg(Head1) \/ TakesReset)
    BY <1>11 DEF OnCfgTimeout, OnCfgAck, OnCfgError, ForFlow, IsCfg, TakesReset, OnEvent
  <2>2. PICK step : /\ FlowSends(step, provTarget, Rest)
                    /\ step = cfgStep \/ (step = cfgStep + 1 /\ Head1.kind = "ack")
    BY <1>4, <1>6, <1>11 DEF OnCfgTimeout, OnCfgAck, OnCfgError, RedoStep, FlowCannotSend
  <2>3. step \in 1..3 /\ provTarget \in Addrs
    BY <1>1, <1>5, <2>2 DEF ProvTypeOK
  <2>4. Turned(provTarget, step)
    BY <1>2, <2>1, <2>2 DEF Turned
  <2> QED
    BY <2>3, <2>4
<1>12. CASE OnStrayCfgEvent
  BY <1>12 DEF OnStrayCfgEvent, provVars, flowVars
<1> QED
  BY <1>7, <1>8, <1>9, <1>10, <1>11, <1>12 DEF OnEvent

LEMMA FlowKinds ==
  ASSUME IInv, [Next]_vars, provInFlight'
  PROVE  \/ Starts \/ Apart \/ StackKeepsFlow
         \/ \E target \in Addrs, step \in 1..3 : Turned(target, step)
<1>1. MeshTypeOK /\ events \in Seq(Event)
  BY DEF IInv, TypeOK, MeshTypeOK
<1>2. ASSUME UNCHANGED <<meshVars, provInFlight, provTarget, cfgStep>>
      PROVE  Apart
  BY <1>2 DEF Apart, Shrinks, Asks, meshVars
<1>3. ASSUME NEW r \in ProvReqs, RejectProvision(r) \/ StartProvision(r)
      PROVE  Starts \/ Apart
  <2>1. ReqDev[r] \in Devices
    BY RequestsAssumption
  <2>2. CASE RejectProvision(r)
    BY <1>2, <2>2 DEF RejectProvision, provVars, flowVars
  <2>3. CASE StartProvision(r) /\ ProvisionStarts(ReqDev[r])
    BY <2>1, <2>3 DEF StartProvision, Starts, ProvisionStarts, ProvisionAccepted, ResetsFlow
  <2>4. CASE StartProvision(r) /\ ProvisionStartFails(ReqDev[r])
    BY <2>4 DEF ProvisionStartFails, ProvisionAccepted
  <2>5. CASE StartProvision(r) /\ ProvisionRefused
    BY <1>2, <2>5 DEF StartProvision, ProvisionRefused, meshVars, flowVars
  <2> QED
    BY <1>3, <2>2, <2>3, <2>4, <2>5 DEF StartProvision
<1>4. ASSUME NEW r \in DecomReqs, NEW a \in Addrs, StartDecommission(r, a)
      PROVE  Apart
  BY <1>1, <1>4, ResetApart DEF StartDecommission, DecommissionStarts, Senders, flowVars
<1>5. ASSUME NEW r \in DecomReqs, RejectDecommission(r) PROVE Apart
  BY <1>2, <1>5 DEF RejectDecommission, provVars, flowVars
<1>6. CASE StackStep
  BY <1>6 DEF StackStep, StackKeepsFlow, provVars, flowVars
<1>7. ~ProvTimeout
  BY DEF ProvTimeout, FinishErr, IInv, FlowAgreement
<1>8. CASE MeshStarts \/ BrokerConnects \/ BrokerDisconnects \/ UNCHANGED vars
  BY <1>2, <1>8 DEF MeshStarts, BrokerConnects, BrokerDisconnects, vars, provVars, flowVars
<1>9. ~Reboot
  BY DEF Reboot
<1> QED
  BY <1>3, <1>4, <1>5, <1>6, <1>7, <1>8, <1>9, CallbackKinds DEF Next

-----------------------------------------------------------------------------
(* The steps of the stack.                                                 *)
LinkMoves ==
  /\ UNCHANGED <<uuidMatch, nodeDb, pending, node>>
  /\ \A x \in Devices : link'[x] = "open" => link[x] = "open" \/ x = uuidMatch
  /\ \A e \in EventsIn(events') : e \in EventsIn(events) \/ e.kind = "close"
  /\ AtMostOne(events) => AtMostOne(events')

Leaves ==
  /\ UNCHANGED <<uuidMatch, link, nodeDb, pending, events>>
  /\ \A x \in Devices : node'[x] = node[x] \/ node'[x].addr = None

(* A message is answered, or given up by its reader; an acknowledgement    *)
(* comes from the node of the database, which has done what it asked for.  *)
MessageMoves(a) ==
  /\ pending[a] \in Msg
  /\ UNCHANGED <<uuidMatch, link, nodeDb>>
  /\ \A x \in Addrs : x # a => pending'[x] = pending[x]
  /\ \/ pending'[a] = [pending[a] EXCEPT !.dev = None] /\ events' = events
     \/ /\ pending'[a] = NoMsg
        /\ \E kind \in CfgKinds :
             /\ events' = Append(events, CfgEvent(kind, pending[a].op, pending[a].by))
             /\ kind = "ack" =>
                  /\ nodeDb[a] = pending[a].dev /\ nodeDb[a] \in Devices
                  /\ node[nodeDb[a]].addr = a
                  /\ IF pending[a].op = NODE_RESET THEN node'[nodeDb[a]].addr = None
                     ELSE node'[nodeDb[a]].cfg >= pending[a].op
  /\ \A x \in Devices : \/ node'[x] = node[x] \/ node'[x].addr = None
                        \/ node'[x].addr = node[x].addr /\ node'[x].cfg >= node[x].cfg

LEMMA LinkKinds ==
  ASSUME MeshTypeOK, NEW d \in Devices, LinkOpens(d) \/ LinkFails(d)
  PROVE  LinkMoves
<1> DEFINE e == CloseEvent("link-failed")
<1>1. e \in Event /\ e.kind = "close" /\ ~Turns(e)
  BY DEF CloseEvent, Event, Turns, IsCfg, CfgKinds
<1> HIDE DEF e
<1>2. events' = events \/ events' = Append(events, e)
  BY DEF LinkOpens, LinkFails, e
<1>3. /\ \A x \in EventsIn(events') : x \in EventsIn(events) \/ x.kind = "close"
      /\ AtMostOne(events) => AtMostOne(events')
  BY <1>1, <1>2, EventComes DEF MeshTypeOK
<1>4. \A x \in Devices : link'[x] = "open" => link[x] = "open" \/ x = uuidMatch
  BY DEF LinkOpens, LinkFails, Matches, MeshTypeOK
<1> QED
  BY <1>3, <1>4 DEF LinkMoves, LinkOpens, LinkFails

LEMMA MessageKinds ==
  ASSUME MeshTypeOK, NEW a \in Addrs, NEW d \in Devices,
         NodeApplies(a, d) \/ NodeRefuses(a, d)
  PROVE  MessageMoves(a)
<1> DEFINE op == pending[a].op
<1>1. pending[a] # NoMsg /\ pending[a] \in Msg
  BY NoneAssumption DEF NodeApplies, NodeRefuses, Hears, NoMsg, MeshTypeOK
<1>2. op \in {1, 2, 3, 5} /\ node[d] \in [addr : Addrs \cup {None}, cfg : 0 .. 3]
  BY <1>1 DEF Msg, MeshTypeOK
<1>3. ASSUME pending' = Unheard(a)
      PROVE  /\ pending'[a] = [pending[a] EXCEPT !.dev = None]
             /\ \A x \in Addrs : x # a => pending'[x] = pending[x]
  BY <1>3 DEF Unheard, MeshTypeOK
<1>4. ASSUME pending' = [pending EXCEPT ![a] = NoMsg]
      PROVE  /\ pending'[a] = NoMsg
             /\ \A x \in Addrs : x # a => pending'[x] = pending[x]
  BY <1>4 DEF MeshTypeOK
<1>5. CASE NodeRefuses(a, d)
  BY <1>1, <1>3, <1>4, <1>5 DEF NodeRefuses, Answers, MessageMoves, CfgKinds
<1>6. CASE NodeApplies(a, d)
  <2>1. /\ pending[a].dev = d /\ node[d].addr = a
        /\ node' = [node EXCEPT ![d] = Applied(op, node[d])]
        /\ UNCHANGED <<uuidMatch, link, nodeDb>>
    BY <1>6 DEF NodeApplies, Hears
  <2>2. /\ node'[d] = Applied(op, node[d])
        /\ \A x \in Devices : x # d => node'[x] = node[x]
    BY <2>1 DEF MeshTypeOK
  <2>3. IF op = NODE_RESET THEN node'[d].addr = None
        ELSE /\ node'[d].addr = node[d].addr
             /\ node'[d].cfg >= node[d].cfg /\ node'[d].cfg >= op
    <3>1. CASE op = NODE_RESET
      BY <2>2, <3>1 DEF Applied, Unprovisioned
    <3>2. CASE op # NODE_RESET /\ op > node[d].cfg
      BY <1>2, <2>2, <3>2 DEF Applied
    <3>3. CASE op # NODE_RESET /\ ~(op > node[d].cfg)
      BY <1>2, <2>2, <3>3 DEF Applied
    <3> HIDE DEF op
    <3> QED
      BY <3>1, <3>2, <3>3
  <2>4. \A x \in Devices : \/ node'[x] = node[x] \/ node'[x].addr = None
                           \/ node'[x].addr = node[x].addr /\ node'[x].cfg >= node[x].cfg
    <3> HIDE DEF op
    <3> QED
      BY <2>2, <2>3
  <2>5. CASE pending' = Unheard(a) /\ events' = events
    BY <1>1, <1>3, <2>1, <2>4, <2>5 DEF MessageMoves
  <2>6. CASE nodeDb[a] = d /\ Answers(a, d, "ack")
    <3>1. /\ pending' = [pending EXCEPT ![a] = NoMsg]
          /\ events' = Append(events, CfgEvent("ack", op, pending[a].by))
      BY <2>6 DEF Answers
    <3>2. /\ nodeDb[a] = pending[a].dev /\ nodeDb[a] \in Devices
          /\ node[nodeDb[a]].addr = a
          /\ IF op = NODE_RESET THEN node'[nodeDb[a]].addr = None
             ELSE node'[nodeDb[a]].cfg >= op
      <4> HIDE DEF op
      <4> QED
        BY <2>1, <2>3, <2>6
    <3>3. "ack" \in CfgKinds
      BY DEF CfgKinds
    <3> QED
      BY <1>1, <1>4, <2>1, <2>4, <3>1, <3>2, <3>3 DEF MessageMoves
  <2> QED
    BY <1>6, <2>5, <2>6 DEF NodeApplies, Answers
<1> QED
  BY <1>5, <1>6

LEMMA StackKinds ==
  ASSUME MeshTypeOK, MeshNext
  PROVE  \/ LinkMoves \/ Leaves
         \/ \E a \in Addrs : MessageMoves(a)
         \/ \E d \in Devices, a \in Addrs : Provisions(d, a)
<1>1. ASSUME NEW d \in Devices, NodeLeaves(d) PROVE Leaves
  BY <1>1 DEF NodeLeaves, Leaves, Unprovisioned, MeshTypeOK
<1>2. ASSUME NEW a \in Addrs, NoAnswer(a) PROVE MessageMoves(a)
  <2>1. pending[a] \in Msg /\ "timeout" \in CfgKinds
    BY <1>2 DEF NoAnswer, MeshTypeOK, CfgKinds
  <2>2. /\ pending'[a] = NoMsg
        /\ \A x \in Addrs : x # a => pending'[x] = pending[x]
    BY <1>2 DEF NoAnswer, MeshTypeOK
  <2> QED
    BY <1>2, <2>1, <2>2 DEF NoAnswer, MessageMoves
<1> QED
  BY <1>1, <1>2, LinkKinds, MessageKinds DEF MeshNext

-----------------------------------------------------------------------------
(* What the history of a flow says of a step of its own.                   *)
LEMMA FlowGoes ==
  ASSUME FlowHistory, provInFlight
  PROVE  /\ stale' = stale
         /\ mixed' = (mixed \/ TakesReset \/ (given # None /\ \E a \in Addrs : Joins(a)))
         /\ (\A a \in Addrs : ~Joins(a)) => given' = given
BY DEF FlowHistory

LEMMA NoneJoins ==
  ASSUME Shrinks
  PROVE  \A a \in Addrs : ~Joins(a)
BY DEF Shrinks, Joins

(* The two devices a flow may meet: its own, or none.                      *)
LEMMA NamesKept ==
  ASSUME IInv, NamesInv, Next, FlowHistory
  PROVE  NamesInv'
<1> SUFFICES ASSUME provInFlight', ~stale'
             PROVE  /\ \A d \in Devices : link'[d] = "open" => d = uuidMatch'
                    /\ \A e \in EventsIn(events') :
                         e.kind = "complete" => nodeDb'[e.addr] \in {uuidMatch', None}
                    /\ provTarget' # None => nodeDb'[provTarget'] \in {uuidMatch', None}
  BY DEF NamesInv
<1>1. /\ MeshTypeOK /\ events \in Seq(Event) /\ provTarget \in Addrs \cup {None}
      /\ \A e \in Event : e.kind = "complete" => e.addr \in Addrs
  BY CompleteKind DEF IInv, TypeOK, MeshTypeOK, ProvTypeOK
<1>2. ASSUME provInFlight
      PROVE  /\ ~stale
             /\ \A d \in Devices : link[d] = "open" => d = uuidMatch
             /\ \A e \in EventsIn(events) :
                  e.kind = "complete" => e.addr \in Addrs /\ nodeDb[e.addr] \in {uuidMatch, None}
             /\ provTarget # None => nodeDb[provTarget] \in {uuidMatch, None}
  BY <1>1, <1>2, FlowGoes DEF NamesInv, EventsIn
<1>3. CASE Starts
  <2>1. ~LinkOrComplete(uuidMatch')
    BY <1>3 DEF Starts, FlowHistory
  <2>2. /\ \A d \in Devices : link[d] = "open" => d = uuidMatch'
        /\ \A e \in EventsIn(events) : e.kind # "complete"
    BY <2>1 DEF LinkOrComplete, EventsIn
  <2> QED
    BY <1>3, <2>2 DEF Starts
<1>4. CASE Apart
  <2>1. \A e \in EventsIn(events') :
          e.kind = "complete" => e \in EventsIn(events) /\ e.addr \in Addrs
    BY <1>1, <1>4 DEF Apart, Turns, EventsIn
  <2> QED
    BY <1>1, <1>2, <1>4, <2>1 DEF Apart, Shrinks
<1>5. ASSUME NEW target \in Addrs, NEW step \in 1..3, Turned(target, step)
      PROVE  /\ \A d \in Devices : link'[d] = "open" => d = uuidMatch'
             /\ \A e \in EventsIn(events') :
                  e.kind = "complete" => nodeDb'[e.addr] \in {uuidMatch', None}
             /\ provTarget' # None => nodeDb'[provTarget'] \in {uuidMatch', None}
  <2>1. /\ Head1 \in EventsIn(events) /\ EventsIn(Rest) \subseteq EventsIn(events)
        /\ Rest \in Seq(Event)
    BY <1>1, <1>5, HeadGoes DEF Turned, Head1, Rest
  <2>2. /\ provInFlight /\ UNCHANGED <<link, nodeDb, uuidMatch>> /\ provTarget' = target
        /\ Sends(step, target, "flow", Rest) /\ step \in Ops /\ "flow" \in Senders
    BY <1>5 DEF Turned, FlowSends, Ops, Senders
  <2>3. \A e \in EventsIn(events') : e.kind = "complete" => e \in EventsIn(Rest)
    <3>1. CfgEvent("err", step, "flow").kind # "complete"
      BY DEF CfgEvent
    <3> QED
      BY <1>1, <2>1, <2>2, <3>1, SendAdds
  <2>4. nodeDb[target] \in {uuidMatch, None}
    BY <1>2, <1>5, <2>1, <2>2, NoneAssumption DEF Turned
  <2> QED
    BY <1>2, <2>1, <2>2, <2>3, <2>4
<1>6. CASE StackKeepsFlow /\ LinkMoves
  BY <1>2, <1>6 DEF StackKeepsFlow, LinkMoves
<1>7. CASE StackKeepsFlow /\ Leaves
  BY <1>2, <1>7 DEF StackKeepsFlow, Leaves
<1>8. ASSUME NEW a \in Addrs, StackKeepsFlow, MessageMoves(a)
      PROVE  \A e \in EventsIn(events') : e.kind = "complete" => e \in EventsIn(events)
  <2>1. CASE events' = events
    BY <2>1
  <2>2. CASE events' # events
    <3>1. PICK kind \in CfgKinds :
             events' = Append(events, CfgEvent(kind, pending[a].op, pending[a].by))
      BY <1>8, <2>2 DEF MessageMoves
    <3> DEFINE e == CfgEvent(kind, pending[a].op, pending[a].by)
    <3>2. e \in Event /\ e.kind # "complete"
      BY <1>8 DEF MessageMoves, Msg, CfgEvent, Event, CfgKinds
    <3> HIDE DEF e
    <3>3. events' = Append(events, e)
      BY <3>1 DEF e
    <3> QED
      BY <1>1, <3>2, <3>3, EventComes
  <2> QED
    BY <2>1, <2>2
<1>9. ASSUME NEW a \in Addrs, StackKeepsFlow, MessageMoves(a)
      PROVE  UNCHANGED <<provInFlight, provTarget, uuidMatch, link, nodeDb>>
  BY <1>9 DEF StackKeepsFlow, MessageMoves
<1>10. ASSUME NEW d \in Devices, NEW a \in Addrs, StackKeepsFlow, Provisions(d, a)
       PROVE  /\ \A x \in Devices : link'[x] = "open" => x = uuidMatch'
              /\ \A e \in EventsIn(events') :
                   e.kind = "complete" => nodeDb'[e.addr] \in {uuidMatch', None}
              /\ provTarget' # None => nodeDb'[provTarget'] \in {uuidMatch', None}
  <2>1. /\ provInFlight /\ provTarget' = provTarget /\ uuidMatch' = uuidMatch
        /\ link[d] = "open" /\ link' = [link EXCEPT ![d] = "closed"]
    BY <1>10 DEF StackKeepsFlow, Provisions
  <2>2. d = uuidMatch
    BY <1>2, <2>1
  <2>3. \A x \in Addrs : nodeDb'[x] \in {nodeDb[x], d, None}
    BY <1>10 DEF Provisions
  <2>4. \A e \in EventsIn(events') :
          e.kind = "complete" => e.addr = a \/ e \in EventsIn(events)
    <3> DEFINE c == CompleteEvent(a)
               e == CloseEvent("link-ok")
               q == Append(events, c)
    <3>1. c \in Event /\ c.addr = a /\ e \in Event /\ e.kind = "close"
      BY DEF CompleteEvent, CloseEvent, Event
    <3>2. events' = Append(q, e) /\ q \in Seq(Event)
      <4>1. events' = events \o <<c, e>>
        BY <1>10 DEF Provisions
      <4> QED
        BY <1>1, <3>1, <4>1
    <3> HIDE DEF c, e
    <3>3. EventsIn(q) = EventsIn(events) \cup {c}
      BY <1>1, <3>1, EventComes
    <3> HIDE DEF q
    <3>4. EventsIn(events') = EventsIn(q) \cup {e}
      BY <3>1, <3>2, EventComes
    <3> QED
      BY <3>1, <3>3, <3>4
  <2>5. \A x \in Devices : link'[x] = "open" => link[x] = "open"
    BY <1>1, <2>1 DEF MeshTypeOK
  <2>6. \A x \in Addrs : nodeDb[x] \in {uuidMatch, None} => nodeDb'[x] \in {uuidMatch, None}
    BY <2>2, <2>3
  <2>7. nodeDb'[a] = uuidMatch
    BY <1>10, <2>2 DEF Provisions
  <2> QED
    BY <1>1, <1>2, <2>1, <2>4, <2>5, <2>6, <2>7
<1> QED
  BY <1>2, <1>3, <1>4, <1>5, <1>6, <1>7, <1>8, <1>9, <1>10, FlowKinds, StackKinds, <1>1
  DEF StackKeepsFlow

(* A sensor keeps what it has applied, unless it leaves.                   *)
LEMMA AtLeastStays ==
  ASSUME MeshTypeOK, MeshTypeOK', uuidMatch \in Devices, uuidMatch' = uuidMatch,
         given # None, given' = given,
         \A x \in Devices : \/ node'[x] = node[x] \/ node'[x].addr = None
                            \/ node'[x].addr = node[x].addr /\ node'[x].cfg >= node[x].cfg,
         cfgStep \in 0 .. 4, cfgStep' = cfgStep
  PROVE  /\ AtLeast(cfgStep) => AtLeast(cfgStep)'
         /\ AtLeast(cfgStep - 1) => AtLeast(cfgStep - 1)'
<1>1. node[uuidMatch].cfg \in 0 .. 3 /\ node'[uuidMatch].cfg \in 0 .. 3
  BY DEF MeshTypeOK
<1>2. node'[uuidMatch].addr = given =>
        node[uuidMatch].addr = given /\ node'[uuidMatch].cfg >= node[uuidMatch].cfg
  BY <1>1
<1> QED
  BY <1>1, <1>2 DEF AtLeast

(* The flow waits for one thing at a time.                                 *)
Waits ==
  /\ provTarget \in {None, given}
  /\ AtMostOne(events)
  /\ \A e \in EventsIn(events) :
       /\ e.kind = "complete" => provTarget = None /\ e.addr = given
       /\ IsCfg(e) => provTarget # None /\ (e.kind = "ack" => AtLeast(cfgStep))
  /\ \A a \in Addrs : Asks(a) =>
       a = provTarget /\ pending[a].op = cfgStep /\ NoTurn(events)
  /\ provTarget # None => AtLeast(cfgStep - 1)

LEMMA WaitsIs == ConfigInv <=> (provInFlight /\ ~stale /\ ~mixed => Waits)
BY DEF ConfigInv, Waits

LEMMA WaitsIsNext == ConfigInv' <=> (provInFlight' /\ ~stale' /\ ~mixed' => Waits')
BY DEF ConfigInv, Waits

LEMMA TurnedWaits ==
  ASSUME IInv, Waits, given' = given, NEW target \in Addrs, NEW step \in 1..3,
         Turned(target, step), ~TakesReset
  PROVE  Waits'
<1>1. /\ MeshTypeOK /\ events \in Seq(Event) /\ uuidMatch \in Devices
      /\ provTarget \in Addrs \cup {None} /\ cfgStep \in 0 .. 4
      /\ provTarget = None => cfgStep = 0
  BY RequestsAssumption DEF IInv, TypeOK, MeshTypeOK, ProvTypeOK, FlowAgreement, Turned
<1>2. /\ Head1 \in EventsIn(events) /\ Rest \in Seq(Event)
      /\ AtMostOne(Rest) /\ (Turns(Head1) => NoTurn(Rest))
  BY <1>1, HeadGoes DEF Turned, Head1, Rest, Waits
<1>3. Turns(Head1) /\ NoTurn(Rest) /\ ~NoTurn(events)
  BY <1>2 DEF Turned, Turns, NoTurn
<1>4. \A a \in Addrs : ~Asks(a)
  BY <1>3 DEF Waits
<1>5. target = given /\ target # None
  BY <1>2, NoneAssumption DEF Turned, Waits
<1>6. AtLeast(step - 1)
  <2>1. CASE Head1.kind = "complete"
    <3>1. step = 1
      BY <1>1, <1>2, <2>1 DEF Turned, Waits, CfgKinds
    <3>2. node[uuidMatch].cfg \in 0 .. 3
      BY <1>1 DEF MeshTypeOK
    <3> QED
      BY <3>1, <3>2 DEF AtLeast
  <2>2. CASE Head1.kind # "complete" /\ step = cfgStep
    BY <1>2, <1>3, <2>2 DEF Turns, Waits
  <2>3. CASE Head1.kind # "complete" /\ step # cfgStep
    <3>1. step - 1 = cfgStep /\ Head1.kind = "ack"
      BY <1>1, <2>3 DEF Turned
    <3>2. AtLeast(cfgStep)
      BY <1>2, <1>3, <2>3, <3>1 DEF Turns, Waits
    <3> QED
      BY <3>1, <3>2
  <2> QED
    BY <2>1, <2>2, <2>3
<1>7. /\ UNCHANGED <<link, node, nodeDb, uuidMatch>>
      /\ provTarget' = target /\ cfgStep' = step
      /\ Sends(step, target, "flow", Rest) /\ step \in Ops /\ "flow" \in Senders
  BY DEF Turned, FlowSends, Ops, Senders
<1> DEFINE err == CfgEvent("err", step, "flow")
<1>8. err.kind = "err" /\ err.kind # "complete"
  BY DEF CfgEvent
<1> HIDE DEF err
<1>9. /\ \A e \in EventsIn(events') : e \in EventsIn(Rest) \/ e = err
      /\ AtMostOne(events')
      /\ \A x \in Addrs : pending'[x] # pending[x] =>
           /\ x = target /\ pending'[x] = [op |-> step, dev |-> nodeDb[x], by |-> "flow"]
           /\ pending[x] = NoMsg /\ nodeDb[x] # None /\ events' = Rest
  BY <1>1, <1>2, <1>3, <1>7, SendAdds DEF err
<1>10. \A e \in EventsIn(events') : e.kind # "complete" /\ (IsCfg(e) => e.kind # "ack")
  <2>1. \A e \in EventsIn(Rest) : ~Turns(e)
    BY <1>3 DEF NoTurn
  <2> QED
    BY <1>8, <1>9, <2>1 DEF Turns
<1>11. ASSUME NEW a \in Addrs, Asks(a)'
       PROVE  a = provTarget' /\ pending'[a].op = cfgStep' /\ NoTurn(events')
  <2>1. pending'[a] # pending[a]
    BY <1>4, <1>11 DEF Asks
  <2>2. a = target /\ pending'[a] = [op |-> step, dev |-> nodeDb[a], by |-> "flow"]
        /\ events' = Rest
    BY <1>9, <2>1
  <2>3. pending'[a].op = step
    BY ONLY <2>2
  <2> QED
    BY <1>3, <1>7, <2>2, <2>3
<1>12. AtLeast(cfgStep - 1)'
  BY <1>6, <1>7 DEF AtLeast
<1> QED
  BY <1>5, <1>7, <1>9, <1>10, <1>11, <1>12 DEF Waits

LEMMA MessageWaits ==
  ASSUME IInv, MeshTypeOK', Waits, given' = given, NEW a \in Addrs, MessageMoves(a),
         provInFlight, UNCHANGED <<provTarget, cfgStep>>,
         provTarget # None => nodeDb[provTarget] \in {uuidMatch, None}
  PROVE  Waits'
<1>1. /\ MeshTypeOK /\ events \in Seq(Event) /\ uuidMatch \in Devices
      /\ provTarget \in Addrs \cup {None} /\ cfgStep \in 0 .. 4
  BY RequestsAssumption DEF IInv, TypeOK, MeshTypeOK, ProvTypeOK, FlowAgreement
<1>2. UNCHANGED <<uuidMatch, link, nodeDb>> /\ pending[a] \in Msg /\ a # None
  BY NoneAssumption DEF MessageMoves
<1>3. provTarget # None => /\ AtLeast(cfgStep) => AtLeast(cfgStep)'
                           /\ AtLeast(cfgStep - 1) => AtLeast(cfgStep - 1)'
  BY <1>1, <1>2, AtLeastStays DEF MessageMoves, Waits
<1>4. \A x \in Addrs : Asks(x)' => Asks(x) /\ pending'[x].op = pending[x].op
  <2>1. [pending[a] EXCEPT !.dev = None].op = pending[a].op
    BY <1>2 DEF Msg
  <2>2. ASSUME NEW x \in Addrs, Asks(x)' PROVE Asks(x) /\ pending'[x].op = pending[x].op
    <3>1. CASE x = a
      <4>1. pending'[a] = [pending[a] EXCEPT !.dev = None]
        BY <2>2, <3>1 DEF MessageMoves, Asks
      <4>2. pending[a] # NoMsg
        BY <1>2 DEF Msg, NoMsg
      <4> QED
        BY <2>1, <2>2, <3>1, <4>1, <4>2 DEF Asks
    <3>2. CASE x # a
      BY <2>2, <3>2 DEF MessageMoves, Asks
    <3> QED
      BY <3>1, <3>2
  <2> QED
    BY <2>2
<1>5. CASE events' = events
  BY <1>1, <1>2, <1>3, <1>4, <1>5 DEF Waits
<1>6. CASE events' # events
  <2>1. PICK kind \in CfgKinds :
          /\ events' = Append(events, CfgEvent(kind, pending[a].op, pending[a].by))
          /\ kind = "ack" =>
               /\ nodeDb[a] \in Devices
               /\ IF pending[a].op = NODE_RESET THEN node'[nodeDb[a]].addr = None
                  ELSE node'[nodeDb[a]].cfg >= pending[a].op
    BY <1>6 DEF MessageMoves
  <2>2. pending'[a] = NoMsg
    BY <1>6 DEF MessageMoves
  <2> DEFINE e == CfgEvent(kind, pending[a].op, pending[a].by)
  <2>3. e \in Event /\ e.kind = kind /\ e.kind # "complete" /\ e.op = pending[a].op
    BY <1>2, <2>1 DEF Msg, CfgEvent, Event, CfgKinds
  <2> HIDE DEF e
  <2>4. events' = Append(events, e)
    BY <2>1 DEF e
  <2>5. pending[a] # NoMsg
    BY <1>2 DEF Msg, NoMsg
  <2>6. Turns(e) => Asks(a)
    BY <2>3, <2>5 DEF Turns, IsCfg, Asks
  <2>7. Turns(e) => /\ a = provTarget /\ pending[a].op = cfgStep /\ NoTurn(events)
                    /\ \A x \in Addrs : ~Asks(x)'
    <3>1. ~Asks(a)'
      BY <2>2 DEF Asks
    <3> QED
      BY <1>4, <2>6, <3>1 DEF Waits
  <2>8. AtMostOne(events') /\ EventsIn(events') = EventsIn(events) \cup {e}
    BY <1>1, <2>3, <2>4, <2>7, EventComes DEF Waits
  <2>9. Turns(e) /\ kind = "ack" => AtLeast(cfgStep)'
    <3> SUFFICES ASSUME Turns(e), kind = "ack" PROVE AtLeast(cfgStep)'
      OBVIOUS
    <3>1. nodeDb[a] \in Devices /\ a = provTarget /\ pending[a].op = cfgStep
      BY <2>1, <2>7
    <3>2. nodeDb[a] = uuidMatch
      BY <1>2, <3>1, NoneAssumption
    <3>3. pending[a].op # NODE_RESET
      BY <2>6 DEF Asks
    <3>4. node'[uuidMatch].cfg >= cfgStep
      BY <2>1, <3>1, <3>2, <3>3
    <3> QED
      BY <1>2, <3>4 DEF AtLeast
  <2>10. ASSUME NEW x \in EventsIn(events')
         PROVE  /\ x.kind = "complete" => provTarget' = None /\ x.addr = given'
                /\ IsCfg(x) => provTarget' # None /\ (x.kind = "ack" => AtLeast(cfgStep)')
    <3>1. CASE x = e
      <4>1. IsCfg(e) => Turns(e)
        BY DEF Turns
      <4> QED
        BY <1>2, <2>3, <2>7, <2>9, <3>1, <4>1
    <3>2. CASE x \in EventsIn(events)
      BY <1>3, <3>2 DEF Waits
    <3> QED
      BY <2>8, <3>1, <3>2
  <2>11. NoTurn(events) /\ ~Turns(e) => NoTurn(events)'
    BY <2>8 DEF NoTurn
  <2>12. ASSUME NEW x \in Addrs, Asks(x)'
         PROVE  x = provTarget' /\ pending'[x].op = cfgStep' /\ NoTurn(events)'
    BY <1>4, <2>7, <2>11, <2>12 DEF Waits
  <2> QED
    BY <1>3, <2>8, <2>10, <2>12 DEF Waits
<1> QED
  BY <1>5, <1>6

(* The sensor is provisioned: the first time in the flow, nothing else is  *)
(* waited for.                                                             *)
LEMMA ProvisionsWaits ==
  ASSUME IInv, Waits, FlowHistory, provInFlight, ~mixed', NEW d \in Devices, NEW a \in Addrs,
         Provisions(d, a), UNCHANGED <<provTarget, cfgStep>>
  PROVE  Waits'
<1>1. /\ MeshTypeOK /\ events \in Seq(Event) /\ provTarget \in Addrs \cup {None}
      /\ \A e \in Event : e.kind = "complete" => e.addr \in Addrs
  BY CompleteKind DEF IInv, TypeOK, MeshTypeOK, ProvTypeOK
<1>2. /\ nodeDb[a] = None /\ nodeDb' = [x \in Addrs |-> IF x = a THEN d
                                ELSE IF nodeDb[x] = d THEN None ELSE nodeDb[x]]
      /\ pending' = [x \in Addrs |-> IF pending[x].dev = d
                                 THEN [pending[x] EXCEPT !.dev = None]
                                 ELSE pending[x]]
      /\ events' = events \o <<CompleteEvent(a), CloseEvent("link-ok")>>
  BY DEF Provisions
<1>3. Joins(a) /\ \A x \in Addrs : Joins(x) => x = a
  BY <1>2, NoneAssumption DEF Joins
<1>4. given = None /\ given' = a
  BY <1>3, FlowGoes DEF FlowHistory
<1>5. provTarget = None
  BY <1>4 DEF Waits
<1>6. /\ \A e \in EventsIn(events) : ~Turns(e)
      /\ \A x \in Addrs : ~Asks(x)
  <2>1. ASSUME NEW e \in EventsIn(events) PROVE ~Turns(e)
    BY <1>1, <1>4, <1>5, <2>1, NoneAssumption DEF Waits, Turns, EventsIn
  <2>2. \A x \in Addrs : ~Asks(x)
    BY <1>5, NoneAssumption DEF Waits
  <2> QED
    BY <2>1, <2>2
<1>7. \A x \in Addrs : ~Asks(x)'
  <2>1. ASSUME NEW x \in Addrs
        PROVE  pending'[x] = pending[x] \/ pending'[x] = [pending[x] EXCEPT !.dev = None]
    BY <1>2
  <2>2. ASSUME NEW x \in Addrs, Asks(x)' PROVE FALSE
    <3>1. pending[x] \in Msg \cup {NoMsg}
      BY <1>1 DEF MeshTypeOK
    <3>2. pending[x].op = pending'[x].op
      BY <2>1, <3>1 DEF Msg, NoMsg
    <3>3. pending[x] # NoMsg
      <4>1. NoMsg = [NoMsg EXCEPT !.dev = None]
        BY DEF NoMsg
      <4> QED
        BY <2>1, <2>2, <4>1 DEF Asks
    <3> QED
      BY <1>6, <2>2, <3>2, <3>3 DEF Asks
  <2> QED
    BY <2>2
<1> DEFINE c == CompleteEvent(a)
           e == CloseEvent("link-ok")
           q == Append(events, c)
<1>8. /\ c \in Event /\ c.kind = "complete" /\ c.addr = a
      /\ e \in Event /\ e.kind = "close" /\ ~Turns(e) /\ ~IsCfg(c)
  BY DEF CompleteEvent, CloseEvent, Event, Turns, IsCfg, CfgKinds
<1>9. events' = Append(q, e) /\ q \in Seq(Event)
  <2>1. events' = events \o <<c, e>>
    BY <1>2
  <2> QED
    BY <1>1, <1>8, <2>1
<1> HIDE DEF c, e
<1>10. EventsIn(q) = EventsIn(events) \cup {c} /\ AtMostOne(q)
  BY <1>1, <1>6, <1>8, EventComes DEF Waits, NoTurn
<1> HIDE DEF q
<1>11. EventsIn(events') = EventsIn(events) \cup {c, e} /\ AtMostOne(events')
  BY <1>8, <1>9, <1>10, EventComes
<1>12. ASSUME NEW x \in EventsIn(events')
       PROVE  (x.kind = "complete" => x.addr = a) /\ ~IsCfg(x)
  <2>1. CASE x \in EventsIn(events)
    BY <1>6, <2>1 DEF Turns
  <2>2. CASE x = c
    BY <1>8, <2>2
  <2>3. CASE x = e
    BY <1>8, <2>3 DEF Turns
  <2> QED
    BY <1>11, <2>1, <2>2, <2>3
<1> QED
  BY <1>4, <1>5, <1>7, <1>11, <1>12 DEF Waits

(* Nothing the flow acts on comes or goes.                                 *)
LEMMA ApartWaits ==
  ASSUME IInv, Waits, given' = given, Apart
  PROVE  Waits'
<1>1. UNCHANGED <<uuidMatch, node, provTarget, cfgStep>>
  BY DEF Apart
<1>2. /\ AtLeast(cfgStep)' = AtLeast(cfgStep)
      /\ AtLeast(cfgStep - 1)' = AtLeast(cfgStep - 1)
  BY <1>1 DEF AtLeast
<1>3. \A e \in EventsIn(events') : e.kind = "complete" \/ IsCfg(e) => e \in EventsIn(events)
  BY DEF Apart, Turns
<1>4. NoTurn(events) => NoTurn(events')
  BY DEF Apart, NoTurn
<1>5. AtMostOne(events')
  BY DEF Apart, Waits
<1>6. \A x \in Addrs : Asks(x)' => Asks(x) /\ pending'[x].op = pending[x].op
  BY DEF Apart
<1>7. NoTurn(events)' = NoTurn(events')
  BY DEF NoTurn
<1> QED
  BY <1>1, <1>2, <1>3, <1>4, <1>5, <1>6, <1>7 DEF Waits

(* A flow that starts on a quiet configuration waits for its sensor.       *)
LEMMA StartWaits ==
  ASSUME MeshTypeOK, Starts, ~OpenConfig, given' = None,
         \A e \in EventsIn(events) : e.kind # "complete"
  PROVE  Waits'
<1>1. UNCHANGED <<pending, events>> /\ provTarget' = None
  BY DEF Starts
<1>2. \A e \in EventsIn(events) : ~Turns(e)
  BY DEF OpenConfig, EventsIn, Turns, IsCfg
<1>3. \A i \in DOMAIN events : ~Turns(events[i])
  BY <1>2 DEF EventsIn, MeshTypeOK
<1>4. \A a \in Addrs : ~Asks(a)
  BY DEF OpenConfig, Asks
<1>5. (\A a \in Addrs : ~Asks(a)') /\ AtMostOne(events')
  BY <1>1, <1>3, <1>4 DEF Asks, AtMostOne
<1>6. \A e \in EventsIn(events') : e.kind # "complete" /\ ~IsCfg(e)
  BY <1>1, <1>2 DEF Turns
<1> QED
  BY <1>1, <1>5, <1>6 DEF Waits

(* The link to the sensor opens or drops, or a sensor leaves.              *)
LEMMA LinkWaits ==
  ASSUME IInv, Waits, given' = given, LinkMoves \/ Leaves, provInFlight,
         UNCHANGED <<provTarget, cfgStep>>
  PROVE  Waits'
<1>1. /\ uuidMatch \in Devices /\ uuidMatch' = uuidMatch
      /\ nodeDb' = nodeDb /\ pending' = pending
  BY RequestsAssumption DEF IInv, FlowAgreement, LinkMoves, Leaves
<1>2. /\ \A e \in EventsIn(events') : e \in EventsIn(events) \/ e.kind = "close"
      /\ AtMostOne(events')
  BY DEF LinkMoves, Leaves, Waits
<1>3. \A e \in EventsIn(events') : Turns(e) => e \in EventsIn(events)
  BY <1>2 DEF Turns, IsCfg, CfgKinds
<1>4. provTarget # None => /\ AtLeast(cfgStep) => AtLeast(cfgStep)'
                           /\ AtLeast(cfgStep - 1) => AtLeast(cfgStep - 1)'
  <2>1. CASE LinkMoves
    BY <2>1 DEF AtLeast, LinkMoves
  <2>2. CASE Leaves /\ provTarget # None
    <3>1. node'[uuidMatch] = node[uuidMatch] \/ node'[uuidMatch].addr = None
      BY <1>1, <2>2 DEF Leaves
    <3>2. given # None
      BY <2>2 DEF Waits
    <3> QED
      BY <1>1, <3>1, <3>2 DEF AtLeast
  <2> QED
    BY <2>1, <2>2
<1>5. /\ \A a \in Addrs : Asks(a)' <=> Asks(a)
      /\ NoTurn(events) => NoTurn(events')
      /\ NoTurn(events)' = NoTurn(events')
  BY <1>1, <1>3 DEF Asks, NoTurn
<1>6. \A e \in EventsIn(events') : e.kind = "complete" \/ IsCfg(e) => e \in EventsIn(events)
  BY <1>3 DEF Turns
<1> QED
  BY <1>1, <1>2, <1>4, <1>5, <1>6 DEF Waits

LEMMA ConfigKept ==
  ASSUME IInv, NamesInv, ConfigInv, Next, FlowHistory, MeshTypeOK'
  PROVE  ConfigInv'
<1> SUFFICES ASSUME provInFlight', ~stale', ~mixed'
             PROVE  Waits'
  BY WaitsIsNext
<1>1. CASE Starts
  <2>1. ~LinkOrComplete(uuidMatch') /\ ~OpenConfig /\ given' = None
    BY <1>1 DEF Starts, FlowHistory
  <2>2. \A e \in EventsIn(events) : e.kind # "complete"
    BY <2>1 DEF LinkOrComplete, EventsIn
  <2> QED
    BY <1>1, <2>1, <2>2, StartWaits DEF IInv, TypeOK
<1>2. ASSUME provInFlight
      PROVE  /\ Waits /\ ~TakesReset
             /\ \A d \in Devices : link[d] = "open" => d = uuidMatch
             /\ provTarget # None => nodeDb[provTarget] \in {uuidMatch, None}
             /\ (\A x \in Addrs : ~Joins(x)) => given' = given
  BY <1>2, FlowGoes, WaitsIs DEF NamesInv
<1>3. CASE Apart
  <2>1. provInFlight /\ given' = given
    BY <1>2, <1>3, NoneJoins DEF Apart
  <2> QED
    BY <1>2, <1>3, <2>1, ApartWaits
<1>4. ASSUME UNCHANGED nodeDb
      PROVE  \A x \in Addrs : ~Joins(x)
  BY <1>4 DEF Joins
<1>5. ASSUME NEW target \in Addrs, NEW step \in 1..3, Turned(target, step) PROVE Waits'
  <2>1. provInFlight /\ UNCHANGED nodeDb
    BY <1>5 DEF Turned, FlowSends
  <2> QED
    BY <1>2, <1>4, <1>5, <2>1, TurnedWaits
<1>6. CASE StackKeepsFlow
  <2>1. provInFlight /\ UNCHANGED <<provTarget, cfgStep>> /\ MeshNext /\ MeshTypeOK
    BY <1>6 DEF StackKeepsFlow, IInv, TypeOK
  <2>2. CASE LinkMoves \/ Leaves
    <3>1. UNCHANGED nodeDb
      BY <2>2 DEF LinkMoves, Leaves
    <3> QED
      BY <1>2, <1>4, <2>1, <2>2, <3>1, LinkWaits
  <2>3. ASSUME NEW a \in Addrs, MessageMoves(a) PROVE Waits'
    <3>1. UNCHANGED nodeDb
      BY <2>3 DEF MessageMoves
    <3> QED
      BY <1>2, <1>4, <2>1, <2>3, <3>1, MessageWaits
  <2>4. ASSUME NEW d \in Devices, NEW a \in Addrs, Provisions(d, a) PROVE Waits'
    BY <1>2, <2>1, <2>4, ProvisionsWaits
  <2> QED
    BY <2>1, <2>2, <2>3, <2>4, StackKinds
<1> QED
  BY <1>1, <1>3, <1>5, <1>6, FlowKinds

-----------------------------------------------------------------------------
(* The resets.  What a callback, a request or a timer may do to them, and  *)
(* to the decommission: it acknowledges none.                              *)
NewMessage(x) ==
  /\ pending'[x] \in Msg
  /\ pending'[x].by = "flow" <=> pending'[x].op # NODE_RESET
  /\ pending'[x].by = "cleanup" /\ "delete" \notin Faults => nodeDb'[x] = None
  /\ pending'[x].by = "decom" /\ decom'.active => x = decom'.addr

NoAck(e) == e.kind \in CfgKinds => e.kind # "ack" /\ (e.op = NODE_RESET => e.by # "flow")

NoneAcknowledged ==
  /\ Shrinks
  /\ \A e \in EventsIn(events') : e \in EventsIn(events) \/ NoAck(e)
  /\ \A x \in Addrs : pending'[x] = pending[x] \/ NewMessage(x)
  /\ decom.active /\ decom'.active => decom'.addr = decom.addr

LEMMA MessageSent ==
  ASSUME MeshTypeOK, NEW op \in Ops, NEW a \in Addrs \cup {None}, NEW by \in Senders,
         NEW queue \in Seq(Event), Sends(op, a, by, queue) \/ SendFails(a, queue),
         EventsIn(queue) \subseteq EventsIn(events), Shrinks,
         by = "flow" <=> op # NODE_RESET,
         by = "cleanup" /\ "delete" \notin Faults /\ a # None => nodeDb'[a] = None,
         by = "decom" /\ decom'.active => a = decom'.addr,
         decom.active /\ decom'.active => decom'.addr = decom.addr
  PROVE  NoneAcknowledged
<1>1. /\ \A e \in EventsIn(events') : e \in EventsIn(queue) \/ e = CfgEvent("err", op, by)
      /\ \A x \in Addrs : pending'[x] # pending[x] =>
           /\ x = a /\ pending'[x] = [op |-> op, dev |-> nodeDb[x], by |-> by]
           /\ pending[x] = NoMsg /\ nodeDb[x] # None /\ events' = queue
  BY SendAdds
<1>2. NoAck(CfgEvent("err", op, by))
  BY DEF NoAck, CfgEvent, CfgKinds
<1>3. ASSUME NEW x \in Addrs, pending'[x] # pending[x] PROVE NewMessage(x)
  <2>1. x = a /\ x # None /\ pending'[x] = [op |-> op, dev |-> nodeDb[x], by |-> by]
        /\ nodeDb[x] \in Devices
    BY <1>1, <1>3, NoneAssumption DEF MeshTypeOK
  <2>2. pending'[x].op = op /\ pending'[x].by = by
    BY ONLY <2>1
  <2>3. pending'[x] \in Msg
    BY <2>1 DEF Msg, Ops
  <2> QED
    BY <2>1, <2>2, <2>3 DEF NewMessage
<1> QED
  BY <1>1, <1>2, <1>3 DEF NoneAcknowledged

LEMMA NothingSent ==
  ASSUME MeshTypeOK, NEW queue, events' = queue, pending' = pending, Shrinks,
         EventsIn(queue) \subseteq EventsIn(events),
         decom.active /\ decom'.active => decom'.addr = decom.addr
  PROVE  NoneAcknowledged
BY DEF NoneAcknowledged

LEMMA FinishErrSends ==
  ASSUME MeshTypeOK, NEW target \in Addrs \cup {None}, NEW queue \in Seq(Event),
         FinishErr(target, queue), EventsIn(queue) \subseteq EventsIn(events),
         decom' = decom
  PROVE  NoneAcknowledged
<1>1. CASE target = None
  <2>1. events' = queue /\ UNCHANGED <<pending, nodeDb>>
    BY <1>1 DEF FinishErr
  <2> QED
    BY <2>1, NothingSent DEF Shrinks
<1>2. CASE target # None
  <2>1. SendsReset(target, "cleanup", queue) /\ DropsNode(target) /\ target \in Addrs
    BY <1>2 DEF FinishErr
  <2>2. Shrinks
    BY <2>1, DropShrinks
  <2>3. "delete" \notin Faults => nodeDb'[target] = None
    BY <2>1 DEF DropsNode, Deletes, DeleteFails, MeshTypeOK
  <2>4. /\ NODE_RESET \in Ops /\ "cleanup" \in Senders
        /\ Sends(NODE_RESET, target, "cleanup", queue) \/ SendFails(target, queue)
    BY <2>1 DEF SendsReset, Ops, Senders
  <2> QED
    BY <2>2, <2>3, <2>4, MessageSent
<1> QED
  BY <1>1, <1>2

LEMMA FlowSendsOne ==
  ASSUME MeshTypeOK, NEW target \in Addrs \cup {None}, NEW step, NEW queue \in Seq(Event),
         FlowSends(step, target, queue), EventsIn(queue) \subseteq EventsIn(events),
         decom' = decom
  PROVE  NoneAcknowledged
<1>1. /\ step \in Ops /\ step # NODE_RESET /\ "flow" \in Senders
      /\ Sends(step, target, "flow", queue) /\ Shrinks
  BY DEF FlowSends, Ops, Senders, Shrinks
<1> QED
  BY <1>1, MessageSent

LEMMA FlowMoves ==
  ASSUME MeshTypeOK, NEW target \in Addrs \cup {None}, NEW queue \in Seq(Event),
         EventsIn(queue) \subseteq EventsIn(events), decom' = decom,
         \/ FinishErr(target, queue) \/ AdvanceStep(target, queue)
         \/ target = provTarget /\ RedoStep(queue)
  PROVE  NoneAcknowledged
<1>1. ASSUME NEW step, FlowSends(step, target, queue) \/ FlowCannotSend(step, target, queue)
      PROVE  NoneAcknowledged
  BY <1>1, FinishErrSends, FlowSendsOne DEF FlowCannotSend
<1>2. CASE FinishOk(target, queue)
  BY <1>2, NothingSent DEF FinishOk, Shrinks
<1> QED
  BY <1>1, <1>2, FinishErrSends DEF AdvanceStep, RedoStep

LEMMA CallbackSends ==
  ASSUME IInv, OnEvent
  PROVE  NoneAcknowledged
<1>1. /\ MeshTypeOK /\ provTarget \in Addrs \cup {None}
      /\ decom.active => decom.addr \in Addrs
      /\ decom \in [active : BOOLEAN, addr : Addrs \cup {None},
                    attempts : 0..DECOM_MAX_ATTEMPTS, req : DecomReqs \cup {NoReq}]
  BY DEF IInv, TypeOK, ProvTypeOK, DecomAgreement
<1>2. events # <<>>
  BY DEF OnEvent, OnLinkClose, OnProvComplete, OnOrphanComplete, OnDecomTimeout,
         OnDecomAnswer, OnCfgTimeout, OnCfgAck, OnCfgError, OnStrayCfgEvent
<1>3. /\ Head1 \in Event /\ Rest \in Seq(Event)
      /\ EventsIn(Rest) \subseteq EventsIn(events)
  BY <1>1, <1>2, HeadGoes DEF MeshTypeOK, Rest, Head1
<1>4. Head1.kind = "complete" => Head1.addr \in Addrs
  BY <1>3, CompleteKind
<1>5. CASE OnLinkClose
  <2>1. decom' = decom
    BY <1>5 DEF OnLinkClose
  <2>2. CASE FinishErr(provTarget, Rest)
    BY <1>1, <1>3, <2>1, <2>2, FinishErrSends
  <2>3. CASE events' = Rest /\ UNCHANGED <<nodeDb, pending>>
    BY <1>1, <1>3, <2>1, <2>3, NothingSent DEF Shrinks
  <2> QED
    BY <1>5, <2>2, <2>3 DEF OnLinkClose
<1>6. CASE OnProvComplete
  BY <1>1, <1>3, <1>4, <1>6, FlowMoves DEF OnProvComplete
<1>7. CASE OnOrphanComplete
  <2>1. DropsNode(Head1.addr) /\ events' = Rest /\ pending' = pending /\ decom' = decom
    BY <1>7 DEF OnOrphanComplete, provVars
  <2>2. Shrinks
    BY <1>1, <1>4, <1>7, <2>1, DropShrinks DEF OnOrphanComplete
  <2> QED
    BY <1>1, <1>3, <2>1, <2>2, NothingSent
<1>8. CASE OnDecomTimeout \/ OnDecomAnswer
  <2>1. ASSUME NEW result, DecomFinish(result, Rest) PROVE NoneAcknowledged
    <3>1. DropsNode(decom.addr) /\ events' = Rest /\ pending' = pending /\ ~decom'.active
      BY <2>1 DEF DecomFinish, DropsNode, NoDecom
    <3>2. decom.addr \in Addrs
      BY <1>1, <1>8 DEF OnDecomTimeout, OnDecomAnswer, ForDecom
    <3>3. Shrinks
      BY <1>1, <3>1, <3>2, DropShrinks
    <3> QED
      BY <1>1, <1>3, <3>1, <3>3, NothingSent
  <2>2. CASE /\ decom' = [decom EXCEPT !.attempts = @ + 1]
             /\ SendsReset(decom.addr, "decom", Rest) /\ UNCHANGED nodeDb
    <3>1. decom'.addr = decom.addr
      BY <1>1, <2>2
    <3>2. Shrinks /\ NODE_RESET \in Ops /\ "decom" \in Senders
      BY <2>2 DEF Shrinks, Ops, Senders
    <3>3. /\ Sends(NODE_RESET, decom.addr, "decom", Rest) \/ SendFails(decom.addr, Rest)
          /\ decom.addr \in Addrs \cup {None}
      BY <1>1, <2>2 DEF SendsReset
    <3> QED
      BY <1>1, <1>3, <3>1, <3>2, <3>3, MessageSent
  <2> QED
    BY <1>8, <2>1, <2>2 DEF OnDecomTimeout, OnDecomAnswer
<1>9. CASE OnCfgTimeout \/ OnCfgAck \/ OnCfgError
  BY <1>1, <1>3, <1>9, FlowMoves DEF OnCfgTimeout, OnCfgAck, OnCfgError
<1>10. CASE OnStrayCfgEvent
  BY <1>1, <1>3, <1>10, NothingSent DEF OnStrayCfgEvent, provVars, Shrinks
<1> QED
  BY <1>5, <1>6, <1>7, <1>8, <1>9, <1>10 DEF OnEvent

LEMMA OtherSends ==
  ASSUME IInv, Next, ~OnEvent, ~StackStep, ~Reboot
  PROVE  NoneAcknowledged /\ node' = node
<1>1. MeshTypeOK /\ events \in Seq(Event) /\ provTarget \in Addrs \cup {None}
  BY DEF IInv, TypeOK, MeshTypeOK, ProvTypeOK
<1>2. ASSUME UNCHANGED <<nodeDb, pending, events, decom>> PROVE NoneAcknowledged
  BY <1>1, <1>2, NothingSent DEF Shrinks
<1>3. ASSUME NEW r \in ProvReqs, RejectProvision(r) \/ StartProvision(r)
      PROVE  NoneAcknowledged /\ node' = node
  BY <1>2, <1>3 DEF RejectProvision, StartProvision, meshVars, provVars
<1>4. ASSUME NEW r \in DecomReqs, RejectDecommission(r)
      PROVE  NoneAcknowledged /\ node' = node
  BY <1>2, <1>4 DEF RejectDecommission, meshVars, provVars
<1>5. ASSUME NEW r \in DecomReqs, NEW a \in Addrs, StartDecommission(r, a)
      PROVE  NoneAcknowledged /\ node' = node
  <2>1. /\ ~decom.active /\ decom'.addr = a /\ SendsReset(a, "decom", events)
        /\ nodeDb' = nodeDb /\ node' = node
    BY <1>5 DEF StartDecommission, DecommissionStarts, DecommissionAccepted
  <2>2. /\ Sends(NODE_RESET, a, "decom", events) \/ SendFails(a, events)
        /\ NODE_RESET \in Ops /\ "decom" \in Senders /\ Shrinks
        /\ a \in Addrs \cup {None}
    BY <2>1 DEF SendsReset, Ops, Senders, Shrinks
  <2> QED
    BY <1>1, <2>1, <2>2, MessageSent
<1>6. CASE ProvTimeout
  <2>1. decom' = decom /\ node' = node
    BY <1>6 DEF ProvTimeout
  <2>2. CASE FinishErr(provTarget, events)
    BY <1>1, <2>1, <2>2, FinishErrSends
  <2>3. CASE UNCHANGED <<nodeDb, pending, events>>
    BY <1>2, <2>1, <2>3
  <2> QED
    BY <1>6, <2>1, <2>2, <2>3 DEF ProvTimeout
<1>7. CASE MeshStarts \/ BrokerConnects \/ BrokerDisconnects
  BY <1>2, <1>7 DEF MeshStarts, BrokerConnects, BrokerDisconnects, meshVars, provVars
<1> QED
  BY <1>3, <1>4, <1>5, <1>6, <1>7 DEF Next

(* What the history of a decommission says of a step.                      *)
LEMMA DecomGoes ==
  ASSUME DecomHistory, decom'.active
  PROVE  \/ decom.active /\ earlier' = earlier /\ (wiped => wiped')
         \/ earlier' = OpenReset
BY DEF DecomHistory

LEMMA SentKeepsResets ==
  ASSUME IInv, ResetInv, NoneAcknowledged, DecomHistory
  PROVE  ResetInv'
<1>1. MeshTypeOK
  BY DEF IInv, TypeOK
<1>2. ASSUME NEW a \in Addrs, pending'[a] # NoMsg
      PROVE  pending'[a].by = "flow" <=> pending'[a].op # NODE_RESET
  BY <1>2 DEF NoneAcknowledged, NewMessage, ResetInv
<1>3. ASSUME NEW a \in Addrs, pending'[a].by = "cleanup", "delete" \notin Faults
      PROVE  pending'[a].dev = None \/ pending'[a].dev # nodeDb'[a]
  <2>1. CASE pending'[a] = pending[a]
    BY <1>3, <2>1 DEF NoneAcknowledged, ResetInv, Shrinks
  <2>2. CASE NewMessage(a)
    BY <1>3, <2>2 DEF NewMessage
  <2> QED
    BY <2>1, <2>2 DEF NoneAcknowledged
<1>4. ASSUME decom'.active, ~earlier'
      PROVE  /\ \A a \in Addrs : pending[a].by = "decom" => a = decom'.addr
             /\ \A e \in EventsIn(events) : e.by = "decom" =>
                  (e.kind = "ack" /\ e.op = NODE_RESET => wiped')
  <2>1. CASE decom.active /\ earlier' = earlier /\ (wiped => wiped')
    <3>1. decom'.addr = decom.addr
      BY <1>4, <2>1 DEF NoneAcknowledged
    <3>2. "ack" \in CfgKinds
      BY DEF CfgKinds
    <3> QED
      BY <1>4, <2>1, <3>1, <3>2 DEF ResetInv
  <2>2. CASE earlier' = OpenReset
    BY <1>4, <2>2 DEF OpenReset, EventsIn
  <2> QED
    BY <1>4, <2>1, <2>2, DecomGoes
<1>5. ASSUME NEW a \in Addrs, pending'[a].by = "decom", decom'.active, ~earlier'
      PROVE  a = decom'.addr
  BY <1>4, <1>5 DEF NoneAcknowledged, NewMessage
<1>6. ASSUME NEW e \in EventsIn(events'), e.kind \in CfgKinds, e.op = NODE_RESET
      PROVE  /\ e.by # "flow"
             /\ e.kind = "ack" /\ e.by = "cleanup" => "delete" \in Faults
             /\ e.kind = "ack" /\ e.by = "decom" /\ decom'.active /\ ~earlier' => wiped'
  <2>1. CASE e \in EventsIn(events)
    <3>1. e.kind = "ack" /\ e.by = "decom" /\ decom'.active /\ ~earlier' => wiped'
      BY <1>4, <1>6, <2>1
    <3> QED
      BY <1>6, <2>1, <3>1 DEF ResetInv
  <2>2. CASE NoAck(e)
    BY <1>6, <2>2 DEF NoAck
  <2> QED
    BY <2>1, <2>2 DEF NoneAcknowledged
<1> QED
  BY <1>2, <1>3, <1>5, <1>6 DEF ResetInv

(* A step of the stack while a decommission waits.                         *)
LEMMA StackResets ==
  ASSUME DecomHistory, decom' = decom, decom.active
  PROVE  /\ earlier' = earlier /\ (wiped => wiped')
         /\ (\E d \in Devices : node[d].addr = decom.addr /\ node'[d].addr # decom.addr) => wiped'
BY DEF DecomHistory

LEMMA QueueKeepsResets ==
  ASSUME IInv, ResetInv, DecomHistory, decom' = decom,
         \A x \in Addrs : \/ pending'[x] = pending[x]
                          \/ pending'[x] = NoMsg
                          \/ /\ pending'[x].op = pending[x].op /\ pending'[x].by = pending[x].by
                             /\ pending'[x].dev = None /\ pending[x] # NoMsg,
         \A x \in Addrs : \/ nodeDb'[x] \in {nodeDb[x], None}
                          \/ pending'[x].dev # nodeDb'[x],
         \A e \in EventsIn(events') :
           \/ e \in EventsIn(events) \/ e.kind \notin CfgKinds
           \/ /\ e.op = NODE_RESET => e.by # "flow"
              /\ e.op = NODE_RESET /\ e.kind = "ack" =>
                   /\ e.by = "cleanup" => "delete" \in Faults
                   /\ e.by = "decom" /\ decom.active /\ ~earlier => wiped'
  PROVE  ResetInv'
<1>1. decom.active => earlier' = earlier /\ (wiped => wiped')
  BY StackResets
<1>2. NoMsg.by = "flow"
  BY DEF NoMsg
<1>3. ASSUME NEW a \in Addrs, pending'[a] # NoMsg
      PROVE  pending'[a].by = "flow" <=> pending'[a].op # NODE_RESET
  BY <1>3 DEF ResetInv
<1>4. ASSUME NEW a \in Addrs, pending'[a].by = "cleanup", "delete" \notin Faults
      PROVE  pending'[a].dev = None \/ pending'[a].dev # nodeDb'[a]
  BY <1>2, <1>4 DEF ResetInv
<1>5. ASSUME NEW a \in Addrs, pending'[a].by = "decom", decom'.active, ~earlier'
      PROVE  a = decom'.addr
  BY <1>1, <1>2, <1>5 DEF ResetInv
<1>6. ASSUME NEW e \in EventsIn(events'), e.kind \in CfgKinds, e.op = NODE_RESET
      PROVE  /\ e.by # "flow"
             /\ e.kind = "ack" /\ e.by = "cleanup" => "delete" \in Faults
             /\ e.kind = "ack" /\ e.by = "decom" /\ decom'.active /\ ~earlier' => wiped'
  BY <1>1, <1>6 DEF ResetInv
<1> QED
  BY <1>3, <1>4, <1>5, <1>6 DEF ResetInv

LEMMA LinkKeepsResets ==
  ASSUME IInv, ResetInv, DecomHistory, decom' = decom, LinkMoves \/ Leaves
  PROVE  ResetInv'
<1>1. nodeDb' = nodeDb /\ pending' = pending
  BY DEF LinkMoves, Leaves
<1>2. \A e \in EventsIn(events') : e \in EventsIn(events) \/ e.kind \notin CfgKinds
  BY DEF LinkMoves, Leaves, CfgKinds
<1> QED
  BY <1>1, <1>2, QueueKeepsResets

LEMMA MessageKeepsResets ==
  ASSUME IInv, ResetInv, DecomHistory, decom' = decom, NEW a \in Addrs, MessageMoves(a)
  PROVE  ResetInv'
<1>1. /\ pending[a] \in Msg /\ pending[a] # NoMsg /\ nodeDb' = nodeDb
      /\ MeshTypeOK /\ events \in Seq(Event)
  BY DEF MessageMoves, Msg, NoMsg, IInv, TypeOK, MeshTypeOK
<1>2. ASSUME NEW x \in Addrs
      PROVE  \/ pending'[x] = pending[x]
             \/ pending'[x] = NoMsg
             \/ /\ pending'[x].op = pending[x].op /\ pending'[x].by = pending[x].by
                /\ pending'[x].dev = None /\ pending[x] # NoMsg
  <2>1. CASE x # a \/ pending'[a] = NoMsg
    BY <2>1 DEF MessageMoves
  <2>2. CASE x = a /\ pending'[a] = [pending[a] EXCEPT !.dev = None]
    <3>1. /\ pending'[a].op = pending[a].op /\ pending'[a].by = pending[a].by
          /\ pending'[a].dev = None
      BY <1>1, <2>2 DEF Msg
    <3> QED
      BY <1>1, <2>2, <3>1
  <2> QED
    BY <2>1, <2>2 DEF MessageMoves
<1>3. ASSUME NEW e \in EventsIn(events')
      PROVE  \/ e \in EventsIn(events)
             \/ /\ e.op = NODE_RESET => e.by # "flow"
                /\ e.op = NODE_RESET /\ e.kind = "ack" =>
                     /\ e.by = "cleanup" => "delete" \in Faults
                     /\ e.by = "decom" /\ decom.active /\ ~earlier => wiped'
  <2>1. CASE events' = events
    BY <1>3, <2>1
  <2>2. CASE events' # events
    <3>1. PICK kind \in CfgKinds :
            /\ events' = Append(events, CfgEvent(kind, pending[a].op, pending[a].by))
            /\ kind = "ack" =>
                 /\ nodeDb[a] = pending[a].dev /\ nodeDb[a] \in Devices
                 /\ node[nodeDb[a]].addr = a
                 /\ pending[a].op = NODE_RESET => node'[nodeDb[a]].addr = None
      BY <2>2 DEF MessageMoves
    <3> DEFINE c == CfgEvent(kind, pending[a].op, pending[a].by)
    <3>2. c \in Event /\ c.kind = kind /\ c.op = pending[a].op /\ c.by = pending[a].by
      BY <1>1 DEF Msg, CfgEvent, Event, CfgKinds
    <3> HIDE DEF c
    <3>3. EventsIn(events') = EventsIn(events) \cup {c}
      <4>1. events' = Append(events, c)
        BY <3>1 DEF c
      <4> QED
        BY <1>1, <3>2, <4>1, EventComes
    <3>4. c.op = NODE_RESET => c.by # "flow"
      BY <1>1, <3>2 DEF ResetInv
    <3>5. ASSUME c.op = NODE_RESET, c.kind = "ack"
          PROVE  /\ c.by = "cleanup" => "delete" \in Faults
                 /\ c.by = "decom" /\ decom.active /\ ~earlier => wiped'
      <4>1. /\ nodeDb[a] = pending[a].dev /\ nodeDb[a] \in Devices
            /\ node[nodeDb[a]].addr = a /\ node'[nodeDb[a]].addr = None
        BY <3>1, <3>2, <3>5
      <4>2. c.by = "cleanup" => "delete" \in Faults
        BY <3>2, <4>1, NoneAssumption DEF ResetInv
      <4>3. ASSUME c.by = "decom", decom.active, ~earlier PROVE wiped'
        <5>1. a = decom.addr
          BY <3>2, <4>3 DEF ResetInv
        <5> QED
          BY <4>1, <4>3, <5>1, StackResets, NoneAssumption
      <4> QED
        BY <4>2, <4>3
    <3> QED
      BY <3>3, <3>4, <3>5
  <2> QED
    BY <2>1, <2>2
<1> QED
  BY <1>1, <1>2, <1>3, QueueKeepsResets

LEMMA ProvisionsKeepsResets ==
  ASSUME IInv, ResetInv, DecomHistory, decom' = decom, NEW d \in Devices, NEW a \in Addrs,
         Provisions(d, a)
  PROVE  ResetInv'
<1>1. /\ nodeDb' = [x \in Addrs |-> IF x = a THEN d
                                ELSE IF nodeDb[x] = d THEN None ELSE nodeDb[x]]
      /\ pending' = [x \in Addrs |-> IF pending[x].dev = d
                                 THEN [pending[x] EXCEPT !.dev = None]
                                 ELSE pending[x]]
      /\ events' = events \o <<CompleteEvent(a), CloseEvent("link-ok")>>
      /\ pending \in [Addrs -> Msg \cup {NoMsg}] /\ events \in Seq(Event) /\ d # None
  BY NoneAssumption DEF Provisions, IInv, TypeOK, MeshTypeOK
<1>2. ASSUME NEW x \in Addrs
      PROVE  /\ \/ pending'[x] = pending[x]
                \/ /\ pending'[x].op = pending[x].op /\ pending'[x].by = pending[x].by
                   /\ pending'[x].dev = None /\ pending[x] # NoMsg
             /\ nodeDb'[x] \in {nodeDb[x], None} \/ pending'[x].dev # nodeDb'[x]
  <2>1. CASE pending[x].dev = d
    <3>1. pending'[x] = [pending[x] EXCEPT !.dev = None] /\ pending[x] # NoMsg
      BY <1>1, <2>1 DEF NoMsg
    <3>2. /\ pending'[x].op = pending[x].op /\ pending'[x].by = pending[x].by
          /\ pending'[x].dev = None
      BY <1>1, <3>1 DEF Msg
    <3> QED
      BY <1>1, <3>1, <3>2
  <2>2. CASE pending[x].dev # d
    BY <1>1, <2>2
  <2> QED
    BY <2>1, <2>2
<1> DEFINE c == CompleteEvent(a)
           e == CloseEvent("link-ok")
           q == Append(events, c)
<1>3. c \in Event /\ c.kind \notin CfgKinds /\ e \in Event /\ e.kind \notin CfgKinds
  BY DEF CompleteEvent, CloseEvent, Event, CfgKinds
<1>4. events' = Append(q, e) /\ q \in Seq(Event)
  <2>1. events' = events \o <<c, e>>
    BY <1>1
  <2> QED
    BY <1>1, <1>3, <2>1
<1> HIDE DEF c, e
<1>5. EventsIn(q) = EventsIn(events) \cup {c}
  BY <1>1, <1>3, EventComes
<1> HIDE DEF q
<1>6. EventsIn(events') = EventsIn(events) \cup {c, e}
  BY <1>3, <1>4, <1>5, EventComes
<1> QED
  BY <1>2, <1>3, <1>6, QueueKeepsResets

LEMMA ResetKept ==
  ASSUME IInv, ResetInv, Next, DecomHistory
  PROVE  ResetInv'
<1>1. CASE OnEvent \/ (~OnEvent /\ ~StackStep /\ ~Reboot)
  BY <1>1, CallbackSends, OtherSends, SentKeepsResets
<1>2. CASE StackStep
  <2>1. MeshTypeOK /\ MeshNext /\ decom' = decom
    BY <1>2 DEF StackStep, provVars, IInv, TypeOK
  <2> QED
    BY <2>1, StackKinds, LinkKeepsResets, MessageKeepsResets, ProvisionsKeepsResets
<1>3. CASE Reboot
  <2>1. /\ pending' = [x \in Addrs |-> NoMsg] /\ events' = <<>> /\ ~decom'.active
    BY <1>3 DEF Reboot, MeshRestarts, NoDecom
  <2>2. EventsIn(events') = {}
    BY <2>1 DEF EventsIn
  <2>3. \A x \in Addrs : pending'[x] = NoMsg
    BY <2>1
  <2> QED
    BY <2>1, <2>2, <2>3 DEF ResetInv, NoMsg
<1> QED
  BY <1>1, <1>2, <1>3

-----------------------------------------------------------------------------
(* Which step says ok: the last answer of a flow, or what is taken for it, *)
(* and an acknowledged reset.                                              *)
FlowOk(m) ==
  /\ m.req = inflight.req /\ m.req \in ProvReqs /\ provInFlight /\ cfgStep = MODEL_PUB_SET
  /\ events # <<>>
  /\ \/ Head1.kind = "complete" /\ m.addr = Head1.addr
     \/ Head1.kind = "ack" /\ m.addr = provTarget /\ (IsCfg(Head1) \/ TakesReset)

DecomOk(m) ==
  /\ m.req \in DecomReqs
  /\ events # <<>> /\ decom.active /\ Head1.kind = "ack" /\ Head1.op = NODE_RESET

LEMMA NoOkOfErr ==
  ASSUME NEW target, NEW queue, FinishErr(target, queue)
  PROVE  NewOk = {}
BY NewOks, NoNewOks DEF FinishErr, OnProvDoneErr

LEMMA OkOfFlow ==
  ASSUME IInv, NEW target, NEW queue, AdvanceStep(target, queue), provInFlight,
         NEW m \in NewOk
  PROVE  m.req = inflight.req /\ m.req \in ProvReqs /\ cfgStep = MODEL_PUB_SET /\ m.addr = target
<1>1. ASSUME NEW step, FlowSends(step, target, queue) \/ FlowCannotSend(step, target, queue)
      PROVE  FALSE
  BY <1>1, NoOkOfErr, NoNewOks DEF FlowSends, FlowCannotSend
<1>2. IsDone(cfgStep + 1) /\ FinishOk(target, queue)
  BY <1>1 DEF AdvanceStep
<1>3. inflight.active /\ inflight.req \in ProvReqs /\ cfgStep \in 0 .. 4
  BY DEF IInv, FlowAgreement, TypeOK, ProvTypeOK
<1>4. Replies(inflight.req, "ok", target)
  BY <1>2, <1>3 DEF FinishOk, OnProvDoneOk
<1>5. cfgStep = MODEL_PUB_SET
  BY <1>2, <1>3 DEF IsDone
<1> QED
  BY <1>3, <1>4, <1>5, NewOks

LEMMA NoOkOfRedo ==
  ASSUME NEW queue, RedoStep(queue)
  PROVE  NewOk = {}
BY NoOkOfErr, NoNewOks DEF RedoStep, FlowSends, FlowCannotSend

LEMMA OkKinds ==
  ASSUME IInv, Next, NEW m \in NewOk
  PROVE  FlowOk(m) \/ DecomOk(m)
<1>1. /\ decom.active => decom.req \in DecomReqs
      /\ MeshTypeOK
  BY DEF IInv, DecomAgreement, TypeOK
<1>2. ASSUME NEW r, NEW status, NEW a, Replies(r, status, a), status # "ok"
      PROVE  FALSE
  BY <1>2, NewOks
<1>3. ~NoReply
  BY NoNewOks
<1>4. ASSUME said' = said PROVE FALSE
  BY <1>4 DEF NewOk
<1>5. \A target, queue : ~FinishErr(target, queue)
  BY NoOkOfErr
<1>6. CASE OnEvent
  <2>1. CASE OnLinkClose \/ OnOrphanComplete \/ OnCfgError \/ OnCfgTimeout \/ OnStrayCfgEvent
    BY <1>3, <1>4, <1>5, <2>1, NoOkOfRedo
    DEF OnLinkClose, OnOrphanComplete, OnCfgError, OnCfgTimeout, OnStrayCfgEvent, replyVars
  <2>2. CASE OnProvComplete
    BY <2>2, OkOfFlow DEF OnProvComplete, FlowOk
  <2>3. CASE OnCfgAck
    <3>1. Head1.kind = "ack" /\ (IsCfg(Head1) \/ TakesReset) /\ provInFlight /\ events # <<>>
      BY <1>6, <2>3 DEF OnCfgAck, ForFlow, IsCfg, TakesReset
    <3> QED
      BY <2>3, <3>1, OkOfFlow DEF OnCfgAck, FlowOk
  <2>4. CASE OnDecomTimeout
    <3>1. ~DecomFinish("orphan", Rest)
      <4>1. ASSUME DecomFinish("orphan", Rest)
            PROVE  \E status : Replies(decom.req, status, decom.addr) /\ status # "ok"
        BY <4>1 DEF DecomFinish, OnDecomDone
      <4> QED
        BY <1>2, <4>1
    <3> QED
      BY <1>3, <2>4, <3>1 DEF OnDecomTimeout
  <2>5. CASE OnDecomAnswer
    <3>1. events # <<>> /\ ForDecom /\ DecomFinish(DecomResult(Head1.kind), Rest)
      BY <2>5 DEF OnDecomAnswer
    <3>2. PICK status :
            /\ Replies(decom.req, status, decom.addr)
            /\ status = "ok" => DecomResult(Head1.kind) = "ok"
      BY <3>1 DEF DecomFinish, OnDecomDone
    <3>3. status = "ok" /\ m.req = decom.req
      BY <3>2, NewOks
    <3>4. Head1.kind = "ack"
      BY <3>2, <3>3 DEF DecomResult
    <3> QED
      BY <1>1, <3>1, <3>3, <3>4 DEF DecomOk, ForDecom
  <2> QED
    BY <1>6, <2>1, <2>2, <2>3, <2>4, <2>5 DEF OnEvent
<1>7. ASSUME NEW r, RejectProvision(r) \/ RejectDecommission(r) \/ StartProvision(r)
      PROVE  FALSE
  BY <1>2, <1>3, <1>7 DEF RejectProvision, RejectDecommission, StartProvision
<1>8. ~StackStep /\ ~Reboot /\ ~MeshStarts /\ ~BrokerConnects /\ ~BrokerDisconnects
  BY <1>4 DEF StackStep, replyVars, Reboot, MeshStarts, BrokerConnects, BrokerDisconnects
<1>9. ~ProvTimeout
  BY <1>3, <1>5 DEF ProvTimeout
<1>10. \A r, a : ~StartDecommission(r, a)
  BY <1>3 DEF StartDecommission
<1> QED
  BY <1>6, <1>7, <1>8, <1>9, <1>10 DEF Next

LEMMA HeadThere ==
  ASSUME IInv, events # <<>>
  PROVE  Head1 \in Event /\ Head1 \in EventsIn(events)
BY HeadGoes DEF IInv, TypeOK, MeshTypeOK, Head1

(* What the invariants say of an ok.                                       *)
NamedOk == \A m \in NewOk : m.req \in ProvReqs =>
             stale \/ nodeDb[m.addr] \in {ReqDev[m.req], None}

ConfiguredOk == \A m \in NewOk : (m.req \in ProvReqs /\ nodeDb[m.addr] # None) =>
                  \/ stale \/ mixed'
                  \/ node[nodeDb[m.addr]].cfg = MODEL_PUB_SET
                  \/ node[nodeDb[m.addr]].addr # m.addr

WipedOk == \A m \in NewOk : m.req \in DecomReqs =>
             \/ wiped \/ earlier
             \/ Head1.by = "cleanup" /\ "delete" \in Faults

LEMMA OksNamed ==
  ASSUME IInv, OutcomeInv, Next
  PROVE  NamedOk
<1> SUFFICES ASSUME NEW m \in NewOk, m.req \in ProvReqs, ~stale
             PROVE  nodeDb[m.addr] \in {ReqDev[m.req], None}
  BY DEF NamedOk
<1>1. FlowOk(m)
  BY OkKinds, RequestsAssumption DEF DecomOk
<1>2. uuidMatch = ReqDev[m.req] /\ provTarget # None /\ NamesInv
  BY <1>1 DEF IInv, FlowAgreement, FlowOk, OutcomeInv
<1> QED
  BY <1>1, <1>2, HeadThere DEF FlowOk, NamesInv

LEMMA OksConfigured ==
  ASSUME IInv, OutcomeInv, Next, FlowHistory
  PROVE  ConfiguredOk
<1> SUFFICES ASSUME NEW m \in NewOk, m.req \in ProvReqs, nodeDb[m.addr] # None,
                    ~stale, ~mixed', node[nodeDb[m.addr]].addr = m.addr
             PROVE  node[nodeDb[m.addr]].cfg = MODEL_PUB_SET
  BY DEF ConfiguredOk
<1>1. FlowOk(m)
  BY OkKinds, RequestsAssumption DEF DecomOk
<1>2. /\ provInFlight /\ provTarget \in Addrs /\ cfgStep = MODEL_PUB_SET
      /\ uuidMatch \in Devices /\ MeshTypeOK
      /\ Head1 \in EventsIn(events) /\ "ack" # "complete"
  BY <1>1, HeadThere, RequestsAssumption
  DEF FlowOk, IInv, FlowAgreement, TypeOK, ProvTypeOK
<1>3. Waits /\ ~TakesReset
  BY <1>2, FlowGoes, WaitsIs DEF OutcomeInv
<1>4. Head1.kind = "ack" /\ IsCfg(Head1) /\ m.addr = provTarget
  BY <1>1, <1>2, <1>3, NoneAssumption DEF FlowOk, Waits
<1>5. AtLeast(MODEL_PUB_SET) /\ provTarget = given
  BY <1>2, <1>3, <1>4, NoneAssumption DEF Waits
<1>6. nodeDb[m.addr] = uuidMatch
  BY <1>2, <1>4, NoneAssumption DEF OutcomeInv, NamesInv
<1>7. node[uuidMatch].cfg \in 0 .. 3 /\ node[uuidMatch].cfg >= 3
  BY <1>2, <1>4, <1>5, <1>6 DEF AtLeast, MeshTypeOK
<1> QED
  BY <1>6, <1>7

LEMMA OksWiped ==
  ASSUME IInv, OutcomeInv, Next
  PROVE  WipedOk
<1> SUFFICES ASSUME NEW m \in NewOk, m.req \in DecomReqs
             PROVE  \/ wiped \/ earlier
                    \/ Head1.by = "cleanup" /\ "delete" \in Faults
  BY DEF WipedOk
<1>1. DecomOk(m)
  BY OkKinds, RequestsAssumption DEF FlowOk
<1>2. Head1 \in EventsIn(events) /\ Head1 \in Event
  BY <1>1, HeadThere DEF DecomOk
<1>3. Head1.by \in Senders /\ Head1.kind \in CfgKinds
  BY <1>1, <1>2 DEF DecomOk, Event, CfgKinds
<1> QED
  BY <1>1, <1>2, <1>3 DEF DecomOk, OutcomeInv, ResetInv, Senders

-----------------------------------------------------------------------------
LEMMA OutcomeStarts == HInit => OutcomeInv
<1> SUFFICES ASSUME HInit PROVE OutcomeInv
  OBVIOUS
<1>1. ~provInFlight /\ events = <<>> /\ \A a \in Addrs : pending[a] = NoMsg
  BY DEF HInit, Init, MeshInit, ProvInit
<1>2. EventsIn(events) = {}
  BY <1>1 DEF EventsIn
<1>3. NoMsg.by = "flow"
  BY DEF NoMsg
<1> QED
  BY <1>1, <1>2, <1>3 DEF OutcomeInv, NamesInv, ConfigInv, ResetInv

LEMMA OutcomeStays ==
  ASSUME IInv, IInv', OutcomeInv, [HNext]_hvars
  PROVE  OutcomeInv'
<1>1. CASE HNext
  BY <1>1, NamesKept, ConfigKept, ResetKept DEF HNext, OutcomeInv, IInv, TypeOK
<1>2. CASE UNCHANGED hvars
  <2>1. UNCHANGED <<uuidMatch, link, nodeDb, pending, events, node, provInFlight, provTarget,
                    cfgStep, decom, stale, mixed, given, earlier, wiped>>
    BY <1>2 DEF hvars, vars, meshVars, provVars, flowVars, historyVars
  <2>2. NamesInv' /\ ResetInv'
    BY <2>1 DEF OutcomeInv, NamesInv, ResetInv, EventsIn
  <2>3. /\ \A a \in Addrs : Asks(a)' <=> Asks(a)
        /\ \A n : AtLeast(n)' <=> AtLeast(n)
        /\ AtMostOne(events)' <=> AtMostOne(events)
        /\ NoTurn(events)' <=> NoTurn(events)
    BY <2>1 DEF Asks, AtLeast, AtMostOne, NoTurn, EventsIn
  <2>4. ConfigInv'
    BY <2>1, <2>3 DEF OutcomeInv, ConfigInv, EventsIn
  <2> QED
    BY <2>2, <2>4 DEF OutcomeInv
<1> QED
  BY <1>1, <1>2

(* The history changes nothing that the gateway does.                      *)
THEOREM HistoryIsAlong == HSpec => Spec
<1>1. HInit => Init
  BY DEF HInit
<1>2. [HNext]_hvars => [Next]_vars
  BY DEF HNext, hvars
<1> QED
  BY <1>1, <1>2, PTL DEF HSpec, Spec

(* The flow waits for its own device and its own answers, and resets are   *)
(* told apart, through every overlap of requests.                          *)
THEOREM OutcomeInvariance == HSpec => []OutcomeInv
<1>1. IInv /\ IInv' /\ OutcomeInv /\ [HNext]_hvars => OutcomeInv'
  BY OutcomeStays
<1> QED
  BY <1>1, OutcomeStarts, HistoryIsAlong, Invariance, PTL DEF HSpec

(* Whatever requests overlap, sensors leave and calls fail: the node of an *)
(* ok is the device the request named, unless a link to another sensor was *)
(* open, or a complete waiting, when dp_mesh_gateway_provision was called. *)
THEOREM OkNamesDevice == HSpec => OkNamesDeviceUnlessStale
<1>1. IInv /\ OutcomeInv /\ [HNext]_hvars => [NamedOk]_hvars
  BY OksNamed DEF HNext
<1>2. [NamedOk]_hvars => [\A m \in NewOk : m.req \in ProvReqs =>
        stale \/ nodeDb[m.addr] \in {ReqDev[m.req], None}]_hvars
  BY DEF NamedOk
<1> QED
  BY <1>1, <1>2, OutcomeInvariance, HistoryIsAlong, Invariance, PTL
  DEF HSpec, OkNamesDeviceUnlessStale

(* ... and has applied the last configuration message.  on_cfg_client,     *)
(* which compares neither address nor step, takes another answer for it    *)
(* only in the cases that "mixed" names.                                   *)
THEOREM OkIsConfigured == HSpec => OkConfiguredUnlessMixed
<1>1. IInv /\ OutcomeInv /\ [HNext]_hvars => [ConfiguredOk]_hvars
  BY OksConfigured DEF HNext
<1>2. [ConfiguredOk]_hvars =>
        [\A m \in NewOk : (m.req \in ProvReqs /\ nodeDb[m.addr] # None) =>
        \/ stale \/ mixed'
        \/ node[nodeDb[m.addr]].cfg = MODEL_PUB_SET
        \/ node[nodeDb[m.addr]].addr # m.addr]_hvars
  BY DEF ConfiguredOk
<1> QED
  BY <1>1, <1>2, OutcomeInvariance, HistoryIsAlong, Invariance, PTL
  DEF HSpec, OkConfiguredUnlessMixed

(* Beside any flow and its cleanup: a decommission answered ok has made    *)
(* the sensor of its address wipe itself; only a reset left over by an     *)
(* earlier decommission, or by a cleanup whose deletion failed, is taken   *)
(* for its own.                                                            *)
THEOREM DecomOkIsTrue == HSpec => DecomOkWipedNode
<1>1. IInv /\ OutcomeInv /\ [HNext]_hvars => [WipedOk]_hvars
  BY OksWiped DEF HNext
<1>2. [WipedOk]_hvars => [\A m \in NewOk : m.req \in DecomReqs =>
        \/ wiped \/ earlier
        \/ Head1.by = "cleanup" /\ "delete" \in Faults]_hvars
  BY DEF WipedOk
<1> QED
  BY <1>1, <1>2, OutcomeInvariance, HistoryIsAlong, Invariance, PTL
  DEF HSpec, DecomOkWipedNode
=============================================================================
