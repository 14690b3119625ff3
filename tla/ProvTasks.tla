------------------------------ MODULE ProvTasks -------------------------------
(***************************************************************************)
(* The three tasks that run the code of an adoption, statement group by    *)
(* statement group: the timer task (prov_timer_cb), the stack's BTC task   *)
(* (on_cfg_client, PROV_COMPLETE, LINK_CLOSE) and the MQTT client's task   *)
(* (handle_provision_req).  They share the flow's variables without a      *)
(* lock.  The ESP32-C3 has one core: a task runs until it blocks or one of *)
(* a higher priority wants to run.  Calls into the stack, the flash and    *)
(* the MQTT client may block.                                              *)
(*                                                                         *)
(* Provisioner and Gateway hold what the callbacks do, with retries and    *)
(* decommissions, one whole callback at a time; here a flow is cut down to *)
(* what the tasks can disturb.  Each request names a sensor of its own.    *)
(***************************************************************************)
EXTENDS Naturals, FiniteSets

CONSTANTS
  Reqs,            \* each is delivered once
  Addrs,
  None,
  HandlersLocked,  \* the client runs its handlers under the lock publishing takes
  Faults           \* subset of AllFaults

AllFaults ==
  {"send", "start",  \* calls that fail
   "preempt",        \* a callback may start while a lower task is not held up
   "window",         \* the request handler may be interrupted between the flag it raises
                     \* and the fields it blanks, or its flow end before its match fails
   "ttl"}            \* the ttl may expire while the BTC task is between its test of the
                     \* flag and the lowering of it

ASSUME TasksAssumption ==
  /\ None \notin Reqs \cup Addrs
  /\ HandlersLocked \in BOOLEAN
  /\ Faults \subseteq AllFaults

VARIABLES
  pc, loc,         \* where each task is, and its local variables
  flow,            \* s_prov_in_flight (up), s_prov_cb is set (cb), s_prov_target_addr,
                   \* s_cfg_step, s_prov_timer is armed
  inflight,        \* s_inflight: the request, None when not active
  match,           \* the sensor (by its request) the stack provisions
  nodeDb,          \* the sensor the stack's database holds for an address
  mapped,          \* the request whose berth is recorded for an address
  completes,       \* PROV_COMPLETE events to come
  sent,            \* configuration messages that will be answered
  toCome,          \* requests not delivered yet
  answers, said    \* history: how often each was answered, and with what

stackVars == <<match, nodeDb, completes, sent>>
replyVars == <<answers, said>>
vars == <<pc, loc, flow, inflight, stackVars, mapped, toCome, replyVars>>

IDLE == 0
APP_KEY_ADD == 1
DONE == 4

Tasks == {"timer", "btc", "mqtt"}
NoFlow == [up |-> FALSE, cb |-> FALSE, target |-> None, step |-> IDLE, timer |-> FALSE]
NoLocals == [addr |-> None, ok |-> FALSE, req |-> None]

(* Where a task may be held up, and where by the lock of the MQTT client.  *)
Publishing == {"pb-adv-done", "cfg-state", "complete", "answer", "started", "busy", "start-fail"}
Blocking == Publishing \cup {"clean", "settle", "unmatch", "call", "record", "match", "arm",
                             "orphan", "send"}
Running == {"expired", "acked", "refused", "closed", "advance", "finish-ok", "lower",
            "finish-err", "flip", "done", "release", "drop-cb",
            "take", "raise", "fill", "reset", "give-up"}

TypeOK ==
  /\ pc \in [Tasks -> Blocking \cup Running \cup {"idle"}]
  /\ loc \in [Tasks -> [addr : Addrs \cup {None}, ok : BOOLEAN, req : Reqs \cup {None}]]
  /\ flow \in [up : BOOLEAN, cb : BOOLEAN, target : Addrs \cup {None}, step : IDLE .. DONE,
               timer : BOOLEAN]
  /\ inflight \in Reqs \cup {None}
  /\ match \in Reqs \cup {None}
  /\ nodeDb \in [Addrs -> Reqs \cup {None}]
  /\ mapped \in [Addrs -> Reqs \cup {None}]
  /\ completes \subseteq Addrs /\ sent \subseteq Addrs
  /\ toCome \subseteq Reqs
  /\ answers \in [Reqs -> Nat]
  /\ said \subseteq [req : Reqs, status : {"ok", "err"}, addr : Addrs \cup {None}]

Init ==
  /\ pc = [t \in Tasks |-> "idle"]
  /\ loc = [t \in Tasks |-> NoLocals]
  /\ flow = NoFlow
  /\ inflight = None
  /\ match = None
  /\ nodeDb = [a \in Addrs |-> None]
  /\ mapped = [a \in Addrs |-> None]
  /\ completes = {} /\ sent = {}
  /\ toCome = Reqs
  /\ answers = [r \in Reqs |-> 0]
  /\ said = {}

-----------------------------------------------------------------------------
(* Scheduling.                                                             *)

Above(t) == CASE t = "timer" -> {}
              [] t = "btc"   -> {"timer"}
              [] t = "mqtt"  -> {"timer", "btc"}
HeldUp(t) == pc[t] \in Blocking \cup {"idle"}

(* No task of a higher priority wants to run.                              *)
Scheduled(t) == \A u \in Above(t) : HeldUp(u)

Unlocked(t) == (HandlersLocked /\ t # "mqtt" /\ pc[t] \in Publishing) => pc["mqtt"] = "idle"

(* The request handler between the flag it raises and the fields it blanks *)
(* (dp_mesh_provisioner.c:611-617), and the other tasks between the test   *)
(* of the flag and the lowering of it (399-403, 440-445).                  *)
Raised == {"fill", "reset"}
Tested == {"flip", "complete", "lower"}

(* Task t does what is at its place, and goes on to the next.              *)
At(t, place) ==
  /\ pc[t] = place /\ Scheduled(t) /\ Unlocked(t)
  /\ t = "mqtt" \/ "window" \in Faults \/ pc["mqtt"] \notin Raised
Goes(t, place) == pc' = [pc EXCEPT ![t] = place]
Returns(t) == Goes(t, "idle") /\ loc' = [loc EXCEPT ![t] = NoLocals]

(* Task t leaves its loop for a callback.                                  *)
Starts(t, place) ==
  /\ At(t, "idle")
  /\ "preempt" \in Faults \/ \A u \in Tasks : HeldUp(u)
  /\ Goes(t, place)

(* Steps that change nothing but pc and loc, and steps that change flow.   *)
OutsideFlow == UNCHANGED <<inflight, stackVars, mapped, toCome, replyVars>>
OnlyMoves == OutsideFlow /\ UNCHANGED flow
Passes(t, place, next) == At(t, place) /\ Goes(t, next) /\ OnlyMoves /\ UNCHANGED loc
Sets(t, place, next, f) ==
  At(t, place) /\ flow' = f /\ Goes(t, next) /\ OutsideFlow /\ UNCHANGED loc

Answered(r, status, a) ==
  /\ answers' = [q \in Reqs |-> IF q = r THEN answers[q] + 1 ELSE answers[q]]
  /\ said' = said \cup {[req |-> r, status |-> status, addr |-> a]}

-----------------------------------------------------------------------------
(* prov_finish_err and prov_finish_ok, in the timer's or the BTC task.     *)

(* The tests of s_prov_in_flight at the head of a function.                *)
Gate(t, place, next) ==
  /\ At(t, place)
  /\ IF flow.up THEN Goes(t, next) /\ UNCHANGED loc ELSE Returns(t)
  /\ OnlyMoves

(* The target is read before the flag is lowered.                          *)
FinishErr(t) ==
  /\ At(t, "finish-err")
  /\ IF flow.up
     THEN Goes(t, "flip") /\ loc' = [loc EXCEPT ![t] = [NoLocals EXCEPT !.addr = flow.target]]
     ELSE Returns(t)
  /\ OnlyMoves

Lowered == [flow EXCEPT !.up = FALSE, !.step = IDLE, !.timer = FALSE]
Flip(t) == Sets(t, "flip", IF loc[t].addr # None THEN "clean" ELSE "settle", Lowered)
Lower(t) == Sets(t, "lower", "unmatch", Lowered)

(* send_node_reset, delete_node_with_addr, dp_prov_forget_unicast.         *)
Clean(t) ==
  /\ At(t, "clean")
  /\ nodeDb' = [nodeDb EXCEPT ![loc[t].addr] = None]
  /\ mapped' = [mapped EXCEPT ![loc[t].addr] = None]
  /\ Goes(t, "settle")
  /\ UNCHANGED <<loc, flow, inflight, match, completes, sent, toCome, replyVars>>

Settle(t) == Sets(t, "settle", "unmatch", [flow EXCEPT !.target = None])

(* clear_dev_uuid_match.                                                   *)
Unmatch(t) ==
  /\ At(t, "unmatch")
  /\ match' = None
  /\ Goes(t, "call")
  /\ UNCHANGED <<loc, flow, inflight, nodeDb, completes, sent, mapped, toCome, replyVars>>

Call(t) == Passes(t, "call", IF flow.cb THEN "done" ELSE "drop-cb")

DropCb(t) ==
  /\ At(t, "drop-cb")
  /\ flow' = [flow EXCEPT !.cb = FALSE]
  /\ Returns(t)
  /\ OutsideFlow

-----------------------------------------------------------------------------
(* on_prov_done.                                                           *)

ProvDone(t) ==
  Passes(t, "done", IF inflight = None THEN "drop-cb" ELSE IF loc[t].ok THEN "record" ELSE "answer")

(* dp_prov_record_node writes the flash.                                   *)
Record(t) ==
  /\ At(t, "record")
  /\ mapped' = [mapped EXCEPT ![loc[t].addr] = inflight]
  /\ Goes(t, "answer")
  /\ UNCHANGED <<loc, flow, inflight, stackVars, toCome, replyVars>>

Answer(t) ==
  /\ At(t, "answer")
  /\ IF loc[t].ok THEN Answered(inflight, "ok", loc[t].addr) ELSE Answered(inflight, "err", None)
  /\ Goes(t, "release")
  /\ UNCHANGED <<loc, flow, inflight, stackVars, mapped, toCome>>

Release(t) ==
  /\ At(t, "release")
  /\ inflight' = None
  /\ Goes(t, "drop-cb")
  /\ UNCHANGED <<loc, flow, stackVars, mapped, toCome, replyVars>>

Finishing(t) ==
  \/ FinishErr(t) \/ Flip(t) \/ Clean(t) \/ Settle(t)
  \/ Lower(t) \/ Unmatch(t) \/ Call(t) \/ DropCb(t)
  \/ ProvDone(t) \/ Record(t) \/ Answer(t) \/ Release(t)

-----------------------------------------------------------------------------
(* The timer's task.                                                       *)

(* prov_timer_cb.                                                          *)
TimerFires ==
  /\ flow.timer
  /\ "ttl" \in Faults \/ pc["btc"] \notin Tested
  /\ Starts("timer", "expired")
  /\ flow' = [flow EXCEPT !.timer = FALSE]
  /\ UNCHANGED loc /\ OutsideFlow

Timer == TimerFires \/ Gate("timer", "expired", "finish-err")

-----------------------------------------------------------------------------
(* The stack's BTC task: an event starts a callback.                       *)

ProvComplete(a) ==
  /\ a \in completes
  /\ completes' = completes \ {a}
  /\ Starts("btc", IF flow.up THEN "pb-adv-done" ELSE "orphan")
  /\ loc' = [loc EXCEPT !["btc"].addr = a]
  /\ flow' = IF flow.up THEN [flow EXCEPT !.target = a] ELSE flow
  /\ UNCHANGED <<inflight, match, nodeDb, sent, mapped, toCome, replyVars>>

(* A node answered, refused, or did not answer any more (retries apart).   *)
Response(a, place) ==
  /\ a \in sent
  /\ sent' = sent \ {a}
  /\ Starts("btc", place)
  /\ UNCHANGED <<loc, flow, inflight, match, nodeDb, completes, mapped, toCome, replyVars>>

LinkCloses ==
  /\ match # None
  /\ Starts("btc", "closed")
  /\ UNCHANGED loc /\ OnlyMoves

Closed ==
  /\ At("btc", "closed")
  /\ IF flow.up /\ flow.step < APP_KEY_ADD
     THEN Goes("btc", "finish-err") /\ UNCHANGED loc
     ELSE Returns("btc")
  /\ OnlyMoves

(* A complete outside a flow: the node is deleted.                         *)
Orphan ==
  /\ At("btc", "orphan")
  /\ nodeDb' = [nodeDb EXCEPT ![loc["btc"].addr] = None]
  /\ Returns("btc")
  /\ UNCHANGED <<flow, inflight, match, completes, sent, mapped, toCome, replyVars>>

(* on_cfg_client passes the target on.                                     *)
Acked ==
  /\ At("btc", "acked")
  /\ IF flow.up
     THEN Goes("btc", "advance") /\ loc' = [loc EXCEPT !["btc"].addr = flow.target]
     ELSE Returns("btc")
  /\ OnlyMoves

(* cfg_step_advance.                                                       *)
Advance ==
  Sets("btc", "advance", IF flow.step + 1 = DONE THEN "finish-ok" ELSE "cfg-state",
       [flow EXCEPT !.step = @ + 1])

Sendable(a) == flow.step \in APP_KEY_ADD .. DONE - 1 /\ a \in Addrs /\ nodeDb[a] # None

(* cfg_do_current_step with the step as it is now.                         *)
Send ==
  /\ At("btc", "send")
  /\ \/ /\ Sendable(loc["btc"].addr)
        /\ sent' = sent \cup {loc["btc"].addr}
        /\ Returns("btc")
     \/ /\ ~Sendable(loc["btc"].addr) \/ "send" \in Faults
        /\ Goes("btc", "finish-err")
        /\ UNCHANGED <<loc, sent>>
  /\ UNCHANGED <<flow, inflight, match, nodeDb, completes, mapped, toCome, replyVars>>

(* The test at the head of prov_finish_ok.                                 *)
FinishOk ==
  /\ At("btc", "finish-ok")
  /\ IF flow.up
     THEN Goes("btc", "complete") /\ loc' = [loc EXCEPT !["btc"].ok = TRUE]
     ELSE Returns("btc")
  /\ OnlyMoves

Btc ==
  \/ \E a \in Addrs :
       ProvComplete(a) \/ Response(a, "acked") \/ Response(a, "refused")
  \/ LinkCloses \/ Closed \/ Orphan \/ Acked
  \/ Gate("btc", "refused", "finish-err")
  \/ Passes("btc", "pb-adv-done", "advance")   \* emit_state: a publication
  \/ Passes("btc", "cfg-state", "send")
  \/ Passes("btc", "complete", "lower")
  \/ Advance \/ Send \/ FinishOk

(* The stack provisions the sensor it matches.                             *)
Provisions(a) ==
  /\ match # None /\ nodeDb[a] = None /\ \A b \in Addrs : nodeDb[b] # match
  /\ nodeDb' = [nodeDb EXCEPT ![a] = match]
  /\ completes' = completes \cup {a}
  /\ UNCHANGED <<pc, loc, flow, inflight, match, sent, mapped, toCome, replyVars>>

-----------------------------------------------------------------------------
(* The MQTT client's task: handle_provision_req, dp_mesh_gateway_provision.*)

(* Mutant: the request is free once the flow has ended, not once answered. *)
FreeByFlow == ~flow.up

(* The busy test.                                                          *)
Free == inflight = None

Request(r) ==
  /\ r \in toCome
  /\ toCome' = toCome \ {r}
  /\ Starts("mqtt", IF Free THEN "take" ELSE "busy")
  /\ loc' = [loc EXCEPT !["mqtt"].req = r]
  /\ UNCHANGED <<flow, inflight, stackVars, mapped, replyVars>>

Busy ==
  /\ At("mqtt", "busy")
  /\ Answered(loc["mqtt"].req, "err", None)
  /\ Returns("mqtt")
  /\ UNCHANGED <<flow, inflight, stackVars, mapped, toCome>>

Take ==
  /\ At("mqtt", "take")
  /\ inflight' = loc["mqtt"].req
  /\ Goes("mqtt", IF flow.up THEN "start-fail" ELSE "raise")
  /\ UNCHANGED <<loc, flow, stackVars, mapped, toCome, replyVars>>

Raise == Sets("mqtt", "raise", "fill", [flow EXCEPT !.up = TRUE])
Fill == Sets("mqtt", "fill", "reset", [flow EXCEPT !.cb = TRUE])

(* Mutant: the target of the last flow is kept.                            *)
KeepsTarget == [flow EXCEPT !.step = IDLE]

Blank == [flow EXCEPT !.target = None, !.step = IDLE]
Reset == Sets("mqtt", "reset", "match", Blank)

(* Mutant: the flag stays up when the match fails.                         *)
LeavesFlag == flow

TakenBack == [flow EXCEPT !.up = FALSE]

(* set_dev_uuid_match; when it fails the flag is lowered again.            *)
Match ==
  /\ At("mqtt", "match")
  /\ \/ match' = loc["mqtt"].req /\ Goes("mqtt", "arm") /\ UNCHANGED flow
     \/ /\ "start" \in Faults
        /\ "window" \in Faults \/ flow.up
        /\ flow' = TakenBack
        /\ Goes("mqtt", "start-fail")
        /\ UNCHANGED match
  /\ UNCHANGED <<loc, inflight, nodeDb, completes, sent, mapped, toCome, replyVars>>

Arm == Sets("mqtt", "arm", "started", [flow EXCEPT !.timer = TRUE])

Started == At("mqtt", "started") /\ Returns("mqtt") /\ OnlyMoves

StartFail ==
  /\ At("mqtt", "start-fail")
  /\ Answered(loc["mqtt"].req, "err", None)
  /\ Goes("mqtt", "give-up")
  /\ UNCHANGED <<loc, flow, inflight, stackVars, mapped, toCome>>

GiveUp ==
  /\ At("mqtt", "give-up")
  /\ inflight' = None
  /\ Returns("mqtt")
  /\ UNCHANGED <<flow, stackVars, mapped, toCome, replyVars>>

Mqtt ==
  \/ \E r \in Reqs : Request(r)
  \/ Busy \/ Take \/ Raise \/ Fill \/ Reset \/ Match \/ Arm \/ Started \/ StartFail \/ GiveUp

Next ==
  \/ Timer \/ Btc \/ Mqtt
  \/ \E t \in {"timer", "btc"} : Finishing(t)
  \/ \E a \in Addrs : Provisions(a)

Spec == Init /\ [][Next]_vars

-----------------------------------------------------------------------------
(* Properties.                                                             *)

AllIdle == \A t \in Tasks : pc[t] = "idle"

(* No request is answered twice, and when the tasks are back in their      *)
(* loops every request delivered is answered or in flight: s_inflight is   *)
(* written by three tasks without a lock (dp_gateway_adopt.c:180-240).     *)
AnsweredOnce ==
  /\ \A r \in Reqs : answers[r] <= 1
  /\ AllIdle => \A r \in Reqs \ toCome : r = inflight \/ answers[r] = 1

(* The two flags of an adoption agree again when the tasks are back in     *)
(* their loops, and a flow in flight has a callback and a deadline: else   *)
(* the gateway would answer busy until it is restarted.                    *)
FlagsAgree ==
  AllIdle => /\ (inflight # None) <=> flow.up
             /\ flow.up => flow.cb /\ flow.timer

(* What was answered ok stays adopted: the node is in the stack's database *)
(* and the address carries the berth of that request, whatever the tasks   *)
(* of later flows clean up (nothing is decommissioned here).               *)
AdoptedStays ==
  \A s \in said : s.status = "ok" => nodeDb[s.addr] # None /\ mapped[s.addr] = s.req

(* dp_mesh.h:45: "cb fires once".                                          *)
CbFiresOnce == \A r \in Reqs : answers[r] <= 1

=============================================================================
