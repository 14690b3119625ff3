--------------------------- MODULE ProvTasksProofs ----------------------------
(***************************************************************************)
(* Proofs about ProvTasks, for any number of requests and addresses: that  *)
(* each request is answered once, that the flags agree, and that what was  *)
(* adopted stays.  The ttl may expire while the BTC task is in a callback, *)
(* before or after it has passed a test of the flag, with one exception    *)
(* the code leaves open and the run ProvTasksTtl shows to do harm; the two *)
(* races that are taken out, and the client's lock, are in Calm.           *)
(***************************************************************************)
EXTENDS ProvTasks, TLAPS

(* The client runs the MQTT handlers under its lock, and two races the     *)
(* code leaves open do not occur: another task does not work between the   *)
(* flag that is raised and the fields it guards, and the ttl does not      *)
(* expire between the BTC task's test of the flag and the lowering of it.  *)
(* Everywhere else the ttl may expire within a callback.                   *)
Calm == HandlersLocked /\ "window" \notin Faults /\ "ttl" \notin Faults

T == pc["timer"]
B == pc["btc"]
M == pc["mqtt"]

(* The end of a flow, from the lowering of the flag to the callback.       *)
Ending == {"clean", "settle", "unmatch", "call", "done", "record", "answer", "release"}

(* Where the BTC task works for a flow.                                    *)
Work == {"pb-adv-done", "advance", "cfg-state", "send", "finish-err", "finish-ok",
         "complete", "flip", "lower"}
Entry == {"acked", "refused", "closed"}

Places ==
  /\ T \in {"idle", "expired", "finish-err", "flip", "drop-cb"} \cup (Ending \ {"record"})
  /\ B \in {"idle", "orphan", "drop-cb"} \cup Entry \cup Work \cup Ending
  /\ M \in {"idle", "take", "busy", "raise", "fill", "reset", "match", "arm", "started",
            "start-fail", "give-up"}

(* Who is where at the same time.                                          *)
TasksInv ==
  /\ T \in {"expired", "finish-err", "flip"} => B \notin Tested
  /\ T \in Ending \cup {"flip", "drop-cb"} => B \notin Ending \cup {"drop-cb"}
  /\ M \in {"take", "raise"} =>
       T \notin Ending \cup {"drop-cb"} /\ B \notin Ending \cup {"drop-cb"}
  /\ M \in Raised => T = "idle" /\ B \in {"idle", "orphan", "pb-adv-done", "cfg-state", "send"}
  /\ T \in {"release", "drop-cb"} \/ B \in {"release", "drop-cb"} => M = "idle"

(* The flow's flag, its callback and the request in flight.                *)
FlagInv ==
  /\ flow.up => /\ inflight # None
                /\ T \notin Ending \cup {"drop-cb"} /\ B \notin Ending \cup {"drop-cb"}
  /\ T = "flip" \/ B \in {"flip", "complete", "lower"} => flow.up
  /\ B \in {"finish-ok", "complete", "lower"} /\ flow.up => M \in {"idle", "busy"}
  /\ T \in Ending \/ B \in Ending => inflight # None
  /\ M \in {"raise", "fill", "reset", "match", "arm", "started", "start-fail", "give-up"} =>
       inflight = loc["mqtt"].req /\ inflight # None
  /\ M = "take" => inflight = None
  /\ M \in {"raise", "start-fail", "give-up"} => ~flow.up /\ T \notin Ending /\ B \notin Ending
  /\ inflight # None => flow.up \/ T \in Ending \/ B \in Ending
                        \/ M \in {"raise", "start-fail", "give-up"}
  /\ flow.up /\ M # "fill" => flow.cb
  /\ B \in Ending \/ T \in Ending => flow.cb
  /\ flow.up /\ M \in {"idle", "busy", "started"} =>
       flow.timer \/ T \in {"expired", "finish-err", "flip"}

(* How far the configuration can be.                                       *)
StepInv ==
  /\ ~flow.up \/ M \notin {"idle", "busy"} =>
       flow.step <= 1 /\ (B \in {"pb-adv-done", "advance"} => flow.step = 0)
  /\ flow.up /\ M \in {"match", "arm", "started"} /\ flow.step = 1 => B = "cfg-state"
  /\ flow.target = None => \/ flow.step <= 1
                           \/ B \in {"finish-err", "flip"}
                           \/ B \in {"cfg-state", "send"} /\ loc["btc"].addr = None
  /\ flow.target = None /\ B \in {"pb-adv-done", "advance"} =>
       flow.step = 0 \/ (B = "advance" /\ loc["btc"].addr = None)
  /\ B = "pb-adv-done" => loc["btc"].addr # None
  /\ B = "advance" => flow.step < DONE /\ (loc["btc"].addr = None => flow.step <= 1)
  /\ flow.step = DONE => B \in {"finish-ok", "complete", "lower"}
  /\ B = "finish-ok" /\ flow.up => flow.step = DONE

(* The BTC task ends a flow well: from finish-ok on.                       *)
Well == B \in {"complete", "lower"} \/ (B \in Ending /\ loc["btc"].ok)

LocalInv ==
  /\ T = "idle" => loc["timer"] = NoLocals
  /\ B \in {"idle"} \cup Entry => loc["btc"] = NoLocals
  /\ ~loc["timer"].ok
  /\ B \in {"complete", "lower", "record"} => loc["btc"].ok
  /\ B \in {"clean", "settle"} \cup (Work \ {"complete", "lower"}) => ~loc["btc"].ok
  /\ Well \/ B = "finish-ok" => loc["btc"].addr # None
  /\ M \notin {"idle"} => loc["mqtt"].req \in Reqs

(* Each request is answered when it is not waiting any more.               *)
Waiting(r) ==
  \/ r \in toCome
  \/ M \in {"take", "busy", "start-fail"} /\ r = loc["mqtt"].req
  \/ r = inflight /\ T # "release" /\ B # "release" /\ M # "give-up"

AnswerInv ==
  /\ \A r \in Reqs : answers[r] = IF Waiting(r) THEN 0 ELSE 1
  /\ inflight \notin toCome
  /\ M # "idle" => loc["mqtt"].req \notin toCome
  /\ M = "busy" => inflight # loc["mqtt"].req

(* Addresses: one that is in use is in the database, and no complete is to *)
(* come for it.                                                            *)
Adopted(a) == \E s \in said : s.status = "ok" /\ s.addr = a
InUse(a) == nodeDb[a] # None /\ a \notin completes
Undoing(t) == pc[t] \in {"clean", "settle"}

AddrInv ==
  /\ \A a \in completes : nodeDb[a] # None
  /\ flow.target # None /\ ~Undoing("timer") /\ ~Undoing("btc") =>
       InUse(flow.target) /\ ~(B = "orphan" /\ loc["btc"].addr = flow.target)
  /\ flow.up /\ M \notin {"fill", "reset"} => ~Adopted(flow.target)
  /\ B \in Work => ~Adopted(flow.target)
  /\ \A t \in {"timer", "btc"} : pc[t] = "flip" => loc[t].addr = flow.target
  /\ \A t \in {"timer", "btc"} : pc[t] = "clean" =>
       /\ loc[t].addr # None /\ InUse(loc[t].addr) /\ ~Adopted(loc[t].addr)
       /\ ~(B = "orphan" /\ loc["btc"].addr = loc[t].addr)
  /\ B = "orphan" => loc["btc"].addr # None /\ InUse(loc["btc"].addr) /\ ~Adopted(loc["btc"].addr)
  /\ B \in Work => loc["btc"].addr \in {flow.target, None} \/ flow.target = None
  /\ Well /\ loc["btc"].addr # None =>
       InUse(loc["btc"].addr) /\ (B # "release" => ~Adopted(loc["btc"].addr))
  /\ B = "answer" /\ loc["btc"].ok => mapped[loc["btc"].addr] = inflight

AdoptedInv ==
  \A s \in said : s.status = "ok" =>
    s.addr \in Addrs /\ InUse(s.addr) /\ mapped[s.addr] = s.req

IInv ==
  /\ TypeOK /\ Places /\ TasksInv /\ FlagInv /\ StepInv /\ LocalInv
  /\ AnswerInv /\ AddrInv /\ AdoptedInv

-----------------------------------------------------------------------------
(* Moving from place to place.                                             *)

PlaceNames == Blocking \cup Running \cup {"idle"}
Locals == [addr : Addrs \cup {None}, ok : BOOLEAN, req : Reqs \cup {None}]
Flows == [up : BOOLEAN, cb : BOOLEAN, target : Addrs \cup {None}, step : 0 .. 4,
          timer : BOOLEAN]

LEMMA Typed ==
  ASSUME TypeOK
  PROVE  pc \in [Tasks -> PlaceNames] /\ loc \in [Tasks -> Locals] /\ flow \in Flows
BY DEF TypeOK, PlaceNames, Locals, Flows, IDLE, DONE

LEMMA TypedNext ==
  ASSUME pc' \in [Tasks -> PlaceNames], loc' \in [Tasks -> Locals], flow' \in Flows,
         inflight' \in Reqs \cup {None}, match' \in Reqs \cup {None},
         nodeDb' \in [Addrs -> Reqs \cup {None}], mapped' \in [Addrs -> Reqs \cup {None}],
         completes' \subseteq Addrs, sent' \subseteq Addrs, toCome' \subseteq Reqs,
         answers' \in [Reqs -> Nat],
         said' \subseteq [req : Reqs, status : {"ok", "err"}, addr : Addrs \cup {None}]
  PROVE  TypeOK'
BY DEF TypeOK, PlaceNames, Locals, Flows, IDLE, DONE

LEMMA Names ==
  /\ PlaceNames = {"idle", "orphan", "drop-cb", "expired"} \cup Entry \cup Work \cup Ending \cup
                  {"take", "busy", "raise", "fill", "reset", "match", "arm", "started",
                   "start-fail", "give-up"}
  /\ "timer" \in Tasks /\ "btc" \in Tasks /\ "mqtt" \in Tasks
BY DEF PlaceNames, Blocking, Running, Publishing, Entry, Work, Ending, Tasks

LEMMA Moves ==
  ASSUME TypeOK, NEW t \in Tasks, NEW place \in PlaceNames, Goes(t, place)
  PROVE  /\ pc' \in [Tasks -> PlaceNames] /\ pc'[t] = place
         /\ \A u \in Tasks : u # t => pc'[u] = pc[u]
BY Typed DEF Goes

LEMMA Leaves ==
  ASSUME TypeOK, NEW t \in Tasks, Returns(t)
  PROVE  /\ pc' \in [Tasks -> PlaceNames] /\ pc'[t] = "idle"
         /\ loc' \in [Tasks -> Locals] /\ loc'[t] = NoLocals
         /\ \A u \in Tasks : u # t => pc'[u] = pc[u] /\ loc'[u] = loc[u]
<1>1. NoLocals \in Locals
  BY DEF NoLocals, Locals
<1> QED
  BY <1>1, Typed, Moves, Names DEF Returns

(* Where the tasks of a higher priority are when a task runs.              *)
TimerHeld == {"idle", "clean", "settle", "unmatch", "call", "answer"}
BtcHeld == {"idle", "orphan", "pb-adv-done", "cfg-state", "send", "complete",
            "clean", "settle", "unmatch", "call", "record", "answer"}

LEMMA BtcRuns ==
  ASSUME Places, NEW place, At("btc", place)
  PROVE  B = place /\ T \in TimerHeld
BY DEF At, Scheduled, Above, HeldUp, Blocking, Publishing, Places, Ending, TimerHeld, T, B

LEMMA MqttRuns ==
  ASSUME Places, NEW place, At("mqtt", place)
  PROVE  M = place /\ T \in TimerHeld /\ B \in BtcHeld
BY DEF At, Scheduled, Above, HeldUp, Blocking, Publishing, Places, Ending, Work, Entry,
       TimerHeld, BtcHeld, T, B, M

(* A publication waits for the request handler.                            *)
LEMMA MayPublish ==
  ASSUME Calm, NEW t \in {"timer", "btc"}, NEW place \in Publishing, At(t, place)
  PROVE  M = "idle"
BY DEF Calm, At, Unlocked, M

(* The flow as prov_finish_ok and prov_finish_err leave it.                *)
LEMMA LoweredFlow ==
  ASSUME TypeOK
  PROVE  /\ Lowered \in Flows /\ ~Lowered.up /\ Lowered.step = 0 /\ ~Lowered.timer
         /\ Lowered.cb = flow.cb /\ Lowered.target = flow.target
<1> DEFINE f == [flow EXCEPT !.up = FALSE]
           g == [f EXCEPT !.step = 0]
<1>1. flow \in Flows
  BY Typed
<1>2. f \in Flows /\ ~f.up /\ f.cb = flow.cb /\ f.target = flow.target
  BY <1>1 DEF Flows
<1> HIDE DEF f
<1>3. g \in Flows /\ ~g.up /\ g.step = 0 /\ g.cb = flow.cb /\ g.target = flow.target
  BY <1>2 DEF Flows
<1> HIDE DEF g
<1>4. Lowered = [g EXCEPT !.timer = FALSE]
  BY DEF Lowered, f, g, IDLE
<1> QED
  BY <1>3, <1>4 DEF Flows

(* The local variables of prov_finish_err.                                 *)
LEMMA Targeted ==
  ASSUME TypeOK, NEW t \in Tasks,
         loc' = [loc EXCEPT ![t] = [NoLocals EXCEPT !.addr = flow.target]]
  PROVE  /\ loc' \in [Tasks -> Locals]
         /\ loc'[t].addr = flow.target /\ ~loc'[t].ok
         /\ \A u \in Tasks : u # t => loc'[u] = loc[u]
<1> DEFINE new == [NoLocals EXCEPT !.addr = flow.target]
<1>1. NoLocals \in Locals /\ flow.target \in Addrs \cup {None}
  BY Typed DEF NoLocals, Locals, Flows
<1>2. ~NoLocals.ok
  BY DEF NoLocals
<1>3. new \in Locals /\ new.addr = flow.target /\ new.ok = NoLocals.ok
  BY <1>1 DEF Locals
<1> HIDE DEF new
<1>5. loc' = [loc EXCEPT ![t] = new]
  BY DEF new
<1> QED
  BY <1>2, <1>3, <1>5, Typed

(* The result of prov_finish_ok.                                           *)
LEMMA Marked ==
  ASSUME TypeOK, loc' = [loc EXCEPT !["btc"].ok = TRUE]
  PROVE  /\ loc' \in [Tasks -> Locals] /\ loc'["btc"].ok
         /\ loc'["btc"].addr = loc["btc"].addr
         /\ loc'["timer"] = loc["timer"] /\ loc'["mqtt"] = loc["mqtt"]
<1> DEFINE new == [loc["btc"] EXCEPT !.ok = TRUE]
<1>1. loc["btc"] \in Locals
  BY Typed, Names
<1>2. TRUE \in BOOLEAN
  BY Zenon
<1>3. new \in Locals /\ new.addr = loc["btc"].addr
  BY <1>1, <1>2 DEF Locals
<1>4. new.ok
  BY <1>1, Zenon DEF Locals
<1>5. loc' = [loc EXCEPT !["btc"] = new]
  OBVIOUS
<1> HIDE DEF new
<1> QED
  BY <1>3, <1>4, <1>5, Typed, Names DEF Tasks

LEMMA StepRange ==
  ASSUME TypeOK
  PROVE  flow.step \in 0 .. 4
BY Typed DEF Flows

LEMMA BlankFlow ==
  ASSUME TypeOK, flow' = Blank
  PROVE  /\ flow' \in Flows /\ flow'.target = None /\ flow'.step = 0
         /\ flow'.up = flow.up /\ flow'.cb = flow.cb /\ flow'.timer = flow.timer
<1> DEFINE f == [flow EXCEPT !.target = None]
<1>1. flow \in Flows
  BY Typed
<1>2. f \in Flows /\ f.target = None /\ f.up = flow.up /\ f.cb = flow.cb /\ f.timer = flow.timer
  BY <1>1 DEF Flows
<1>3. flow' = [f EXCEPT !.step = 0]
  BY DEF Blank, IDLE
<1> HIDE DEF f
<1> QED
  BY <1>2, <1>3 DEF Flows

-----------------------------------------------------------------------------
(* Every step of the timer's task preserves the invariant.                 *)

(* A callback that finds no flow, and a link that closes late, return.     *)
LEMMA ReturnsKeeps ==
  ASSUME Calm, IInv, NEW t \in {"timer", "btc"}, Returns(t), OnlyMoves,
         ~flow.up \/ pc[t] = "closed",
         pc[t] \in Entry \cup {"expired", "finish-err", "finish-ok"}
  PROVE  IInv'
<1>1. /\ \/ t = "timer" /\ T \in {"expired", "finish-err"} /\ T' = "idle" /\ B' = B
         \/ /\ t = "btc" /\ B \in Entry \cup {"finish-err", "finish-ok"} /\ B' = "idle"
            /\ T' = T
      /\ M' = M /\ pc' \in [Tasks -> PlaceNames]
      /\ loc' \in [Tasks -> Locals] /\ loc'[t] = NoLocals
      /\ \A u \in Tasks : u # t => loc'[u] = loc[u]
      /\ ~flow.up \/ (t = "btc" /\ B = "closed")
  BY Leaves, Names DEF IInv, Places, Entry, Work, Ending, T, B, M, Tasks
<1>2. UNCHANGED <<flow, inflight, match, nodeDb, completes, sent, mapped, toCome, answers, said>>
  BY DEF OnlyMoves, OutsideFlow, stackVars, replyVars
<1>3. TypeOK'
  BY <1>1, <1>2, Typed, TypedNext DEF IInv, TypeOK
<1>4. Places'
  BY <1>1, <1>2, <1>3, Names DEF IInv, Places
<1>5. TasksInv'
  BY <1>1, <1>2, <1>3, Names DEF IInv, TasksInv, Entry, Work, Ending, Tested, Raised
<1>6. FlagInv'
  BY <1>1, <1>2, <1>3, Names DEF IInv, FlagInv, TasksInv, Entry, Work, Ending, Tested, Raised
<1>7. StepInv'
  BY <1>1, <1>2, <1>3, Names DEF IInv, StepInv, DONE
<1>8. LocalInv'
  BY <1>1, <1>2, <1>3, Names DEF IInv, LocalInv, Well, Entry, Work, Ending, NoLocals
<1>9. AnswerInv'
  BY <1>1, <1>2, <1>3, Names DEF IInv, AnswerInv, Waiting, Entry, Work, Ending
<1>10. AddrInv'
  BY <1>1, <1>2, <1>3, Names DEF IInv, AddrInv, Well, InUse, Adopted, Undoing, Entry, Work, Ending, T, B
<1>11. AdoptedInv'
  BY <1>1, <1>2, <1>3, Names DEF IInv, AdoptedInv, InUse
<1> QED
  BY <1>3, <1>4, <1>5, <1>6, <1>7, <1>8, <1>9, <1>10, <1>11 DEF IInv

LEMMA TimerFiresKeeps ==
  ASSUME Calm, IInv, TimerFires
  PROVE  IInv'
<1>1. /\ T = "idle" /\ T' = "expired" /\ B \notin Tested /\ B' = B /\ M' = M
      /\ M \notin {"fill", "reset"} /\ flow.timer
      /\ pc' \in [Tasks -> PlaceNames]
  BY Moves, Names DEF IInv, TimerFires, Starts, At, T, B, M, Calm, Raised, Tested
<1>2. /\ flow' = [flow EXCEPT !.timer = FALSE] /\ flow' \in Flows
      /\ flow'.up = flow.up /\ flow'.cb = flow.cb /\ flow'.target = flow.target
      /\ flow'.step = flow.step
      /\ UNCHANGED <<loc, inflight, match, nodeDb, completes, sent, mapped, toCome, answers, said>>
  BY Typed DEF IInv, TimerFires, OutsideFlow, stackVars, replyVars, Flows
<1>3. TypeOK'
  BY <1>1, <1>2, Typed, TypedNext DEF IInv, TypeOK
<1>4. Places'
  BY <1>1, <1>2, <1>3 DEF IInv, Places
<1>5. TasksInv'
  BY <1>1, <1>2, <1>3 DEF IInv, TasksInv, Work, Ending, Tested, Raised
<1>6. FlagInv'
  BY <1>1, <1>2, <1>3 DEF IInv, FlagInv, Work, Ending
<1>7. StepInv'
  BY <1>1, <1>2, <1>3 DEF IInv, StepInv, DONE
<1>8. LocalInv'
  BY <1>1, <1>2, <1>3 DEF IInv, LocalInv, Well
<1>9. AnswerInv'
  BY <1>1, <1>2, <1>3 DEF IInv, AnswerInv, Waiting, Entry, Work, Ending
<1>10. AddrInv'
  BY <1>1, <1>2, <1>3 DEF IInv, AddrInv, Well, InUse, Adopted, Undoing, T, B
<1>11. AdoptedInv'
  BY <1>1, <1>2, <1>3 DEF IInv, AdoptedInv, InUse
<1> QED
  BY <1>3, <1>4, <1>5, <1>6, <1>7, <1>8, <1>9, <1>10, <1>11 DEF IInv

LEMMA ExpiredKeeps ==
  ASSUME Calm, IInv, Gate("timer", "expired", "finish-err"), flow.up
  PROVE  IInv'
<1>1. /\ T = "expired" /\ T' = "finish-err" /\ B' = B /\ M' = M
      /\ pc' \in [Tasks -> PlaceNames]
  BY Moves, Names DEF IInv, Gate, At, Work, T, B, M
<1>2. UNCHANGED <<flow, loc, inflight, match, nodeDb, completes, sent, mapped, toCome, answers, said>>
  BY DEF Gate, OnlyMoves, OutsideFlow, stackVars, replyVars
<1>3. TypeOK'
  BY <1>1, <1>2, Typed, TypedNext DEF IInv, TypeOK
<1>4. Places'
  BY <1>1, <1>2, <1>3 DEF IInv, Places
<1>5. TasksInv'
  BY <1>1, <1>2, <1>3 DEF IInv, TasksInv, Work, Ending, Tested, Raised
<1>6. FlagInv'
  BY <1>1, <1>2, <1>3 DEF IInv, FlagInv, Work, Ending
<1>7. StepInv'
  BY <1>1, <1>2, <1>3 DEF IInv, StepInv, DONE
<1>8. LocalInv'
  BY <1>1, <1>2, <1>3 DEF IInv, LocalInv, Well
<1>9. AnswerInv'
  BY <1>1, <1>2, <1>3 DEF IInv, AnswerInv, Waiting, Entry, Work, Ending
<1>10. AddrInv'
  BY <1>1, <1>2, <1>3 DEF IInv, AddrInv, Well, InUse, Adopted, Undoing, T, B
<1>11. AdoptedInv'
  BY <1>1, <1>2, <1>3 DEF IInv, AdoptedInv, InUse
<1> QED
  BY <1>3, <1>4, <1>5, <1>6, <1>7, <1>8, <1>9, <1>10, <1>11 DEF IInv

-----------------------------------------------------------------------------
(* prov_finish_err and prov_finish_ok, in either task.                     *)

LEMMA FinishErrKeeps ==
  ASSUME Calm, IInv, NEW t \in {"timer", "btc"}, FinishErr(t), flow.up
  PROVE  IInv'
<1>1. /\ \/ t = "timer" /\ T = "finish-err" /\ T' = "flip" /\ B' = B
         \/ t = "btc" /\ B = "finish-err" /\ B' = "flip" /\ T' = T /\ T \in TimerHeld
      /\ M' = M /\ pc' \in [Tasks -> PlaceNames]
  BY BtcRuns, Moves, Names DEF IInv, FinishErr, At, Work, T, B, M
<1>2. /\ loc' = [loc EXCEPT ![t] = [NoLocals EXCEPT !.addr = flow.target]]
      /\ loc' \in [Tasks -> Locals] /\ loc'[t].addr = flow.target /\ ~loc'[t].ok
      /\ \A u \in Tasks : u # t => loc'[u] = loc[u]
      /\ UNCHANGED <<flow, inflight, match, nodeDb, completes, sent, mapped, toCome, answers, said>>
  BY Targeted, Names DEF IInv, FinishErr, OnlyMoves, OutsideFlow, stackVars, replyVars
<1>3. TypeOK'
  BY <1>1, <1>2, Typed, TypedNext DEF IInv, TypeOK
<1>4. Places'
  BY <1>1, <1>2, <1>3, Names DEF IInv, Places, Entry, Work, Ending
<1>5. TasksInv'
  BY <1>1, <1>2, <1>3, Names DEF IInv, TasksInv, FlagInv, Entry, Work, Ending, TimerHeld, Tested, Raised
<1>6. FlagInv'
  BY <1>1, <1>2, <1>3, Names DEF IInv, FlagInv, Work, Ending
<1>7. StepInv'
  BY <1>1, <1>2, <1>3, Names DEF IInv, StepInv, DONE
<1>8. LocalInv'
  BY <1>1, <1>2, <1>3, Names DEF IInv, LocalInv, Well, Entry, Work, Ending, NoLocals
<1>9. AnswerInv'
  BY <1>1, <1>2, <1>3, Names DEF IInv, AnswerInv, Waiting
<1>10. AddrInv'
  BY <1>1, <1>2, <1>3, Names DEF IInv, AddrInv, FlagInv, Well, InUse, Adopted, Undoing, Work, Ending, T, B
<1>11. AdoptedInv'
  BY <1>1, <1>2, <1>3, Names DEF IInv, AdoptedInv, InUse
<1> QED
  BY <1>3, <1>4, <1>5, <1>6, <1>7, <1>8, <1>9, <1>10, <1>11 DEF IInv

LEMMA FlipKeeps ==
  ASSUME Calm, IInv, NEW t \in {"timer", "btc"}, Flip(t)
  PROVE  IInv'
<1>1. /\ \/ t = "timer" /\ T = "flip" /\ T' = (IF loc[t].addr # None THEN "clean" ELSE "settle") /\ B' = B
         \/ t = "btc" /\ B = "flip" /\ B' = (IF loc[t].addr # None THEN "clean" ELSE "settle") /\ T' = T /\ T \in TimerHeld
      /\ M' = M /\ pc' \in [Tasks -> PlaceNames]
  BY BtcRuns, Moves, Names DEF IInv, Flip, Sets, At, Ending, T, B, M
<1>2. /\ flow' = Lowered /\ flow' \in Flows
      /\ ~flow'.up /\ flow'.step = 0 /\ ~flow'.timer
      /\ flow'.cb = flow.cb /\ flow'.target = flow.target
      /\ UNCHANGED <<loc, inflight, match, nodeDb, completes, sent, mapped, toCome, answers, said>>
  BY LoweredFlow DEF IInv, Flip, Sets, OutsideFlow, stackVars, replyVars
<1>3. TypeOK'
  BY <1>1, <1>2, Typed, TypedNext DEF IInv, TypeOK
<1>4. Places'
  BY <1>1, <1>2, <1>3 DEF IInv, Places, Entry, Work, Ending
<1>5. TasksInv'
  BY <1>1, <1>2, <1>3 DEF IInv, TasksInv, FlagInv, Entry, Work, Ending, Tested, Raised
<1>6. FlagInv'
  BY <1>1, <1>2, <1>3 DEF IInv, FlagInv, TasksInv, Work, Ending, Tested, Raised
<1>7. StepInv'
  BY <1>1, <1>2, <1>3 DEF IInv, StepInv, DONE
<1>8. LocalInv'
  BY <1>1, <1>2, <1>3 DEF IInv, LocalInv, Well, Entry, Work, Ending, NoLocals
<1>9. AnswerInv'
  BY <1>1, <1>2, <1>3 DEF IInv, AnswerInv, Waiting, Entry, Work, Ending
<1>10. AddrInv'
  BY <1>1, <1>2, <1>3 DEF IInv, Places, AddrInv, AdoptedInv, TasksInv, FlagInv, LocalInv, StepInv, Entry, Work, Ending, Well, InUse, Adopted, Undoing, NoLocals, T, B, M, TimerHeld, Tested, Raised
<1>11. AdoptedInv'
  BY <1>1, <1>2, <1>3 DEF IInv, AdoptedInv, InUse
<1> QED
  BY <1>3, <1>4, <1>5, <1>6, <1>7, <1>8, <1>9, <1>10, <1>11 DEF IInv

LEMMA CleanKeeps ==
  ASSUME Calm, IInv, NEW t \in {"timer", "btc"}, Clean(t)
  PROVE  IInv'
<1>1. /\ \/ t = "timer" /\ T = "clean" /\ T' = "settle" /\ B' = B
         \/ t = "btc" /\ B = "clean" /\ B' = "settle" /\ T' = T /\ T \in TimerHeld
      /\ M' = M /\ pc' \in [Tasks -> PlaceNames]
  BY BtcRuns, Moves, Names DEF IInv, Clean, At, Ending, T, B, M
<1>2. /\ nodeDb' = [nodeDb EXCEPT ![loc[t].addr] = None]
      /\ mapped' = [mapped EXCEPT ![loc[t].addr] = None]
      /\ UNCHANGED <<flow, loc, inflight, match, completes, sent, toCome, answers, said>>
  BY DEF Clean, replyVars
<1>3. ~Adopted(loc[t].addr)
  BY <1>1 DEF IInv, AddrInv, T, B
<1>4. TypeOK'
  BY <1>1, <1>2, <1>3, Typed, TypedNext DEF IInv, TypeOK
<1>5. Places'
  BY <1>1, <1>2, <1>3, <1>4 DEF IInv, Places, Entry, Work, Ending
<1>6. TasksInv'
  BY <1>1, <1>2, <1>3, <1>4 DEF IInv, TasksInv, Entry, Work, Ending, Tested, Raised
<1>7. FlagInv'
  BY <1>1, <1>2, <1>3, <1>4 DEF IInv, FlagInv, Work, Ending
<1>8. StepInv'
  BY <1>1, <1>2, <1>3, <1>4 DEF IInv, StepInv, DONE
<1>9. LocalInv'
  BY <1>1, <1>2, <1>3, <1>4 DEF IInv, LocalInv, Well, Entry, Work, Ending, NoLocals
<1>10. AnswerInv'
  BY <1>1, <1>2, <1>3, <1>4 DEF IInv, AnswerInv, Waiting, Entry, Work, Ending
<1>11. AddrInv'
  BY <1>1, <1>2, <1>3, <1>4 DEF IInv, Places, AddrInv, AdoptedInv, TasksInv, FlagInv, LocalInv, StepInv, Entry, Work, Ending, Well, InUse, Adopted, Undoing, NoLocals, T, B, M, TimerHeld, Tested, Raised
<1>12. AdoptedInv'
  BY <1>1, <1>2, <1>3, <1>4 DEF IInv, AdoptedInv, InUse, Adopted
<1> QED
  BY <1>4, <1>5, <1>6, <1>7, <1>8, <1>9, <1>10, <1>11, <1>12 DEF IInv

LEMMA SettleKeeps ==
  ASSUME Calm, IInv, NEW t \in {"timer", "btc"}, Settle(t)
  PROVE  IInv'
<1>1. /\ \/ t = "timer" /\ T = "settle" /\ T' = "unmatch" /\ B' = B
         \/ t = "btc" /\ B = "settle" /\ B' = "unmatch" /\ T' = T /\ T \in TimerHeld
      /\ M' = M /\ pc' \in [Tasks -> PlaceNames]
  BY BtcRuns, Moves, Names DEF IInv, Settle, Sets, At, Ending, T, B, M
<1>2. /\ flow' = [flow EXCEPT !.target = None] /\ flow' \in Flows /\ flow'.target = None
      /\ flow'.up = flow.up /\ flow'.cb = flow.cb /\ flow'.step = flow.step
      /\ flow'.timer = flow.timer
      /\ UNCHANGED <<loc, inflight, match, nodeDb, completes, sent, mapped, toCome, answers, said>>
  BY Typed DEF IInv, Settle, Sets, OutsideFlow, stackVars, replyVars, Flows
<1>3. TypeOK'
  BY <1>1, <1>2, Typed, TypedNext DEF IInv, TypeOK
<1>4. Places'
  BY <1>1, <1>2, <1>3 DEF IInv, Places, Entry, Work, Ending
<1>5. TasksInv'
  BY <1>1, <1>2, <1>3 DEF IInv, TasksInv, Entry, Work, Ending, Tested, Raised
<1>6. FlagInv'
  BY <1>1, <1>2, <1>3 DEF IInv, FlagInv, Work, Ending
<1>7. StepInv'
  BY <1>1, <1>2, <1>3 DEF IInv, StepInv, TasksInv, FlagInv, Work, Ending, DONE, Tested, Raised
<1>8. LocalInv'
  BY <1>1, <1>2, <1>3 DEF IInv, LocalInv, Well, Entry, Work, Ending, NoLocals
<1>9. AnswerInv'
  BY <1>1, <1>2, <1>3 DEF IInv, AnswerInv, Waiting, Entry, Work, Ending
<1>10. AddrInv'
  BY <1>1, <1>2, <1>3, TasksAssumption DEF IInv, Places, AddrInv, AdoptedInv, TasksInv, FlagInv, LocalInv, StepInv, Entry, Work, Ending, Well, InUse, Adopted, Undoing, NoLocals, T, B, M, TimerHeld, Tested, Raised
<1>11. AdoptedInv'
  BY <1>1, <1>2, <1>3 DEF IInv, AdoptedInv, InUse
<1> QED
  BY <1>3, <1>4, <1>5, <1>6, <1>7, <1>8, <1>9, <1>10, <1>11 DEF IInv

LEMMA UnmatchKeeps ==
  ASSUME Calm, IInv, NEW t \in {"timer", "btc"}, Unmatch(t)
  PROVE  IInv'
<1>1. /\ \/ t = "timer" /\ T = "unmatch" /\ T' = "call" /\ B' = B
         \/ t = "btc" /\ B = "unmatch" /\ B' = "call" /\ T' = T /\ T \in TimerHeld
      /\ M' = M /\ pc' \in [Tasks -> PlaceNames]
  BY BtcRuns, Moves, Names DEF IInv, Unmatch, At, Ending, T, B, M
<1>2. match' = None /\ UNCHANGED <<flow, loc, inflight, nodeDb, completes, sent, mapped, toCome, answers, said>>
  BY DEF Unmatch, replyVars
<1>3. TypeOK'
  BY <1>1, <1>2, Typed, TypedNext DEF IInv, TypeOK
<1>4. Places'
  BY <1>1, <1>2, <1>3 DEF IInv, Places, Entry, Work, Ending
<1>5. TasksInv'
  BY <1>1, <1>2, <1>3 DEF IInv, TasksInv, Entry, Work, Ending, Tested, Raised
<1>6. FlagInv'
  BY <1>1, <1>2, <1>3 DEF IInv, FlagInv, Work, Ending
<1>7. StepInv'
  BY <1>1, <1>2, <1>3 DEF IInv, StepInv, DONE
<1>8. LocalInv'
  BY <1>1, <1>2, <1>3 DEF IInv, LocalInv, Well, Entry, Work, Ending, NoLocals
<1>9. AnswerInv'
  BY <1>1, <1>2, <1>3 DEF IInv, AnswerInv, Waiting, Entry, Work, Ending
<1>10. AddrInv'
  BY <1>1, <1>2, <1>3 DEF IInv, AddrInv, Well, InUse, Adopted, Undoing, Work, Ending, T, B
<1>11. AdoptedInv'
  BY <1>1, <1>2, <1>3 DEF IInv, AdoptedInv, InUse
<1> QED
  BY <1>3, <1>4, <1>5, <1>6, <1>7, <1>8, <1>9, <1>10, <1>11 DEF IInv

LEMMA CallKeeps ==
  ASSUME Calm, IInv, NEW t \in {"timer", "btc"}, Call(t)
  PROVE  IInv'
<1>1. /\ \/ t = "timer" /\ T = "call" /\ T' = "done" /\ B' = B
         \/ t = "btc" /\ B = "call" /\ B' = "done" /\ T' = T /\ T \in TimerHeld
      /\ M' = M /\ pc' \in [Tasks -> PlaceNames]
  BY BtcRuns, Moves, Names DEF IInv, FlagInv, Call, Passes, At, Ending, T, B, M
<1>2. UNCHANGED <<flow, loc, inflight, match, nodeDb, completes, sent, mapped, toCome, answers, said>>
  BY DEF Call, Passes, OnlyMoves, OutsideFlow, stackVars, replyVars
<1>3. TypeOK'
  BY <1>1, <1>2, Typed, TypedNext DEF IInv, TypeOK
<1>4. Places'
  BY <1>1, <1>2, <1>3 DEF IInv, Places, Entry, Work, Ending
<1>5. TasksInv'
  BY <1>1, <1>2, <1>3 DEF IInv, TasksInv, Entry, Work, Ending, Tested, Raised
<1>6. FlagInv'
  BY <1>1, <1>2, <1>3 DEF IInv, FlagInv, Work, Ending
<1>7. StepInv'
  BY <1>1, <1>2, <1>3 DEF IInv, StepInv, DONE
<1>8. LocalInv'
  BY <1>1, <1>2, <1>3 DEF IInv, LocalInv, Well, Entry, Work, Ending, NoLocals
<1>9. AnswerInv'
  BY <1>1, <1>2, <1>3 DEF IInv, AnswerInv, Waiting, Entry, Work, Ending
<1>10. AddrInv'
  BY <1>1, <1>2, <1>3 DEF IInv, AddrInv, Well, InUse, Adopted, Undoing, Work, Ending, T, B
<1>11. AdoptedInv'
  BY <1>1, <1>2, <1>3 DEF IInv, AdoptedInv, InUse
<1> QED
  BY <1>3, <1>4, <1>5, <1>6, <1>7, <1>8, <1>9, <1>10, <1>11 DEF IInv

LEMMA DropCbKeeps ==
  ASSUME Calm, IInv, NEW t \in {"timer", "btc"}, DropCb(t)
  PROVE  IInv'
<1>1. /\ \/ t = "timer" /\ T = "drop-cb" /\ T' = "idle" /\ B' = B
         \/ t = "btc" /\ B = "drop-cb" /\ B' = "idle" /\ T' = T /\ T \in TimerHeld
      /\ M' = M /\ pc' \in [Tasks -> PlaceNames]
      /\ loc' \in [Tasks -> Locals] /\ loc'[t] = NoLocals
      /\ \A u \in Tasks : u # t => loc'[u] = loc[u]
  BY BtcRuns, Leaves, Names DEF IInv, DropCb, At, T, B, M, Tasks
<1>2. /\ flow' = [flow EXCEPT !.cb = FALSE] /\ flow' \in Flows
      /\ flow'.up = flow.up /\ flow'.target = flow.target /\ flow'.step = flow.step
      /\ flow'.timer = flow.timer
      /\ UNCHANGED <<inflight, match, nodeDb, completes, sent, mapped, toCome, answers, said>>
  BY Typed DEF IInv, DropCb, OutsideFlow, stackVars, replyVars, Flows
<1>3. TypeOK'
  BY <1>1, <1>2, Typed, TypedNext DEF IInv, TypeOK
<1>4. Places'
  BY <1>1, <1>2, <1>3, Names DEF IInv, Places
<1>5. TasksInv'
  BY <1>1, <1>2, <1>3, Names DEF IInv, TasksInv, Tested, Raised
<1>6. FlagInv'
  BY <1>1, <1>2, <1>3, Names DEF IInv, FlagInv, TasksInv, Work, Ending, Tested, Raised
<1>7. StepInv'
  BY <1>1, <1>2, <1>3, Names DEF IInv, StepInv, DONE
<1>8. LocalInv'
  BY <1>1, <1>2, <1>3, Names DEF IInv, LocalInv, Well, Entry, Work, Ending, NoLocals
<1>9. AnswerInv'
  BY <1>1, <1>2, <1>3, Names DEF IInv, AnswerInv, Waiting
<1>10. AddrInv'
  BY <1>1, <1>2, <1>3, Names DEF IInv, AddrInv, Well, InUse, Adopted, Undoing, Work, Ending, T, B
<1>11. AdoptedInv'
  BY <1>1, <1>2, <1>3, Names DEF IInv, AdoptedInv, InUse
<1> QED
  BY <1>3, <1>4, <1>5, <1>6, <1>7, <1>8, <1>9, <1>10, <1>11 DEF IInv

LEMMA ProvDoneKeeps ==
  ASSUME Calm, IInv, NEW t \in {"timer", "btc"}, ProvDone(t)
  PROVE  IInv'
<1>1. /\ \/ t = "timer" /\ T = "done" /\ T' = (IF loc[t].ok THEN "record" ELSE "answer") /\ B' = B
         \/ t = "btc" /\ B = "done" /\ B' = (IF loc[t].ok THEN "record" ELSE "answer") /\ T' = T /\ T \in TimerHeld
      /\ M' = M /\ pc' \in [Tasks -> PlaceNames]
  BY BtcRuns, Moves, Names DEF IInv, FlagInv, ProvDone, Passes, At, Ending, T, B, M
<1>2. UNCHANGED <<flow, loc, inflight, match, nodeDb, completes, sent, mapped, toCome, answers, said>>
  BY DEF ProvDone, Passes, OnlyMoves, OutsideFlow, stackVars, replyVars
<1>3. TypeOK'
  BY <1>1, <1>2, Typed, TypedNext DEF IInv, TypeOK
<1>4. Places'
  BY <1>1, <1>2, <1>3 DEF IInv, Places, LocalInv, Ending, TimerHeld
<1>5. TasksInv'
  BY <1>1, <1>2, <1>3 DEF IInv, TasksInv, Entry, Work, Ending, Tested, Raised
<1>6. FlagInv'
  BY <1>1, <1>2, <1>3 DEF IInv, FlagInv, Work, Ending
<1>7. StepInv'
  BY <1>1, <1>2, <1>3 DEF IInv, StepInv, DONE
<1>8. LocalInv'
  BY <1>1, <1>2, <1>3 DEF IInv, LocalInv, Well, Entry, Work, Ending, NoLocals
<1>9. AnswerInv'
  BY <1>1, <1>2, <1>3 DEF IInv, AnswerInv, Waiting, Entry, Work, Ending
<1>10. AddrInv'
  BY <1>1, <1>2, <1>3 DEF IInv, AddrInv, Well, InUse, Adopted, Undoing, Work, Ending, T, B
<1>11. AdoptedInv'
  BY <1>1, <1>2, <1>3 DEF IInv, AdoptedInv, InUse
<1> QED
  BY <1>3, <1>4, <1>5, <1>6, <1>7, <1>8, <1>9, <1>10, <1>11 DEF IInv

LEMMA ReleaseKeeps ==
  ASSUME Calm, IInv, NEW t \in {"timer", "btc"}, Release(t)
  PROVE  IInv'
<1>1. /\ \/ t = "timer" /\ T = "release" /\ T' = "drop-cb" /\ B' = B
         \/ t = "btc" /\ B = "release" /\ B' = "drop-cb" /\ T' = T /\ T \in TimerHeld
      /\ M' = M /\ pc' \in [Tasks -> PlaceNames] /\ M = "idle"
  BY BtcRuns, Moves, Names DEF IInv, TasksInv, Release, At, T, B, M, Tested, Raised, Calm
<1>2. inflight' = None /\ UNCHANGED <<flow, loc, match, nodeDb, completes, sent, mapped, toCome, answers, said>>
  BY DEF Release, stackVars, replyVars
<1>3. TypeOK'
  BY <1>1, <1>2, Typed, TypedNext DEF IInv, TypeOK
<1>4. Places'
  BY <1>1, <1>2, <1>3, TasksAssumption DEF IInv, Places
<1>5. TasksInv'
  BY <1>1, <1>2, <1>3, TasksAssumption DEF IInv, TasksInv, Work, Ending, Tested, Raised
<1>6. FlagInv'
  BY <1>1, <1>2, <1>3, TasksAssumption DEF IInv, FlagInv, TasksInv, Work, Ending, Tested, Raised
<1>7. StepInv'
  BY <1>1, <1>2, <1>3, TasksAssumption DEF IInv, StepInv, DONE
<1>8. LocalInv'
  BY <1>1, <1>2, <1>3, TasksAssumption DEF IInv, LocalInv, Well, Entry, Work, Ending, NoLocals
<1>9. AnswerInv'
  BY <1>1, <1>2, <1>3, TasksAssumption DEF IInv, TypeOK, AnswerInv, Waiting
<1>10. AddrInv'
  BY <1>1, <1>2, <1>3, TasksAssumption DEF IInv, Places, AddrInv, AdoptedInv, TasksInv, FlagInv, LocalInv, StepInv, Entry, Work, Ending, Well, InUse, Adopted, Undoing, NoLocals, T, B, M, TimerHeld, Tested, Raised
<1>11. AdoptedInv'
  BY <1>1, <1>2, <1>3, TasksAssumption DEF IInv, AdoptedInv, InUse
<1> QED
  BY <1>3, <1>4, <1>5, <1>6, <1>7, <1>8, <1>9, <1>10, <1>11 DEF IInv

LEMMA LowerKeeps ==
  ASSUME Calm, IInv, Lower("btc")
  PROVE  IInv'
<1>1. /\ B = "lower" /\ B' = "unmatch" /\ T' = T /\ M' = M
      /\ pc' \in [Tasks -> PlaceNames] /\ T \in TimerHeld
  BY BtcRuns, Moves, Names DEF IInv, Lower, Sets, At, Ending, T, B, M
<1>2. /\ flow' = Lowered /\ flow' \in Flows
      /\ ~flow'.up /\ flow'.step = 0 /\ ~flow'.timer
      /\ flow'.cb = flow.cb /\ flow'.target = flow.target
      /\ UNCHANGED <<loc, inflight, match, nodeDb, completes, sent, mapped, toCome, answers, said>>
  BY LoweredFlow DEF IInv, Lower, Sets, OutsideFlow, stackVars, replyVars
<1>3. TypeOK'
  BY <1>1, <1>2, Typed, TypedNext DEF IInv, TypeOK
<1>4. Places'
  BY <1>1, <1>2, <1>3 DEF IInv, Places, Entry, Work, Ending
<1>5. TasksInv'
  BY <1>1, <1>2, <1>3 DEF IInv, TasksInv, FlagInv, Entry, Work, Ending, Tested, Raised
<1>6. FlagInv'
  BY <1>1, <1>2, <1>3 DEF IInv, FlagInv, TasksInv, Work, Ending, Tested, Raised
<1>7. StepInv'
  BY <1>1, <1>2, <1>3 DEF IInv, StepInv, DONE
<1>8. LocalInv'
  BY <1>1, <1>2, <1>3 DEF IInv, LocalInv, Well, Entry, Work, Ending, NoLocals
<1>9. AnswerInv'
  BY <1>1, <1>2, <1>3 DEF IInv, AnswerInv, Waiting, Entry, Work, Ending
<1>10. AddrInv'
  BY <1>1, <1>2, <1>3 DEF IInv, AddrInv, Well, InUse, Adopted, Undoing, Work, Ending, T, B
<1>11. AdoptedInv'
  BY <1>1, <1>2, <1>3 DEF IInv, AdoptedInv, InUse
<1> QED
  BY <1>3, <1>4, <1>5, <1>6, <1>7, <1>8, <1>9, <1>10, <1>11 DEF IInv

LEMMA RecordKeeps ==
  ASSUME Calm, IInv, Record("btc")
  PROVE  IInv'
<1>1. /\ B = "record" /\ B' = "answer" /\ T' = T /\ M' = M
      /\ pc' \in [Tasks -> PlaceNames] /\ T \in TimerHeld
  BY BtcRuns, Moves, Names DEF IInv, Record, At, Ending, T, B, M
<1>2. /\ mapped' = [mapped EXCEPT ![loc["btc"].addr] = inflight]
      /\ UNCHANGED <<flow, loc, inflight, match, nodeDb, completes, sent, toCome, answers, said>>
  BY DEF Record, stackVars, replyVars
<1>3. loc["btc"].addr \in Addrs /\ ~Adopted(loc["btc"].addr)
  BY <1>1, Typed, Names DEF IInv, LocalInv, AddrInv, Well, Ending, Locals
<1>4. mapped'[loc["btc"].addr] = inflight
  BY <1>2, <1>3 DEF IInv, TypeOK
<1>5. TypeOK'
  BY <1>1, <1>2, <1>3, <1>4, Typed, TypedNext DEF IInv, TypeOK
<1>6. Places'
  BY <1>1, <1>2, <1>3, <1>4, <1>5 DEF IInv, Places, Entry, Work, Ending
<1>7. TasksInv'
  BY <1>1, <1>2, <1>3, <1>4, <1>5 DEF IInv, TasksInv, Entry, Work, Ending, Tested, Raised
<1>8. FlagInv'
  BY <1>1, <1>2, <1>3, <1>4, <1>5 DEF IInv, FlagInv, Work, Ending
<1>9. StepInv'
  BY <1>1, <1>2, <1>3, <1>4, <1>5 DEF IInv, StepInv, DONE
<1>10. LocalInv'
  BY <1>1, <1>2, <1>3, <1>4, <1>5 DEF IInv, LocalInv, Well, Entry, Work, Ending, NoLocals
<1>11. AnswerInv'
  BY <1>1, <1>2, <1>3, <1>4, <1>5 DEF IInv, AnswerInv, Waiting, Entry, Work, Ending
<1>12. AddrInv'
  BY <1>1, <1>2, <1>3, <1>4, <1>5 DEF IInv, AddrInv, Well, InUse, Adopted, Undoing, Work, Ending, T, B
<1>13. AdoptedInv'
  BY <1>1, <1>2, <1>3, <1>4, <1>5 DEF IInv, AdoptedInv, InUse, Adopted
<1> QED
  BY <1>5, <1>6, <1>7, <1>8, <1>9, <1>10, <1>11, <1>12, <1>13 DEF IInv

(* What an answer adds.                                                    *)
LEMMA AnswerEffects ==
  ASSUME TypeOK, NEW r \in Reqs, NEW status \in {"ok", "err"}, NEW a \in Addrs \cup {None},
         Answered(r, status, a)
  PROVE  /\ answers' \in [Reqs -> Nat]
         /\ answers'[r] = answers[r] + 1
         /\ \A u \in Reqs : u # r => answers'[u] = answers[u]
         /\ said' = said \cup {[req |-> r, status |-> status, addr |-> a]}
         /\ said' \subseteq [req : Reqs, status : {"ok", "err"}, addr : Addrs \cup {None}]
         /\ status = "err" => \A b : Adopted(b)' <=> Adopted(b)
         /\ status = "ok" => \A b : Adopted(b)' <=> (Adopted(b) \/ b = a)
<1>1. /\ answers \in [Reqs -> Nat]
      /\ answers' = [u \in Reqs |-> IF u = r THEN answers[u] + 1 ELSE answers[u]]
  BY DEF TypeOK, Answered
<1>2. /\ answers' \in [Reqs -> Nat] /\ answers'[r] = answers[r] + 1
      /\ \A u \in Reqs : u # r => answers'[u] = answers[u]
  BY <1>1
<1>3. said' = said \cup {[req |-> r, status |-> status, addr |-> a]}
  BY DEF Answered
<1>4. said' \subseteq [req : Reqs, status : {"ok", "err"}, addr : Addrs \cup {None}]
  BY <1>3 DEF TypeOK
<1>5. PICK new : new = [req |-> r, status |-> status, addr |-> a]
  OBVIOUS
<1>6. said' = said \cup {new} /\ new.status = status /\ new.addr = a
  BY <1>3, <1>5
<1>7. \A b : Adopted(b)' <=> (Adopted(b) \/ (status = "ok" /\ b = a))
  BY ONLY <1>6 DEF Adopted
<1>8. "ok" # "err"
  OBVIOUS
<1> QED
  BY <1>2, <1>3, <1>4, <1>7, <1>8

LEMMA AnswersBadly ==
  ASSUME Calm, IInv, NEW t \in {"timer", "btc"}, Answer(t), ~loc[t].ok
  PROVE  IInv'
<1>1. /\ \/ t = "timer" /\ T = "answer" /\ T' = "release" /\ B' = B
         \/ t = "btc" /\ B = "answer" /\ B' = "release" /\ T' = T /\ T \in TimerHeld
      /\ M' = M /\ pc' \in [Tasks -> PlaceNames] /\ M = "idle"
  BY BtcRuns, Moves, Names, MayPublish DEF IInv, Answer, Publishing, At, Ending, T, B, M
<1>2. UNCHANGED <<flow, loc, inflight, match, nodeDb, completes, sent, mapped, toCome>>
  BY DEF Answer, stackVars
<1>3. inflight \in Reqs /\ None \in Addrs \cup {None}
  BY <1>1, Typed, Names DEF IInv, TypeOK, FlagInv, Ending
<1>4. Answered(inflight, "err", None)
  BY <1>2 DEF Answer
<1>5. /\ answers' \in [Reqs -> Nat] /\ answers'[inflight] = answers[inflight] + 1
      /\ \A u \in Reqs : u # inflight => answers'[u] = answers[u]
      /\ said' = said \cup {[req |-> inflight, status |-> "err", addr |-> None]}
      /\ said' \subseteq [req : Reqs, status : {"ok", "err"}, addr : Addrs \cup {None}]
      /\ \A b : Adopted(b)' <=> Adopted(b)
  BY <1>3, <1>4, AnswerEffects DEF IInv
<1>6. TypeOK'
  BY <1>1, <1>2, <1>3, <1>4, <1>5, Typed, TypedNext DEF IInv, TypeOK
<1>7. Places'
  BY <1>1, <1>2, <1>3, <1>4, <1>5, <1>6 DEF IInv, Places, Entry, Work, Ending
<1>8. TasksInv'
  BY <1>1, <1>2, <1>3, <1>4, <1>5, <1>6 DEF IInv, TasksInv, Work, Ending, Tested, Raised
<1>9. FlagInv'
  BY <1>1, <1>2, <1>3, <1>4, <1>5, <1>6 DEF IInv, FlagInv, Work, Ending
<1>10. StepInv'
  BY <1>1, <1>2, <1>3, <1>4, <1>5, <1>6 DEF IInv, StepInv, DONE
<1>11. LocalInv'
  BY <1>1, <1>2, <1>3, <1>4, <1>5, <1>6 DEF IInv, LocalInv, Well, Entry, Work, Ending, NoLocals
<1>12. AnswerInv'
  BY <1>1, <1>2, <1>3, <1>4, <1>5, <1>6 DEF IInv, TypeOK, AnswerInv, Waiting, TasksInv, Ending, Tested, Raised
<1>13. AddrInv'
  BY <1>1, <1>2, <1>3, <1>4, <1>5, <1>6 DEF IInv, AddrInv, Well, InUse, Undoing, Work, Ending, T, B
<1>14. AdoptedInv'
  BY <1>1, <1>2, <1>3, <1>4, <1>5, <1>6 DEF IInv, AdoptedInv, InUse
<1> QED
  BY <1>6, <1>7, <1>8, <1>9, <1>10, <1>11, <1>12, <1>13, <1>14 DEF IInv

LEMMA AnswersWell ==
  ASSUME Calm, IInv, NEW t \in {"timer", "btc"}, Answer(t), loc[t].ok
  PROVE  IInv'
<1>1. /\ \/ t = "timer" /\ T = "answer" /\ T' = "release" /\ B' = B
         \/ t = "btc" /\ B = "answer" /\ B' = "release" /\ T' = T /\ T \in TimerHeld
      /\ M' = M /\ pc' \in [Tasks -> PlaceNames] /\ M = "idle"
  BY BtcRuns, Moves, Names, MayPublish DEF IInv, Answer, Publishing, At, Ending, T, B, M
<1>2. UNCHANGED <<flow, loc, inflight, match, nodeDb, completes, sent, mapped, toCome>>
  BY DEF Answer, stackVars
<1>3. inflight \in Reqs /\ loc[t].addr \in Addrs
  BY <1>1, Typed, Names DEF IInv, TypeOK, FlagInv, Ending, LocalInv, Well, Locals
<1>4. Answered(inflight, "ok", loc[t].addr)
  BY <1>2 DEF Answer
<1>5. /\ answers' \in [Reqs -> Nat] /\ answers'[inflight] = answers[inflight] + 1
      /\ \A u \in Reqs : u # inflight => answers'[u] = answers[u]
      /\ said' = said \cup {[req |-> inflight, status |-> "ok", addr |-> loc[t].addr]}
      /\ said' \subseteq [req : Reqs, status : {"ok", "err"}, addr : Addrs \cup {None}]
      /\ \A b : Adopted(b)' <=> (Adopted(b) \/ b = loc[t].addr)
  BY <1>3, <1>4, AnswerEffects DEF IInv
<1>6. TypeOK'
  BY <1>1, <1>2, <1>3, <1>4, <1>5, Typed, TypedNext DEF IInv, TypeOK
<1>7. Places'
  BY <1>1, <1>2, <1>3, <1>4, <1>5, <1>6 DEF IInv, Places, Entry, Work, Ending
<1>8. TasksInv'
  BY <1>1, <1>2, <1>3, <1>4, <1>5, <1>6 DEF IInv, TasksInv, Work, Ending, Tested, Raised
<1>9. FlagInv'
  BY <1>1, <1>2, <1>3, <1>4, <1>5, <1>6 DEF IInv, FlagInv, Work, Ending
<1>10. StepInv'
  BY <1>1, <1>2, <1>3, <1>4, <1>5, <1>6 DEF IInv, StepInv, DONE
<1>11. LocalInv'
  BY <1>1, <1>2, <1>3, <1>4, <1>5, <1>6 DEF IInv, LocalInv, Well, Entry, Work, Ending, NoLocals
<1>12. AnswerInv'
  BY <1>1, <1>2, <1>3, <1>4, <1>5, <1>6 DEF IInv, TypeOK, AnswerInv, Waiting, TasksInv, Ending, Tested, Raised
<1>13. AddrInv'
  BY <1>1, <1>2, <1>3, <1>4, <1>5, <1>6 DEF IInv, Places, AddrInv, TasksInv, FlagInv, LocalInv, Entry, Work, Ending, Well, InUse, Undoing, NoLocals, TimerHeld, T, B, M, Tested, Raised
<1>14. AdoptedInv'
  BY <1>1, <1>2, <1>3, <1>4, <1>5, <1>6 DEF IInv, Places, AdoptedInv, AddrInv, LocalInv, InUse, Work, Ending, Well
<1> QED
  BY <1>6, <1>7, <1>8, <1>9, <1>10, <1>11, <1>12, <1>13, <1>14 DEF IInv

LEMMA FinishingKeeps ==
  ASSUME Calm, IInv, NEW t \in {"timer", "btc"}, Finishing(t)
  PROVE  IInv'
<1>1. CASE FinishErr(t)
  <2>1. CASE flow.up
    BY <1>1, <2>1, FinishErrKeeps
  <2>2. CASE ~flow.up
    BY <1>1, <2>2, ReturnsKeeps DEF FinishErr, At
  <2> QED
    BY <2>1, <2>2
<1>2. CASE Lower(t) \/ Record(t)
  <2>1. t = "btc"
    BY <1>2 DEF IInv, Places, Lower, Sets, Record, At, Ending, T
  <2> QED
    BY <1>2, <2>1, LowerKeeps, RecordKeeps
<1> QED
  BY <1>1, <1>2, FlipKeeps, CleanKeeps, SettleKeeps, UnmatchKeeps, CallKeeps, DropCbKeeps,
     ProvDoneKeeps, AnswersBadly, AnswersWell, ReleaseKeeps DEF Finishing

-----------------------------------------------------------------------------
(* The stack's BTC task.                                                   *)

LEMMA ProvCompleteWithin ==
  ASSUME Calm, IInv, NEW a \in Addrs, ProvComplete(a), flow.up
  PROVE  IInv'
<1>1. /\ B = "idle" /\ B' = "pb-adv-done" /\ T' = T /\ M' = M
      /\ pc' \in [Tasks -> PlaceNames] /\ T \in TimerHeld /\ M \notin {"fill", "reset"}
  BY BtcRuns, Moves, Names DEF IInv, ProvComplete, Starts, At, Work, T, B, M, Calm, Raised
<1>2. /\ loc' = [loc EXCEPT !["btc"].addr = a] /\ loc' \in [Tasks -> Locals]
      /\ loc'["btc"].addr = a /\ loc'["btc"].ok = loc["btc"].ok
      /\ loc'["timer"] = loc["timer"] /\ loc'["mqtt"] = loc["mqtt"]
  BY Typed, Names DEF IInv, ProvComplete, Locals
<1>3. /\ flow' \in Flows /\ flow'.target = a /\ flow'.up = flow.up /\ flow'.cb = flow.cb
      /\ flow'.step = flow.step /\ flow'.timer = flow.timer
  BY Typed DEF IInv, ProvComplete, Flows
<1>4. a \in completes /\ completes' = completes \ {a}
      /\ UNCHANGED <<inflight, match, nodeDb, sent, mapped, toCome, answers, said>>
  BY DEF ProvComplete, replyVars
<1>5. /\ nodeDb[a] # None /\ ~Adopted(a) /\ ~loc["btc"].ok /\ a # None
      /\ \A b \in completes' : b # a
  BY <1>1, <1>4, TasksAssumption DEF IInv, AddrInv, AdoptedInv, Adopted, InUse, LocalInv, NoLocals
<1>6. /\ InUse(a)' /\ ~InUse(a)
      /\ \A b : InUse(b) => InUse(b)'
      /\ \A b : Adopted(b)' <=> Adopted(b)
  BY <1>4, <1>5 DEF InUse, Adopted
<1>7. TypeOK'
  BY <1>1, <1>2, <1>3, <1>4, <1>5, <1>6, Typed, TypedNext DEF IInv, TypeOK
<1>8. Places'
  BY <1>1, <1>2, <1>3, <1>4, <1>5, <1>6, <1>7, StepRange DEF IInv, Places, Entry, Work, Ending
<1>9. TasksInv'
  BY <1>1, <1>2, <1>3, <1>4, <1>5, <1>6, <1>7, StepRange DEF IInv, Places, TasksInv, FlagInv, LocalInv, Entry, Work, Ending, TimerHeld, Tested, Raised
<1>10. FlagInv'
  BY <1>1, <1>2, <1>3, <1>4, <1>5, <1>6, <1>7, StepRange DEF IInv, FlagInv, Work, Ending
<1>11. StepInv'
  BY <1>1, <1>2, <1>3, <1>4, <1>5, <1>6, <1>7, StepRange DEF IInv, Places, StepInv, FlagInv, TasksInv, LocalInv, Entry, Work, Ending, DONE, Tested, Raised
<1>12. LocalInv'
  BY <1>1, <1>2, <1>3, <1>4, <1>5, <1>6, <1>7, StepRange DEF IInv, LocalInv, Well, Entry, Work, Ending, NoLocals
<1>13. AnswerInv'
  BY <1>1, <1>2, <1>3, <1>4, <1>5, <1>6, <1>7, StepRange DEF IInv, AnswerInv, Waiting, Entry, Work, Ending
<1>14. AddrInv'
  BY <1>1, <1>2, <1>3, <1>4, <1>5, <1>6, <1>7, StepRange DEF IInv, AddrInv, TasksInv, FlagInv, Entry, Work, Ending, Well, Undoing, TimerHeld, T, B, M, Tested, Raised
<1>15. AdoptedInv'
  BY <1>1, <1>2, <1>3, <1>4, <1>5, <1>6, <1>7, StepRange DEF IInv, AdoptedInv
<1> QED
  BY <1>7, <1>8, <1>9, <1>10, <1>11, <1>12, <1>13, <1>14, <1>15 DEF IInv

LEMMA ProvCompleteOutside ==
  ASSUME Calm, IInv, NEW a \in Addrs, ProvComplete(a), ~flow.up
  PROVE  IInv'
<1>1. /\ B = "idle" /\ B' = "orphan" /\ T' = T /\ M' = M
      /\ pc' \in [Tasks -> PlaceNames] /\ T \in TimerHeld /\ M \notin {"fill", "reset"}
  BY BtcRuns, Moves, Names DEF IInv, ProvComplete, Starts, At, Work, T, B, M, Calm, Raised
<1>2. /\ loc' = [loc EXCEPT !["btc"].addr = a] /\ loc' \in [Tasks -> Locals]
      /\ loc'["btc"].addr = a /\ loc'["btc"].ok = loc["btc"].ok
      /\ loc'["timer"] = loc["timer"] /\ loc'["mqtt"] = loc["mqtt"]
  BY Typed, Names DEF IInv, ProvComplete, Locals
<1>3. flow' = flow
  BY Typed DEF IInv, ProvComplete, Flows
<1>4. a \in completes /\ completes' = completes \ {a}
      /\ UNCHANGED <<inflight, match, nodeDb, sent, mapped, toCome, answers, said>>
  BY DEF ProvComplete, replyVars
<1>5. /\ nodeDb[a] # None /\ ~Adopted(a) /\ ~loc["btc"].ok /\ a # None
      /\ \A b \in completes' : b # a
  BY <1>1, <1>4, TasksAssumption DEF IInv, AddrInv, AdoptedInv, Adopted, InUse, LocalInv, NoLocals
<1>6. /\ InUse(a)' /\ ~InUse(a)
      /\ \A b : InUse(b) => InUse(b)'
      /\ \A b : Adopted(b)' <=> Adopted(b)
  BY <1>4, <1>5 DEF InUse, Adopted
<1>7. TypeOK'
  BY <1>1, <1>2, <1>3, <1>4, <1>5, <1>6, Typed, TypedNext DEF IInv, TypeOK
<1>8. Places'
  BY <1>1, <1>2, <1>3, <1>4, <1>5, <1>6, <1>7, StepRange DEF IInv, Places
<1>9. TasksInv'
  BY <1>1, <1>2, <1>3, <1>4, <1>5, <1>6, <1>7, StepRange DEF IInv, Places, TasksInv, FlagInv, LocalInv, Entry, Work, Ending, TimerHeld, Tested, Raised
<1>10. FlagInv'
  BY <1>1, <1>2, <1>3, <1>4, <1>5, <1>6, <1>7, StepRange DEF IInv, FlagInv, Work, Ending
<1>11. StepInv'
  BY <1>1, <1>2, <1>3, <1>4, <1>5, <1>6, <1>7, StepRange DEF IInv, StepInv, DONE
<1>12. LocalInv'
  BY <1>1, <1>2, <1>3, <1>4, <1>5, <1>6, <1>7, StepRange DEF IInv, LocalInv, Well, Entry, Work, Ending, NoLocals
<1>13. AnswerInv'
  BY <1>1, <1>2, <1>3, <1>4, <1>5, <1>6, <1>7, StepRange DEF IInv, AnswerInv, Waiting, Entry, Work, Ending
<1>14. AddrInv'
  BY <1>1, <1>2, <1>3, <1>4, <1>5, <1>6, <1>7, StepRange DEF IInv, AddrInv, Well, Undoing, Work, Ending, T, B
<1>15. AdoptedInv'
  BY <1>1, <1>2, <1>3, <1>4, <1>5, <1>6, <1>7, StepRange DEF IInv, AdoptedInv
<1> QED
  BY <1>7, <1>8, <1>9, <1>10, <1>11, <1>12, <1>13, <1>14, <1>15 DEF IInv

LEMMA ResponseKeeps ==
  ASSUME Calm, IInv, NEW a \in Addrs, NEW place \in {"acked", "refused"},
         Response(a, place)
  PROVE  IInv'
<1>1. /\ B = "idle" /\ B' = place /\ T' = T /\ M' = M
      /\ pc' \in [Tasks -> PlaceNames] /\ T \in TimerHeld /\ M \notin {"fill", "reset"}
  BY BtcRuns, Moves, Names DEF IInv, Response, Starts, At, Entry, T, B, M, Calm, Raised
<1>2. sent' = sent \ {a} /\ UNCHANGED <<flow, loc, inflight, match, nodeDb, completes, mapped, toCome, answers, said>>
  BY DEF Response, replyVars
<1>3. TypeOK'
  BY <1>1, <1>2, Typed, TypedNext DEF IInv, TypeOK
<1>4. Places'
  BY <1>1, <1>2, <1>3 DEF IInv, Places, Entry, Work, Ending
<1>5. TasksInv'
  BY <1>1, <1>2, <1>3 DEF IInv, Places, TasksInv, FlagInv, LocalInv, Entry, Work, Ending, TimerHeld, Tested, Raised
<1>6. FlagInv'
  BY <1>1, <1>2, <1>3 DEF IInv, FlagInv, Work, Ending
<1>7. StepInv'
  BY <1>1, <1>2, <1>3 DEF IInv, StepInv, DONE
<1>8. LocalInv'
  BY <1>1, <1>2, <1>3 DEF IInv, LocalInv, Well, Work, Ending
<1>9. AnswerInv'
  BY <1>1, <1>2, <1>3 DEF IInv, AnswerInv, Waiting, Entry, Work, Ending
<1>10. AddrInv'
  BY <1>1, <1>2, <1>3 DEF IInv, AddrInv, Well, InUse, Adopted, Undoing, Work, Ending, T, B
<1>11. AdoptedInv'
  BY <1>1, <1>2, <1>3 DEF IInv, AdoptedInv, InUse
<1> QED
  BY <1>3, <1>4, <1>5, <1>6, <1>7, <1>8, <1>9, <1>10, <1>11 DEF IInv

LEMMA LinkClosesKeeps ==
  ASSUME Calm, IInv, LinkCloses
  PROVE  IInv'
<1>1. /\ B = "idle" /\ B' = "closed" /\ T' = T /\ M' = M
      /\ pc' \in [Tasks -> PlaceNames] /\ T \in TimerHeld /\ M \notin {"fill", "reset"}
  BY BtcRuns, Moves, Names DEF IInv, LinkCloses, Starts, At, Entry, T, B, M, Calm, Raised
<1>2. UNCHANGED <<flow, loc, inflight, match, nodeDb, completes, sent, mapped, toCome, answers, said>>
  BY DEF LinkCloses, OnlyMoves, OutsideFlow, stackVars, replyVars
<1>3. TypeOK'
  BY <1>1, <1>2, Typed, TypedNext DEF IInv, TypeOK
<1>4. Places'
  BY <1>1, <1>2, <1>3 DEF IInv, Places, Entry, Work, Ending
<1>5. TasksInv'
  BY <1>1, <1>2, <1>3 DEF IInv, Places, TasksInv, FlagInv, LocalInv, Entry, Work, Ending, TimerHeld, Tested, Raised
<1>6. FlagInv'
  BY <1>1, <1>2, <1>3 DEF IInv, FlagInv, Work, Ending
<1>7. StepInv'
  BY <1>1, <1>2, <1>3 DEF IInv, StepInv, DONE
<1>8. LocalInv'
  BY <1>1, <1>2, <1>3 DEF IInv, LocalInv, Well, Work, Ending
<1>9. AnswerInv'
  BY <1>1, <1>2, <1>3 DEF IInv, AnswerInv, Waiting, Entry, Work, Ending
<1>10. AddrInv'
  BY <1>1, <1>2, <1>3 DEF IInv, AddrInv, Well, InUse, Adopted, Undoing, Work, Ending, T, B
<1>11. AdoptedInv'
  BY <1>1, <1>2, <1>3 DEF IInv, AdoptedInv, InUse
<1> QED
  BY <1>3, <1>4, <1>5, <1>6, <1>7, <1>8, <1>9, <1>10, <1>11 DEF IInv

LEMMA ClosedKeeps ==
  ASSUME Calm, IInv, Closed, flow.up, flow.step < APP_KEY_ADD
  PROVE  IInv'
<1>1. /\ B = "closed" /\ B' = "finish-err" /\ T' = T /\ M' = M
      /\ pc' \in [Tasks -> PlaceNames] /\ T \in TimerHeld /\ M \notin {"fill", "reset"}
  BY BtcRuns, Moves, Names DEF IInv, Closed, At, TasksInv, Entry, Work, T, B, M, Tested, Raised, Calm
<1>2. UNCHANGED <<flow, loc, inflight, match, nodeDb, completes, sent, mapped, toCome, answers, said>>
  BY DEF Closed, OnlyMoves, OutsideFlow, stackVars, replyVars
<1>3. TypeOK'
  BY <1>1, <1>2, Typed, TypedNext DEF IInv, TypeOK
<1>4. Places'
  BY <1>1, <1>2, <1>3 DEF IInv, Places, Entry, Work, Ending
<1>5. TasksInv'
  BY <1>1, <1>2, <1>3 DEF IInv, Places, TasksInv, FlagInv, LocalInv, Entry, Work, Ending, TimerHeld, Tested, Raised
<1>6. FlagInv'
  BY <1>1, <1>2, <1>3 DEF IInv, FlagInv, Work, Ending
<1>7. StepInv'
  BY <1>1, <1>2, <1>3 DEF IInv, StepInv, DONE
<1>8. LocalInv'
  BY <1>1, <1>2, <1>3 DEF IInv, LocalInv, Well, Entry, Work, Ending, NoLocals
<1>9. AnswerInv'
  BY <1>1, <1>2, <1>3 DEF IInv, AnswerInv, Waiting, Entry, Work, Ending
<1>10. AddrInv'
  BY <1>1, <1>2, <1>3 DEF IInv, Places, AddrInv, AdoptedInv, TasksInv, FlagInv, LocalInv, StepInv, Entry, Work, Ending, Well, InUse, Adopted, Undoing, NoLocals, T, B, M, Tested, Raised
<1>11. AdoptedInv'
  BY <1>1, <1>2, <1>3 DEF IInv, AdoptedInv, InUse
<1> QED
  BY <1>3, <1>4, <1>5, <1>6, <1>7, <1>8, <1>9, <1>10, <1>11 DEF IInv

LEMMA RefusedKeeps ==
  ASSUME Calm, IInv, Gate("btc", "refused", "finish-err"), flow.up
  PROVE  IInv'
<1>1. /\ B = "refused" /\ B' = "finish-err" /\ T' = T /\ M' = M
      /\ pc' \in [Tasks -> PlaceNames] /\ T \in TimerHeld /\ M \notin {"fill", "reset"}
  BY BtcRuns, Moves, Names DEF IInv, Gate, At, TasksInv, Entry, Work, T, B, M, Tested, Raised, Calm
<1>2. UNCHANGED <<flow, loc, inflight, match, nodeDb, completes, sent, mapped, toCome, answers, said>>
  BY DEF Gate, OnlyMoves, OutsideFlow, stackVars, replyVars
<1>3. TypeOK'
  BY <1>1, <1>2, Typed, TypedNext DEF IInv, TypeOK
<1>4. Places'
  BY <1>1, <1>2, <1>3 DEF IInv, Places, Entry, Work, Ending
<1>5. TasksInv'
  BY <1>1, <1>2, <1>3 DEF IInv, Places, TasksInv, FlagInv, LocalInv, Entry, Work, Ending, TimerHeld, Tested, Raised
<1>6. FlagInv'
  BY <1>1, <1>2, <1>3 DEF IInv, FlagInv, Work, Ending
<1>7. StepInv'
  BY <1>1, <1>2, <1>3 DEF IInv, StepInv, DONE
<1>8. LocalInv'
  BY <1>1, <1>2, <1>3 DEF IInv, LocalInv, Well, Entry, Work, Ending, NoLocals
<1>9. AnswerInv'
  BY <1>1, <1>2, <1>3 DEF IInv, AnswerInv, Waiting, Entry, Work, Ending
<1>10. AddrInv'
  BY <1>1, <1>2, <1>3 DEF IInv, Places, AddrInv, AdoptedInv, TasksInv, FlagInv, LocalInv, StepInv, Entry, Work, Ending, Well, InUse, Adopted, Undoing, NoLocals, T, B, M, Tested, Raised
<1>11. AdoptedInv'
  BY <1>1, <1>2, <1>3 DEF IInv, AdoptedInv, InUse
<1> QED
  BY <1>3, <1>4, <1>5, <1>6, <1>7, <1>8, <1>9, <1>10, <1>11 DEF IInv

LEMMA OrphanKeeps ==
  ASSUME Calm, IInv, Orphan
  PROVE  IInv'
<1>1. /\ B = "orphan" /\ B' = "idle" /\ T' = T /\ M' = M
      /\ pc' \in [Tasks -> PlaceNames] /\ T \in TimerHeld
      /\ loc' \in [Tasks -> Locals] /\ loc'["btc"] = NoLocals
      /\ loc'["timer"] = loc["timer"] /\ loc'["mqtt"] = loc["mqtt"]
  BY BtcRuns, Leaves, Names DEF IInv, Orphan, At, T, B, M, Tasks
<1>2. /\ nodeDb' = [nodeDb EXCEPT ![loc["btc"].addr] = None]
      /\ UNCHANGED <<flow, inflight, match, completes, sent, mapped, toCome, answers, said>>
  BY DEF Orphan, replyVars
<1>3. /\ ~Adopted(loc["btc"].addr) /\ loc["btc"].addr \notin completes
      /\ \A b \in Addrs : b # loc["btc"].addr => nodeDb'[b] = nodeDb[b]
  BY <1>1, <1>2 DEF IInv, TypeOK, AddrInv, InUse
<1>4. TypeOK'
  BY <1>1, <1>2, <1>3, Typed, TypedNext DEF IInv, TypeOK
<1>5. Places'
  BY <1>1, <1>2, <1>3, <1>4 DEF IInv, Places
<1>6. TasksInv'
  BY <1>1, <1>2, <1>3, <1>4 DEF IInv, TasksInv, Entry, Work, Ending, Tested, Raised
<1>7. FlagInv'
  BY <1>1, <1>2, <1>3, <1>4 DEF IInv, FlagInv, Work, Ending
<1>8. StepInv'
  BY <1>1, <1>2, <1>3, <1>4 DEF IInv, StepInv, DONE
<1>9. LocalInv'
  BY <1>1, <1>2, <1>3, <1>4 DEF IInv, LocalInv, Well, Work, Ending
<1>10. AnswerInv'
  BY <1>1, <1>2, <1>3, <1>4 DEF IInv, AnswerInv, Waiting, Entry, Work, Ending
<1>11. AddrInv'
  BY <1>1, <1>2, <1>3, <1>4 DEF IInv, AddrInv, Well, InUse, Adopted, Undoing, Work, Ending, T, B
<1>12. AdoptedInv'
  BY <1>1, <1>2, <1>3, <1>4 DEF IInv, AdoptedInv, InUse, Adopted
<1> QED
  BY <1>4, <1>5, <1>6, <1>7, <1>8, <1>9, <1>10, <1>11, <1>12 DEF IInv

LEMMA AckedKeeps ==
  ASSUME Calm, IInv, Acked, flow.up
  PROVE  IInv'
<1>1. /\ B = "acked" /\ B' = "advance" /\ T' = T /\ M' = M
      /\ pc' \in [Tasks -> PlaceNames] /\ T \in TimerHeld /\ M \notin {"fill", "reset"}
  BY BtcRuns, Moves, Names DEF IInv, Acked, At, TasksInv, Entry, Work, T, B, M, Tested, Raised, Calm
<1>2. /\ loc' = [loc EXCEPT !["btc"].addr = flow.target] /\ loc' \in [Tasks -> Locals]
      /\ loc'["btc"].addr = flow.target /\ loc'["btc"].ok = loc["btc"].ok
      /\ loc'["timer"] = loc["timer"] /\ loc'["mqtt"] = loc["mqtt"]
  BY Typed, Names DEF IInv, Acked, Locals, Flows
<1>3. UNCHANGED <<flow, inflight, match, nodeDb, completes, sent, mapped, toCome, answers, said>>
  BY DEF Acked, OnlyMoves, OutsideFlow, stackVars, replyVars
<1>4. TypeOK'
  BY <1>1, <1>2, <1>3, Typed, TypedNext DEF IInv, TypeOK
<1>5. Places'
  BY <1>1, <1>2, <1>3, <1>4, StepRange DEF IInv, Places, Entry, Work, Ending
<1>6. TasksInv'
  BY <1>1, <1>2, <1>3, <1>4, StepRange DEF IInv, Places, TasksInv, FlagInv, LocalInv, Entry, Work, Ending, TimerHeld, Tested, Raised
<1>7. FlagInv'
  BY <1>1, <1>2, <1>3, <1>4, StepRange DEF IInv, FlagInv, Work, Ending
<1>8. StepInv'
  BY <1>1, <1>2, <1>3, <1>4, StepRange DEF IInv, Places, StepInv, FlagInv, TasksInv, Entry, Work, Ending, DONE, Tested, Raised
<1>9. LocalInv'
  BY <1>1, <1>2, <1>3, <1>4, StepRange DEF IInv, LocalInv, Well, Entry, Work, Ending, NoLocals
<1>10. AnswerInv'
  BY <1>1, <1>2, <1>3, <1>4, StepRange DEF IInv, AnswerInv, Waiting, Entry, Work, Ending
<1>11. AddrInv'
  BY <1>1, <1>2, <1>3, <1>4, StepRange DEF IInv, AddrInv, FlagInv, Well, InUse, Adopted, Undoing, Work, Ending, T, B
<1>12. AdoptedInv'
  BY <1>1, <1>2, <1>3, <1>4, StepRange DEF IInv, AdoptedInv, InUse
<1> QED
  BY <1>4, <1>5, <1>6, <1>7, <1>8, <1>9, <1>10, <1>11, <1>12 DEF IInv

LEMMA FinishOkKeeps ==
  ASSUME Calm, IInv, FinishOk, flow.up
  PROVE  IInv'
<1>1. /\ B = "finish-ok" /\ B' = "complete" /\ T' = T /\ M' = M
      /\ pc' \in [Tasks -> PlaceNames] /\ T \in TimerHeld
  BY BtcRuns, Moves, Names DEF IInv, FinishOk, At, Work, T, B, M
<1>2. /\ loc' = [loc EXCEPT !["btc"].ok = TRUE] /\ loc' \in [Tasks -> Locals]
      /\ loc'["btc"].addr = loc["btc"].addr /\ loc'["btc"].ok
      /\ loc'["timer"] = loc["timer"] /\ loc'["mqtt"] = loc["mqtt"]
  BY Marked DEF IInv, FinishOk
<1>3. UNCHANGED <<flow, inflight, match, nodeDb, completes, sent, mapped, toCome, answers, said>>
  BY DEF FinishOk, OnlyMoves, OutsideFlow, stackVars, replyVars
<1>4. TypeOK'
  BY <1>1, <1>2, <1>3, Typed, TypedNext DEF IInv, TypeOK
<1>5. Places'
  BY <1>1, <1>2, <1>3, <1>4 DEF IInv, Places, Entry, Work, Ending
<1>6. TasksInv'
  BY <1>1, <1>2, <1>3, <1>4 DEF IInv, TasksInv, FlagInv, Entry, Work, Ending, TimerHeld, Tested, Raised
<1>7. FlagInv'
  BY <1>1, <1>2, <1>3, <1>4 DEF IInv, FlagInv, Work, Ending
<1>8. StepInv'
  BY <1>1, <1>2, <1>3, <1>4 DEF IInv, StepInv, DONE
<1>9. LocalInv'
  BY <1>1, <1>2, <1>3, <1>4 DEF IInv, LocalInv, Well, Entry, Work, Ending, NoLocals
<1>10. AnswerInv'
  BY <1>1, <1>2, <1>3, <1>4 DEF IInv, AnswerInv, Waiting, Entry, Work, Ending
<1>11. AddrInv'
  BY <1>1, <1>2, <1>3, <1>4 DEF IInv, AddrInv, StepInv, FlagInv, LocalInv, Well, InUse, Adopted, Undoing, Work, Ending, DONE, T, B
<1>12. AdoptedInv'
  BY <1>1, <1>2, <1>3, <1>4 DEF IInv, AdoptedInv, InUse
<1> QED
  BY <1>4, <1>5, <1>6, <1>7, <1>8, <1>9, <1>10, <1>11, <1>12 DEF IInv

LEMMA PbAdvDoneKeeps ==
  ASSUME Calm, IInv, Passes("btc", "pb-adv-done", "advance")
  PROVE  IInv'
<1>1. /\ B = "pb-adv-done" /\ B' = "advance" /\ T' = T /\ M' = M
      /\ pc' \in [Tasks -> PlaceNames] /\ T \in TimerHeld /\ M = "idle"
  BY BtcRuns, MayPublish, Moves, Names DEF IInv, Passes, Publishing, At, Work, T, B, M
<1>2. UNCHANGED <<flow, loc, inflight, match, nodeDb, completes, sent, mapped, toCome, answers, said>>
  BY DEF Passes, OnlyMoves, OutsideFlow, stackVars, replyVars
<1>3. TypeOK'
  BY <1>1, <1>2, Typed, TypedNext DEF IInv, TypeOK
<1>4. Places'
  BY <1>1, <1>2, <1>3, StepRange DEF IInv, Places, Entry, Work, Ending
<1>5. TasksInv'
  BY <1>1, <1>2, <1>3, StepRange DEF IInv, TasksInv, Work, Ending, Tested, Raised
<1>6. FlagInv'
  BY <1>1, <1>2, <1>3, StepRange DEF IInv, FlagInv, Work, Ending
<1>7. StepInv'
  BY <1>1, <1>2, <1>3, StepRange DEF IInv, StepInv, DONE
<1>8. LocalInv'
  BY <1>1, <1>2, <1>3, StepRange DEF IInv, LocalInv, Well, Entry, Work, Ending, NoLocals
<1>9. AnswerInv'
  BY <1>1, <1>2, <1>3, StepRange DEF IInv, AnswerInv, Waiting, Entry, Work, Ending
<1>10. AddrInv'
  BY <1>1, <1>2, <1>3, StepRange DEF IInv, AddrInv, Well, InUse, Adopted, Undoing, Work, Ending, T, B
<1>11. AdoptedInv'
  BY <1>1, <1>2, <1>3, StepRange DEF IInv, AdoptedInv, InUse
<1> QED
  BY <1>3, <1>4, <1>5, <1>6, <1>7, <1>8, <1>9, <1>10, <1>11 DEF IInv

LEMMA CfgStateKeeps ==
  ASSUME Calm, IInv, Passes("btc", "cfg-state", "send")
  PROVE  IInv'
<1>1. /\ B = "cfg-state" /\ B' = "send" /\ T' = T /\ M' = M
      /\ pc' \in [Tasks -> PlaceNames] /\ T \in TimerHeld /\ M = "idle"
  BY BtcRuns, MayPublish, Moves, Names DEF IInv, Passes, Publishing, At, Work, T, B, M
<1>2. UNCHANGED <<flow, loc, inflight, match, nodeDb, completes, sent, mapped, toCome, answers, said>>
  BY DEF Passes, OnlyMoves, OutsideFlow, stackVars, replyVars
<1>3. TypeOK'
  BY <1>1, <1>2, Typed, TypedNext DEF IInv, TypeOK
<1>4. Places'
  BY <1>1, <1>2, <1>3, StepRange DEF IInv, Places, Entry, Work, Ending
<1>5. TasksInv'
  BY <1>1, <1>2, <1>3, StepRange DEF IInv, TasksInv, Work, Ending, Tested, Raised
<1>6. FlagInv'
  BY <1>1, <1>2, <1>3, StepRange DEF IInv, FlagInv, Work, Ending
<1>7. StepInv'
  BY <1>1, <1>2, <1>3, StepRange DEF IInv, StepInv, DONE
<1>8. LocalInv'
  BY <1>1, <1>2, <1>3, StepRange DEF IInv, LocalInv, Well, Entry, Work, Ending, NoLocals
<1>9. AnswerInv'
  BY <1>1, <1>2, <1>3, StepRange DEF IInv, AnswerInv, Waiting, Entry, Work, Ending
<1>10. AddrInv'
  BY <1>1, <1>2, <1>3, StepRange DEF IInv, AddrInv, Well, InUse, Adopted, Undoing, Work, Ending, T, B
<1>11. AdoptedInv'
  BY <1>1, <1>2, <1>3, StepRange DEF IInv, AdoptedInv, InUse
<1> QED
  BY <1>3, <1>4, <1>5, <1>6, <1>7, <1>8, <1>9, <1>10, <1>11 DEF IInv

LEMMA CompleteKeeps ==
  ASSUME Calm, IInv, Passes("btc", "complete", "lower")
  PROVE  IInv'
<1>1. /\ B = "complete" /\ B' = "lower" /\ T' = T /\ M' = M
      /\ pc' \in [Tasks -> PlaceNames] /\ T \in TimerHeld /\ M = "idle"
  BY BtcRuns, MayPublish, Moves, Names DEF IInv, Passes, Publishing, At, Work, T, B, M
<1>2. UNCHANGED <<flow, loc, inflight, match, nodeDb, completes, sent, mapped, toCome, answers, said>>
  BY DEF Passes, OnlyMoves, OutsideFlow, stackVars, replyVars
<1>3. TypeOK'
  BY <1>1, <1>2, Typed, TypedNext DEF IInv, TypeOK
<1>4. Places'
  BY <1>1, <1>2, <1>3, StepRange DEF IInv, Places, Entry, Work, Ending
<1>5. TasksInv'
  BY <1>1, <1>2, <1>3, StepRange DEF IInv, TasksInv, Work, Ending, Tested, Raised
<1>6. FlagInv'
  BY <1>1, <1>2, <1>3, StepRange DEF IInv, FlagInv, Work, Ending
<1>7. StepInv'
  BY <1>1, <1>2, <1>3, StepRange DEF IInv, StepInv, DONE
<1>8. LocalInv'
  BY <1>1, <1>2, <1>3, StepRange DEF IInv, LocalInv, Well, Entry, Work, Ending, NoLocals
<1>9. AnswerInv'
  BY <1>1, <1>2, <1>3, StepRange DEF IInv, AnswerInv, Waiting, Entry, Work, Ending
<1>10. AddrInv'
  BY <1>1, <1>2, <1>3, StepRange DEF IInv, AddrInv, Well, InUse, Adopted, Undoing, Work, Ending, T, B
<1>11. AdoptedInv'
  BY <1>1, <1>2, <1>3, StepRange DEF IInv, AdoptedInv, InUse
<1> QED
  BY <1>3, <1>4, <1>5, <1>6, <1>7, <1>8, <1>9, <1>10, <1>11 DEF IInv

LEMMA AdvanceKeeps ==
  ASSUME Calm, IInv, Advance
  PROVE  IInv'
<1>1. /\ B = "advance" /\ B' = (IF flow.step = 3 THEN "finish-ok" ELSE "cfg-state") /\ T' = T /\ M' = M
      /\ pc' \in [Tasks -> PlaceNames] /\ T \in TimerHeld
  BY BtcRuns, Moves, Names, Typed DEF IInv, StepInv, Advance, Sets, At, Work, DONE, Flows, T, B, M
<1>2. /\ flow.step \in 0 .. 3 /\ flow' \in Flows /\ flow'.step = flow.step + 1
      /\ flow'.up = flow.up /\ flow'.cb = flow.cb /\ flow'.target = flow.target
      /\ flow'.timer = flow.timer
      /\ UNCHANGED <<loc, inflight, match, nodeDb, completes, sent, mapped, toCome, answers, said>>
  BY <1>1, Typed DEF IInv, StepInv, Advance, Sets, OutsideFlow, stackVars, replyVars, Flows, DONE
<1>3. TypeOK'
  BY <1>1, <1>2, Typed, TypedNext DEF IInv, TypeOK
<1>4. Places'
  BY <1>1, <1>2, <1>3 DEF IInv, Places, Entry, Work, Ending
<1>5. TasksInv'
  BY <1>1, <1>2, <1>3 DEF IInv, TasksInv, Entry, Work, Ending, Tested, Raised
<1>6. FlagInv'
  BY <1>1, <1>2, <1>3 DEF IInv, FlagInv, StepInv, Work, Ending
<1>7. StepInv'
  BY <1>1, <1>2, <1>3 DEF IInv, StepInv, DONE
<1>8. LocalInv'
  BY <1>1, <1>2, <1>3 DEF IInv, Places, LocalInv, StepInv, TasksInv, Entry, Work, Ending, Well, NoLocals, Tested, Raised
<1>9. AnswerInv'
  BY <1>1, <1>2, <1>3 DEF IInv, AnswerInv, Waiting, Entry, Work, Ending
<1>10. AddrInv'
  BY <1>1, <1>2, <1>3 DEF IInv, AddrInv, Well, InUse, Adopted, Undoing, Work, Ending, T, B
<1>11. AdoptedInv'
  BY <1>1, <1>2, <1>3 DEF IInv, AdoptedInv, InUse
<1> QED
  BY <1>3, <1>4, <1>5, <1>6, <1>7, <1>8, <1>9, <1>10, <1>11 DEF IInv

LEMMA SendWell ==
  ASSUME Calm, IInv, Send, Sendable(loc["btc"].addr), Returns("btc")
  PROVE  IInv'
<1>1. /\ B = "send" /\ B' = "idle" /\ T' = T /\ M' = M
      /\ pc' \in [Tasks -> PlaceNames] /\ T \in TimerHeld
      /\ loc' \in [Tasks -> Locals] /\ loc'["btc"] = NoLocals
      /\ loc'["timer"] = loc["timer"] /\ loc'["mqtt"] = loc["mqtt"]
  BY BtcRuns, Leaves, Names DEF IInv, Send, At, T, B, M, Tasks
<1>2. sent' \subseteq Addrs /\ loc["btc"].addr # None
      /\ UNCHANGED <<flow, inflight, match, nodeDb, completes, mapped, toCome, answers, said>>
  BY TasksAssumption DEF IInv, TypeOK, Send, Sendable, replyVars
<1>3. TypeOK'
  BY <1>1, <1>2, Typed, TypedNext DEF IInv, TypeOK
<1>4. Places'
  BY <1>1, <1>2, <1>3 DEF IInv, Places
<1>5. TasksInv'
  BY <1>1, <1>2, <1>3 DEF IInv, TasksInv, Entry, Work, Ending, Tested, Raised
<1>6. FlagInv'
  BY <1>1, <1>2, <1>3 DEF IInv, FlagInv, Work, Ending
<1>7. StepInv'
  BY <1>1, <1>2, <1>3 DEF IInv, StepInv, DONE
<1>8. LocalInv'
  BY <1>1, <1>2, <1>3 DEF IInv, LocalInv, Well, Work, Ending
<1>9. AnswerInv'
  BY <1>1, <1>2, <1>3 DEF IInv, AnswerInv, Waiting, Entry, Work, Ending
<1>10. AddrInv'
  BY <1>1, <1>2, <1>3 DEF IInv, AddrInv, Well, InUse, Adopted, Undoing, Work, Ending, T, B
<1>11. AdoptedInv'
  BY <1>1, <1>2, <1>3 DEF IInv, AdoptedInv, InUse
<1> QED
  BY <1>3, <1>4, <1>5, <1>6, <1>7, <1>8, <1>9, <1>10, <1>11 DEF IInv

LEMMA SendBadly ==
  ASSUME Calm, IInv, Send, Goes("btc", "finish-err"), UNCHANGED <<loc, sent>>
  PROVE  IInv'
<1>1. /\ B = "send" /\ B' = "finish-err" /\ T' = T /\ M' = M
      /\ pc' \in [Tasks -> PlaceNames] /\ T \in TimerHeld /\ M \notin Raised
  BY BtcRuns, Moves, Names DEF IInv, Calm, Send, At, Work, T, B, M
<1>2. UNCHANGED <<flow, loc, inflight, match, nodeDb, completes, sent, mapped, toCome, answers, said>>
  BY DEF Send, replyVars
<1>3. TypeOK'
  BY <1>1, <1>2, Typed, TypedNext DEF IInv, TypeOK
<1>4. Places'
  BY <1>1, <1>2, <1>3 DEF IInv, Places, Entry, Work, Ending
<1>5. TasksInv'
  BY <1>1, <1>2, <1>3 DEF IInv, TasksInv, Entry, Work, Ending, Tested, Raised
<1>6. FlagInv'
  BY <1>1, <1>2, <1>3 DEF IInv, FlagInv, Work, Ending
<1>7. StepInv'
  BY <1>1, <1>2, <1>3 DEF IInv, StepInv, DONE
<1>8. LocalInv'
  BY <1>1, <1>2, <1>3 DEF IInv, LocalInv, Well, Entry, Work, Ending, NoLocals
<1>9. AnswerInv'
  BY <1>1, <1>2, <1>3 DEF IInv, AnswerInv, Waiting, Entry, Work, Ending
<1>10. AddrInv'
  BY <1>1, <1>2, <1>3 DEF IInv, AddrInv, Well, InUse, Adopted, Undoing, Work, Ending, T, B
<1>11. AdoptedInv'
  BY <1>1, <1>2, <1>3 DEF IInv, AdoptedInv, InUse
<1> QED
  BY <1>3, <1>4, <1>5, <1>6, <1>7, <1>8, <1>9, <1>10, <1>11 DEF IInv

-----------------------------------------------------------------------------
(* The stack.                                                              *)

LEMMA ProvisionsKeeps ==
  ASSUME Calm, IInv, NEW a \in Addrs, Provisions(a)
  PROVE  IInv'
<1>1. /\ T' = T /\ B' = B /\ M' = M /\ UNCHANGED pc
  BY DEF Provisions, T, B, M
<1>2. /\ nodeDb[a] = None /\ match # None /\ nodeDb' = [nodeDb EXCEPT ![a] = match]
      /\ completes' = completes \cup {a}
      /\ UNCHANGED <<flow, loc, inflight, match, sent, mapped, toCome, answers, said>>
  BY DEF Provisions, replyVars
<1>3. /\ nodeDb'[a] = match /\ \A b \in Addrs : b # a => nodeDb'[b] = nodeDb[b]
      /\ \A b \in Addrs : InUse(b) => InUse(b)'
  BY <1>2 DEF IInv, TypeOK, InUse
<1>4. TypeOK'
  BY <1>1, <1>2, <1>3, Typed, TypedNext DEF IInv, TypeOK
<1>5. Places'
  BY <1>1, <1>2, <1>3, <1>4 DEF IInv, Places
<1>6. TasksInv'
  BY <1>1, <1>2, <1>3, <1>4 DEF IInv, TasksInv, Tested, Raised
<1>7. FlagInv'
  BY <1>1, <1>2, <1>3, <1>4 DEF IInv, FlagInv
<1>8. StepInv'
  BY <1>1, <1>2, <1>3, <1>4 DEF IInv, StepInv, DONE
<1>9. LocalInv'
  BY <1>1, <1>2, <1>3, <1>4 DEF IInv, LocalInv, Well
<1>10. AnswerInv'
  BY <1>1, <1>2, <1>3, <1>4 DEF IInv, AnswerInv, Waiting, Entry, Work, Ending
<1>11. AddrInv'
  BY <1>1, <1>2, <1>3, <1>4 DEF IInv, AddrInv, Well, InUse, Adopted, Undoing
<1>12. AdoptedInv'
  BY <1>1, <1>2, <1>3, <1>4 DEF IInv, AdoptedInv
<1> QED
  BY <1>4, <1>5, <1>6, <1>7, <1>8, <1>9, <1>10, <1>11, <1>12 DEF IInv

LEMMA TimerKeeps ==
  ASSUME Calm, IInv, Timer
  PROVE  IInv'
<1>1. CASE TimerFires
  BY <1>1, TimerFiresKeeps
<1>2. CASE Gate("timer", "expired", "finish-err")
  <2>1. CASE flow.up
    BY <1>2, <2>1, ExpiredKeeps
  <2>2. CASE ~flow.up
    BY <1>2, <2>2, ReturnsKeeps DEF Gate, At
  <2> QED
    BY <2>1, <2>2
<1> QED
  BY <1>1, <1>2 DEF Timer

LEMMA BtcKeeps ==
  ASSUME Calm, IInv, Btc
  PROVE  IInv'
<1>1. CASE \E a \in Addrs : ProvComplete(a) \/ Response(a, "acked") \/ Response(a, "refused")
  BY <1>1, ProvCompleteWithin, ProvCompleteOutside, ResponseKeeps
<1>2. CASE Closed
  <2>1. CASE flow.up /\ flow.step < APP_KEY_ADD
    BY <1>2, <2>1, ClosedKeeps
  <2>2. CASE ~(flow.up /\ flow.step < APP_KEY_ADD)
    BY <1>2, <2>2, ReturnsKeeps DEF Closed, At, Entry
  <2> QED
    BY <2>1, <2>2
<1>3. CASE Acked
  <2>1. CASE flow.up
    BY <1>3, <2>1, AckedKeeps
  <2>2. CASE ~flow.up
    BY <1>3, <2>2, ReturnsKeeps DEF Acked, At, Entry
  <2> QED
    BY <2>1, <2>2
<1>4. CASE Gate("btc", "refused", "finish-err")
  <2>1. CASE flow.up
    BY <1>4, <2>1, RefusedKeeps
  <2>2. CASE ~flow.up
    BY <1>4, <2>2, ReturnsKeeps DEF Gate, At, Entry
  <2> QED
    BY <2>1, <2>2
<1>5. CASE FinishOk
  <2>1. CASE flow.up
    BY <1>5, <2>1, FinishOkKeeps
  <2>2. CASE ~flow.up
    BY <1>5, <2>2, ReturnsKeeps DEF FinishOk, At, Entry
  <2> QED
    BY <2>1, <2>2
<1>6. CASE Send
  <2>1. CASE Sendable(loc["btc"].addr) /\ Returns("btc")
    BY <1>6, <2>1, SendWell
  <2>2. CASE Goes("btc", "finish-err") /\ UNCHANGED <<loc, sent>>
    BY <1>6, <2>2, SendBadly
  <2> QED
    BY <1>6, <2>1, <2>2 DEF Send
<1> QED
  BY <1>1, <1>2, <1>3, <1>4, <1>5, <1>6, LinkClosesKeeps, OrphanKeeps, PbAdvDoneKeeps,
     CfgStateKeeps, CompleteKeeps, AdvanceKeeps DEF Btc

-----------------------------------------------------------------------------
(* The MQTT client's task.                                                 *)

LEMMA RequestFree ==
  ASSUME Calm, IInv, NEW r \in Reqs, Request(r), Free
  PROVE  IInv'
<1>1. /\ M = "idle" /\ M' = "take" /\ T' = T /\ B' = B /\ T \in TimerHeld /\ B \in BtcHeld
      /\ pc' \in [Tasks -> PlaceNames]
  BY MqttRuns, Moves, Names DEF IInv, Request, Starts, At, T, B, M, Calm, Raised
<1>2. /\ loc' = [loc EXCEPT !["mqtt"].req = r] /\ loc' \in [Tasks -> Locals]
      /\ loc'["mqtt"].req = r
      /\ loc'["timer"] = loc["timer"] /\ loc'["btc"] = loc["btc"]
  BY Typed, Names DEF IInv, Request, Locals
<1>3. /\ r \in toCome /\ toCome' = toCome \ {r}
      /\ inflight = None
      /\ UNCHANGED <<flow, inflight, match, nodeDb, completes, sent, mapped, answers, said>>
  BY DEF Request, Free, stackVars, replyVars
<1>4. TypeOK'
  BY <1>1, <1>2, <1>3, Typed, TypedNext DEF IInv, TypeOK
<1>5. Places'
  BY <1>1, <1>2, <1>3, <1>4 DEF IInv, Places
<1>6. TasksInv'
  BY <1>1, <1>2, <1>3, <1>4 DEF IInv, Places, TasksInv, FlagInv, LocalInv, Entry, Work, Ending, TimerHeld, BtcHeld, Tested, Raised
<1>7. FlagInv'
  BY <1>1, <1>2, <1>3, <1>4 DEF IInv, FlagInv
<1>8. StepInv'
  BY <1>1, <1>2, <1>3, <1>4 DEF IInv, StepInv, FlagInv, DONE
<1>9. LocalInv'
  BY <1>1, <1>2, <1>3, <1>4 DEF IInv, LocalInv, Well
<1>10. AnswerInv'
  BY <1>1, <1>2, <1>3, <1>4 DEF IInv, AnswerInv, Waiting, Entry, Work, Ending
<1>11. AddrInv'
  BY <1>1, <1>2, <1>3, <1>4 DEF IInv, AddrInv, Well, InUse, Adopted, Undoing, T, B
<1>12. AdoptedInv'
  BY <1>1, <1>2, <1>3, <1>4 DEF IInv, AdoptedInv, InUse
<1> QED
  BY <1>4, <1>5, <1>6, <1>7, <1>8, <1>9, <1>10, <1>11, <1>12 DEF IInv

LEMMA RequestBusy ==
  ASSUME Calm, IInv, NEW r \in Reqs, Request(r), ~Free
  PROVE  IInv'
<1>1. /\ M = "idle" /\ M' = "busy" /\ T' = T /\ B' = B /\ T \in TimerHeld /\ B \in BtcHeld
      /\ pc' \in [Tasks -> PlaceNames]
  BY MqttRuns, Moves, Names DEF IInv, Request, Starts, At, T, B, M, Calm, Raised
<1>2. /\ loc' = [loc EXCEPT !["mqtt"].req = r] /\ loc' \in [Tasks -> Locals]
      /\ loc'["mqtt"].req = r
      /\ loc'["timer"] = loc["timer"] /\ loc'["btc"] = loc["btc"]
  BY Typed, Names DEF IInv, Request, Locals
<1>3. /\ r \in toCome /\ toCome' = toCome \ {r}
      /\ inflight # None
      /\ UNCHANGED <<flow, inflight, match, nodeDb, completes, sent, mapped, answers, said>>
  BY DEF Request, Free, stackVars, replyVars
<1>4. TypeOK'
  BY <1>1, <1>2, <1>3, Typed, TypedNext DEF IInv, TypeOK
<1>5. Places'
  BY <1>1, <1>2, <1>3, <1>4 DEF IInv, Places
<1>6. TasksInv'
  BY <1>1, <1>2, <1>3, <1>4 DEF IInv, Places, TasksInv, FlagInv, LocalInv, Entry, Work, Ending, TimerHeld, BtcHeld, Tested, Raised
<1>7. FlagInv'
  BY <1>1, <1>2, <1>3, <1>4 DEF IInv, FlagInv
<1>8. StepInv'
  BY <1>1, <1>2, <1>3, <1>4 DEF IInv, StepInv, DONE
<1>9. LocalInv'
  BY <1>1, <1>2, <1>3, <1>4 DEF IInv, LocalInv, Well
<1>10. AnswerInv'
  BY <1>1, <1>2, <1>3, <1>4 DEF IInv, AnswerInv, Waiting, Entry, Work, Ending
<1>11. AddrInv'
  BY <1>1, <1>2, <1>3, <1>4 DEF IInv, AddrInv, Well, InUse, Adopted, Undoing, T, B
<1>12. AdoptedInv'
  BY <1>1, <1>2, <1>3, <1>4 DEF IInv, AdoptedInv, InUse
<1> QED
  BY <1>4, <1>5, <1>6, <1>7, <1>8, <1>9, <1>10, <1>11, <1>12 DEF IInv

LEMMA BusyKeeps ==
  ASSUME Calm, IInv, NEW r, r = loc["mqtt"].req, Busy
  PROVE  IInv'
<1>1. /\ M = "busy" /\ M' = "idle" /\ T' = T /\ B' = B /\ T \in TimerHeld /\ B \in BtcHeld
      /\ pc' \in [Tasks -> PlaceNames]
      /\ loc' \in [Tasks -> Locals] /\ loc'["mqtt"] = NoLocals
      /\ loc'["timer"] = loc["timer"] /\ loc'["btc"] = loc["btc"]
  BY MqttRuns, Leaves, Names DEF IInv, Busy, At, T, B, M, Tasks
<1>2. UNCHANGED <<flow, inflight, match, nodeDb, completes, sent, mapped, toCome>>
  BY DEF Busy, stackVars
<1>3. r \in Reqs
  BY <1>1 DEF IInv, LocalInv
<1>4. /\ answers' \in [Reqs -> Nat] /\ answers'[r] = answers[r] + 1
      /\ \A u \in Reqs : u # r => answers'[u] = answers[u]
      /\ said' \subseteq [req : Reqs, status : {"ok", "err"}, addr : Addrs \cup {None}]
      /\ \A b : Adopted(b)' <=> Adopted(b)
      /\ said' = said \cup {[req |-> r, status |-> "err", addr |-> None]}
  BY <1>3, AnswerEffects DEF IInv, Busy
<1>5. TypeOK'
  BY <1>1, <1>2, <1>3, <1>4, Typed, TypedNext DEF IInv, TypeOK
<1>6. Places'
  BY <1>1, <1>2, <1>3, <1>4, <1>5 DEF IInv, Places
<1>7. TasksInv'
  BY <1>1, <1>2, <1>3, <1>4, <1>5 DEF IInv, TasksInv, Tested, Raised
<1>8. FlagInv'
  BY <1>1, <1>2, <1>3, <1>4, <1>5 DEF IInv, FlagInv
<1>9. StepInv'
  BY <1>1, <1>2, <1>3, <1>4, <1>5 DEF IInv, StepInv, DONE
<1>10. LocalInv'
  BY <1>1, <1>2, <1>3, <1>4, <1>5 DEF IInv, LocalInv, Well
<1>11. AnswerInv'
  BY <1>1, <1>2, <1>3, <1>4, <1>5 DEF IInv, AnswerInv, Waiting
<1>12. AddrInv'
  BY <1>1, <1>2, <1>3, <1>4, <1>5 DEF IInv, AddrInv, Well, InUse, Undoing, T, B
<1>13. AdoptedInv'
  BY <1>1, <1>2, <1>3, <1>4, <1>5 DEF IInv, AdoptedInv, InUse
<1> QED
  BY <1>5, <1>6, <1>7, <1>8, <1>9, <1>10, <1>11, <1>12, <1>13 DEF IInv

LEMMA StartFailKeeps ==
  ASSUME Calm, IInv, NEW r, r = loc["mqtt"].req, StartFail
  PROVE  IInv'
<1>1. /\ M = "start-fail" /\ M' = "give-up" /\ T' = T /\ B' = B /\ T \in TimerHeld /\ B \in BtcHeld
      /\ pc' \in [Tasks -> PlaceNames]
  BY MqttRuns, Moves, Names DEF IInv, StartFail, At, T, B, M
<1>2. UNCHANGED <<flow, loc, inflight, match, nodeDb, completes, sent, mapped, toCome>>
  BY DEF StartFail, stackVars
<1>3. r \in Reqs
  BY <1>1 DEF IInv, LocalInv
<1>4. /\ answers' \in [Reqs -> Nat] /\ answers'[r] = answers[r] + 1
      /\ \A u \in Reqs : u # r => answers'[u] = answers[u]
      /\ said' \subseteq [req : Reqs, status : {"ok", "err"}, addr : Addrs \cup {None}]
      /\ \A b : Adopted(b)' <=> Adopted(b)
      /\ said' = said \cup {[req |-> r, status |-> "err", addr |-> None]}
  BY <1>3, AnswerEffects DEF IInv, StartFail
<1>5. TypeOK'
  BY <1>1, <1>2, <1>3, <1>4, Typed, TypedNext DEF IInv, TypeOK
<1>6. Places'
  BY <1>1, <1>2, <1>3, <1>4, <1>5 DEF IInv, Places
<1>7. TasksInv'
  BY <1>1, <1>2, <1>3, <1>4, <1>5 DEF IInv, TasksInv, Tested, Raised
<1>8. FlagInv'
  BY <1>1, <1>2, <1>3, <1>4, <1>5 DEF IInv, FlagInv
<1>9. StepInv'
  BY <1>1, <1>2, <1>3, <1>4, <1>5 DEF IInv, StepInv, DONE
<1>10. LocalInv'
  BY <1>1, <1>2, <1>3, <1>4, <1>5 DEF IInv, LocalInv, Well
<1>11. AnswerInv'
  BY <1>1, <1>2, <1>3, <1>4, <1>5 DEF IInv, TypeOK, AnswerInv, Waiting, FlagInv
<1>12. AddrInv'
  BY <1>1, <1>2, <1>3, <1>4, <1>5 DEF IInv, AddrInv, Well, InUse, Undoing, T, B
<1>13. AdoptedInv'
  BY <1>1, <1>2, <1>3, <1>4, <1>5 DEF IInv, AdoptedInv, InUse
<1> QED
  BY <1>5, <1>6, <1>7, <1>8, <1>9, <1>10, <1>11, <1>12, <1>13 DEF IInv

LEMMA TakeKeeps ==
  ASSUME Calm, IInv, Take
  PROVE  IInv'
<1>1. /\ M = "take" /\ M' = "raise" /\ T' = T /\ B' = B /\ T \in TimerHeld /\ B \in BtcHeld
      /\ pc' \in [Tasks -> PlaceNames]
  BY MqttRuns, Moves, Names DEF IInv, FlagInv, Take, At, T, B, M
<1>2. /\ inflight = None /\ inflight' = loc["mqtt"].req /\ loc["mqtt"].req \in Reqs
      /\ ~flow.up /\ inflight' # None
      /\ UNCHANGED <<flow, loc, match, nodeDb, completes, sent, mapped, toCome, answers, said>>
  BY <1>1, TasksAssumption DEF IInv, FlagInv, LocalInv, Take, stackVars, replyVars
<1>3. TypeOK'
  BY <1>1, <1>2, Typed, TypedNext DEF IInv, TypeOK
<1>4. Places'
  BY <1>1, <1>2, <1>3, TasksAssumption DEF IInv, Places
<1>5. TasksInv'
  BY <1>1, <1>2, <1>3, TasksAssumption DEF IInv, TasksInv, Tested, Raised
<1>6. FlagInv'
  BY <1>1, <1>2, <1>3, TasksAssumption DEF IInv, FlagInv
<1>7. StepInv'
  BY <1>1, <1>2, <1>3, TasksAssumption DEF IInv, StepInv, DONE
<1>8. LocalInv'
  BY <1>1, <1>2, <1>3, TasksAssumption DEF IInv, LocalInv, Well
<1>9. AnswerInv'
  BY <1>1, <1>2, <1>3, TasksAssumption DEF IInv, TypeOK, AnswerInv, Waiting, TasksInv, Tested, Raised
<1>10. AddrInv'
  BY <1>1, <1>2, <1>3, TasksAssumption DEF IInv, AddrInv, FlagInv, Well, InUse, Adopted, Undoing, Work, Ending, T, B
<1>11. AdoptedInv'
  BY <1>1, <1>2, <1>3, TasksAssumption DEF IInv, AdoptedInv, InUse
<1> QED
  BY <1>3, <1>4, <1>5, <1>6, <1>7, <1>8, <1>9, <1>10, <1>11 DEF IInv

LEMMA RaiseKeeps ==
  ASSUME Calm, IInv, Raise
  PROVE  IInv'
<1>1. /\ M = "raise" /\ M' = "fill" /\ T' = T /\ B' = B /\ T \in TimerHeld /\ B \in BtcHeld
      /\ pc' \in [Tasks -> PlaceNames]
  BY MqttRuns, Moves, Names DEF IInv, Raise, Sets, At, T, B, M
<1>2. /\ flow' \in Flows
      /\ flow'.up = TRUE
      /\ flow'.cb = flow.cb /\ flow'.target = flow.target /\ flow'.step = flow.step /\ flow'.timer = flow.timer
      /\ UNCHANGED <<loc, inflight, match, nodeDb, completes, sent, mapped, toCome, answers, said>>
  BY Typed DEF IInv, Raise, Sets, OutsideFlow, stackVars, replyVars, Flows
<1>3. TypeOK'
  BY <1>1, <1>2, Typed, TypedNext DEF IInv, TypeOK
<1>4. Places'
  BY <1>1, <1>2, <1>3 DEF IInv, Places
<1>5. TasksInv'
  BY <1>1, <1>2, <1>3 DEF IInv, Places, TasksInv, FlagInv, LocalInv, Entry, Work, Ending, TimerHeld, BtcHeld, Tested, Raised
<1>6. FlagInv'
  BY <1>1, <1>2, <1>3 DEF IInv, Places, FlagInv, TasksInv, StepInv, LocalInv, Entry, Work, Ending, TimerHeld, BtcHeld, Tested, Raised
<1>7. StepInv'
  BY <1>1, <1>2, <1>3 DEF IInv, StepInv, BtcHeld, DONE
<1>8. LocalInv'
  BY <1>1, <1>2, <1>3 DEF IInv, LocalInv, Well
<1>9. AnswerInv'
  BY <1>1, <1>2, <1>3 DEF IInv, AnswerInv, Waiting, Entry, Work, Ending
<1>10. AddrInv'
  BY <1>1, <1>2, <1>3 DEF IInv, AddrInv, Well, InUse, Adopted, Undoing, T, B
<1>11. AdoptedInv'
  BY <1>1, <1>2, <1>3 DEF IInv, AdoptedInv, InUse
<1> QED
  BY <1>3, <1>4, <1>5, <1>6, <1>7, <1>8, <1>9, <1>10, <1>11 DEF IInv

LEMMA FillKeeps ==
  ASSUME Calm, IInv, Fill
  PROVE  IInv'
<1>1. /\ M = "fill" /\ M' = "reset" /\ T' = T /\ B' = B /\ T \in TimerHeld /\ B \in BtcHeld
      /\ pc' \in [Tasks -> PlaceNames]
  BY MqttRuns, Moves, Names DEF IInv, Fill, Sets, At, T, B, M
<1>2. /\ flow' \in Flows
      /\ flow'.cb = TRUE
      /\ flow'.up = flow.up /\ flow'.target = flow.target /\ flow'.step = flow.step /\ flow'.timer = flow.timer
      /\ UNCHANGED <<loc, inflight, match, nodeDb, completes, sent, mapped, toCome, answers, said>>
  BY Typed DEF IInv, Fill, Sets, OutsideFlow, stackVars, replyVars, Flows
<1>3. TypeOK'
  BY <1>1, <1>2, Typed, TypedNext DEF IInv, TypeOK
<1>4. Places'
  BY <1>1, <1>2, <1>3 DEF IInv, Places
<1>5. TasksInv'
  BY <1>1, <1>2, <1>3 DEF IInv, TasksInv, Tested, Raised
<1>6. FlagInv'
  BY <1>1, <1>2, <1>3 DEF IInv, FlagInv
<1>7. StepInv'
  BY <1>1, <1>2, <1>3 DEF IInv, StepInv, DONE
<1>8. LocalInv'
  BY <1>1, <1>2, <1>3 DEF IInv, LocalInv, Well
<1>9. AnswerInv'
  BY <1>1, <1>2, <1>3 DEF IInv, AnswerInv, Waiting, Entry, Work, Ending
<1>10. AddrInv'
  BY <1>1, <1>2, <1>3 DEF IInv, AddrInv, Well, InUse, Adopted, Undoing, T, B
<1>11. AdoptedInv'
  BY <1>1, <1>2, <1>3 DEF IInv, AdoptedInv, InUse
<1> QED
  BY <1>3, <1>4, <1>5, <1>6, <1>7, <1>8, <1>9, <1>10, <1>11 DEF IInv

LEMMA ResetKeeps ==
  ASSUME Calm, IInv, Reset
  PROVE  IInv'
<1>1. /\ M = "reset" /\ M' = "match" /\ T' = T /\ B' = B /\ T \in TimerHeld /\ B \in BtcHeld
      /\ pc' \in [Tasks -> PlaceNames]
  BY MqttRuns, Moves, Names DEF IInv, Reset, Sets, At, T, B, M
<1>2. /\ flow' \in Flows
      /\ flow'.target = None /\ flow'.step = 0
      /\ flow'.up = flow.up /\ flow'.cb = flow.cb /\ flow'.timer = flow.timer
      /\ UNCHANGED <<loc, inflight, match, nodeDb, completes, sent, mapped, toCome, answers, said>>
  BY BlankFlow DEF IInv, Reset, Sets, OutsideFlow, stackVars, replyVars, Flows
<1>3. ~Adopted(None) /\ \A b : Adopted(b)' <=> Adopted(b)
  BY <1>2, TasksAssumption DEF IInv, AdoptedInv, Adopted
<1>4. TypeOK'
  BY <1>1, <1>2, <1>3, Typed, TypedNext DEF IInv, TypeOK
<1>5. Places'
  BY <1>1, <1>2, <1>3, <1>4 DEF IInv, Places
<1>6. TasksInv'
  BY <1>1, <1>2, <1>3, <1>4 DEF IInv, TasksInv, Tested, Raised
<1>7. FlagInv'
  BY <1>1, <1>2, <1>3, <1>4 DEF IInv, FlagInv
<1>8. StepInv'
  BY <1>1, <1>2, <1>3, <1>4 DEF IInv, StepInv, DONE
<1>9. LocalInv'
  BY <1>1, <1>2, <1>3, <1>4 DEF IInv, LocalInv, Well
<1>10. AnswerInv'
  BY <1>1, <1>2, <1>3, <1>4 DEF IInv, AnswerInv, Waiting, Entry, Work, Ending
<1>11. AddrInv'
  BY <1>1, <1>2, <1>3, <1>4 DEF IInv, Places, AddrInv, TasksInv, FlagInv, Entry, Work, Ending, Well, InUse, Undoing, TimerHeld, BtcHeld, T, B, M, Tested, Raised
<1>12. AdoptedInv'
  BY <1>1, <1>2, <1>3, <1>4 DEF IInv, AdoptedInv, InUse
<1> QED
  BY <1>4, <1>5, <1>6, <1>7, <1>8, <1>9, <1>10, <1>11, <1>12 DEF IInv

LEMMA ArmKeeps ==
  ASSUME Calm, IInv, Arm
  PROVE  IInv'
<1>1. /\ M = "arm" /\ M' = "started" /\ T' = T /\ B' = B /\ T \in TimerHeld /\ B \in BtcHeld
      /\ pc' \in [Tasks -> PlaceNames]
  BY MqttRuns, Moves, Names DEF IInv, Arm, Sets, At, T, B, M
<1>2. /\ flow' \in Flows
      /\ flow'.timer = TRUE
      /\ flow'.up = flow.up /\ flow'.cb = flow.cb /\ flow'.target = flow.target /\ flow'.step = flow.step
      /\ UNCHANGED <<loc, inflight, match, nodeDb, completes, sent, mapped, toCome, answers, said>>
  BY Typed DEF IInv, Arm, Sets, OutsideFlow, stackVars, replyVars, Flows
<1>3. TypeOK'
  BY <1>1, <1>2, Typed, TypedNext DEF IInv, TypeOK
<1>4. Places'
  BY <1>1, <1>2, <1>3 DEF IInv, Places
<1>5. TasksInv'
  BY <1>1, <1>2, <1>3 DEF IInv, TasksInv, Tested, Raised
<1>6. FlagInv'
  BY <1>1, <1>2, <1>3 DEF IInv, FlagInv
<1>7. StepInv'
  BY <1>1, <1>2, <1>3 DEF IInv, StepInv, DONE
<1>8. LocalInv'
  BY <1>1, <1>2, <1>3 DEF IInv, LocalInv, Well
<1>9. AnswerInv'
  BY <1>1, <1>2, <1>3 DEF IInv, AnswerInv, Waiting, Entry, Work, Ending
<1>10. AddrInv'
  BY <1>1, <1>2, <1>3 DEF IInv, AddrInv, Well, InUse, Adopted, Undoing, T, B
<1>11. AdoptedInv'
  BY <1>1, <1>2, <1>3 DEF IInv, AdoptedInv, InUse
<1> QED
  BY <1>3, <1>4, <1>5, <1>6, <1>7, <1>8, <1>9, <1>10, <1>11 DEF IInv

LEMMA MatchKeeps ==
  ASSUME Calm, IInv, Match, match' = loc["mqtt"].req, Goes("mqtt", "arm"), UNCHANGED flow
  PROVE  IInv'
<1>1. /\ M = "match" /\ M' = "arm" /\ T' = T /\ B' = B /\ T \in TimerHeld /\ B \in BtcHeld
      /\ pc' \in [Tasks -> PlaceNames]
  BY MqttRuns, Moves, Names DEF IInv, Match, At, T, B, M
<1>2. match' = loc["mqtt"].req /\ UNCHANGED <<flow, loc, inflight, nodeDb, completes, sent, mapped, toCome, answers, said>>
  BY DEF Match, replyVars
<1>3. match' \in Reqs
  BY <1>1, <1>2 DEF IInv, LocalInv
<1>4. TypeOK'
  BY <1>1, <1>2, <1>3, Typed, TypedNext DEF IInv, TypeOK
<1>5. Places'
  BY <1>1, <1>2, <1>3, <1>4 DEF IInv, Places
<1>6. TasksInv'
  BY <1>1, <1>2, <1>3, <1>4 DEF IInv, TasksInv, Tested, Raised
<1>7. FlagInv'
  BY <1>1, <1>2, <1>3, <1>4 DEF IInv, FlagInv
<1>8. StepInv'
  BY <1>1, <1>2, <1>3, <1>4 DEF IInv, StepInv, DONE
<1>9. LocalInv'
  BY <1>1, <1>2, <1>3, <1>4 DEF IInv, LocalInv, Well
<1>10. AnswerInv'
  BY <1>1, <1>2, <1>3, <1>4 DEF IInv, AnswerInv, Waiting, Entry, Work, Ending
<1>11. AddrInv'
  BY <1>1, <1>2, <1>3, <1>4 DEF IInv, AddrInv, Well, InUse, Adopted, Undoing, T, B
<1>12. AdoptedInv'
  BY <1>1, <1>2, <1>3, <1>4 DEF IInv, AdoptedInv, InUse
<1> QED
  BY <1>4, <1>5, <1>6, <1>7, <1>8, <1>9, <1>10, <1>11, <1>12 DEF IInv

LEMMA MatchFails ==
  ASSUME Calm, IInv, Match, flow.up, flow' = TakenBack, Goes("mqtt", "start-fail"), UNCHANGED match
  PROVE  IInv'
<1>1. /\ M = "match" /\ M' = "start-fail" /\ T' = T /\ B' = B /\ T \in TimerHeld /\ B \in BtcHeld
      /\ pc' \in [Tasks -> PlaceNames]
  BY MqttRuns, Moves, Names DEF IInv, Match, At, T, B, M
<1>2. /\ flow' \in Flows
      /\ flow'.up = FALSE
      /\ flow'.cb = flow.cb /\ flow'.target = flow.target /\ flow'.step = flow.step /\ flow'.timer = flow.timer
      /\ UNCHANGED <<loc, inflight, match, nodeDb, completes, sent, mapped, toCome, answers, said>>
  BY Typed DEF IInv, Match, TakenBack, replyVars, Flows
<1>3. TypeOK'
  BY <1>1, <1>2, Typed, TypedNext DEF IInv, TypeOK
<1>4. Places'
  BY <1>1, <1>2, <1>3 DEF IInv, Places
<1>5. TasksInv'
  BY <1>1, <1>2, <1>3 DEF IInv, TasksInv, Tested, Raised
<1>6. FlagInv'
  BY <1>1, <1>2, <1>3 DEF IInv, Places, FlagInv, TasksInv, StepInv, LocalInv, Entry, Work, Ending, TimerHeld, BtcHeld, Tested, Raised
<1>7. StepInv'
  BY <1>1, <1>2, <1>3 DEF IInv, StepInv, DONE
<1>8. LocalInv'
  BY <1>1, <1>2, <1>3 DEF IInv, LocalInv, Well
<1>9. AnswerInv'
  BY <1>1, <1>2, <1>3 DEF IInv, TypeOK, AnswerInv, Waiting, TasksInv, FlagInv, Ending, Tested, Raised
<1>10. AddrInv'
  BY <1>1, <1>2, <1>3 DEF IInv, AddrInv, Well, InUse, Adopted, Undoing, T, B
<1>11. AdoptedInv'
  BY <1>1, <1>2, <1>3 DEF IInv, AdoptedInv, InUse
<1> QED
  BY <1>3, <1>4, <1>5, <1>6, <1>7, <1>8, <1>9, <1>10, <1>11 DEF IInv

LEMMA StartedKeeps ==
  ASSUME Calm, IInv, Started
  PROVE  IInv'
<1>1. /\ M = "started" /\ M' = "idle" /\ T' = T /\ B' = B /\ T \in TimerHeld /\ B \in BtcHeld
      /\ pc' \in [Tasks -> PlaceNames]
      /\ loc' \in [Tasks -> Locals] /\ loc'["mqtt"] = NoLocals
      /\ loc'["timer"] = loc["timer"] /\ loc'["btc"] = loc["btc"]
  BY MqttRuns, Leaves, Names DEF IInv, Started, At, T, B, M, Tasks
<1>2. UNCHANGED <<flow, inflight, match, nodeDb, completes, sent, mapped, toCome, answers, said>>
  BY DEF Started, OnlyMoves, OutsideFlow, stackVars, replyVars
<1>3. TypeOK'
  BY <1>1, <1>2, Typed, TypedNext DEF IInv, TypeOK
<1>4. Places'
  BY <1>1, <1>2, <1>3 DEF IInv, Places
<1>5. TasksInv'
  BY <1>1, <1>2, <1>3 DEF IInv, TasksInv, Tested, Raised
<1>6. FlagInv'
  BY <1>1, <1>2, <1>3 DEF IInv, FlagInv
<1>7. StepInv'
  BY <1>1, <1>2, <1>3 DEF IInv, StepInv, DONE
<1>8. LocalInv'
  BY <1>1, <1>2, <1>3 DEF IInv, LocalInv, Well
<1>9. AnswerInv'
  BY <1>1, <1>2, <1>3 DEF IInv, AnswerInv, Waiting, Entry, Work, Ending
<1>10. AddrInv'
  BY <1>1, <1>2, <1>3 DEF IInv, AddrInv, Well, InUse, Adopted, Undoing, T, B
<1>11. AdoptedInv'
  BY <1>1, <1>2, <1>3 DEF IInv, AdoptedInv, InUse
<1> QED
  BY <1>3, <1>4, <1>5, <1>6, <1>7, <1>8, <1>9, <1>10, <1>11 DEF IInv

LEMMA GiveUpKeeps ==
  ASSUME Calm, IInv, GiveUp
  PROVE  IInv'
<1>1. /\ M = "give-up" /\ M' = "idle" /\ T' = T /\ B' = B /\ T \in TimerHeld /\ B \in BtcHeld
      /\ pc' \in [Tasks -> PlaceNames]
      /\ loc' \in [Tasks -> Locals] /\ loc'["mqtt"] = NoLocals
      /\ loc'["timer"] = loc["timer"] /\ loc'["btc"] = loc["btc"]
  BY MqttRuns, Leaves, Names DEF IInv, GiveUp, At, T, B, M, Tasks
<1>2. inflight' = None /\ UNCHANGED <<flow, match, nodeDb, completes, sent, mapped, toCome, answers, said>>
  BY DEF GiveUp, stackVars, replyVars
<1>3. TypeOK'
  BY <1>1, <1>2, Typed, TypedNext DEF IInv, TypeOK
<1>4. Places'
  BY <1>1, <1>2, <1>3, TasksAssumption DEF IInv, Places
<1>5. TasksInv'
  BY <1>1, <1>2, <1>3, TasksAssumption DEF IInv, TasksInv, Tested, Raised
<1>6. FlagInv'
  BY <1>1, <1>2, <1>3, TasksAssumption DEF IInv, FlagInv
<1>7. StepInv'
  BY <1>1, <1>2, <1>3, TasksAssumption DEF IInv, StepInv, DONE
<1>8. LocalInv'
  BY <1>1, <1>2, <1>3, TasksAssumption DEF IInv, LocalInv, Well
<1>9. AnswerInv'
  BY <1>1, <1>2, <1>3, TasksAssumption DEF IInv, TypeOK, AnswerInv, Waiting, FlagInv
<1>10. AddrInv'
  BY <1>1, <1>2, <1>3, TasksAssumption DEF IInv, AddrInv, FlagInv, Well, InUse, Adopted, Undoing, Work, Ending, T, B
<1>11. AdoptedInv'
  BY <1>1, <1>2, <1>3, TasksAssumption DEF IInv, AdoptedInv, InUse
<1> QED
  BY <1>3, <1>4, <1>5, <1>6, <1>7, <1>8, <1>9, <1>10, <1>11 DEF IInv

LEMMA MqttKeeps ==
  ASSUME Calm, IInv, Mqtt
  PROVE  IInv'
<1>1. CASE \E r \in Reqs : Request(r)
  BY <1>1, RequestFree, RequestBusy
<1>2. CASE Match
  <2>1. CASE match' = loc["mqtt"].req /\ Goes("mqtt", "arm") /\ UNCHANGED flow
    BY <1>2, <2>1, MatchKeeps
  <2>2. CASE /\ "window" \in Faults \/ flow.up
             /\ flow' = TakenBack
             /\ Goes("mqtt", "start-fail")
             /\ UNCHANGED match
    BY <1>2, <2>2, MatchFails DEF Calm
  <2> QED
    BY <1>2, <2>1, <2>2 DEF Match
<1> QED
  BY <1>1, <1>2, BusyKeeps, TakeKeeps, RaiseKeeps, FillKeeps, ResetKeeps, ArmKeeps,
     StartedKeeps, StartFailKeeps, GiveUpKeeps DEF Mqtt

-----------------------------------------------------------------------------
(* The invariant.                                                          *)

LEMMA InitHolds ==
  ASSUME Init
  PROVE  IInv
<1>1. /\ T = "idle" /\ B = "idle" /\ M = "idle" /\ pc \in [Tasks -> PlaceNames]
      /\ \A t \in Tasks : pc[t] = "idle"
  BY Names DEF Init, Tasks, T, B, M
<1>2. loc \in [Tasks -> Locals] /\ loc["timer"] = NoLocals /\ loc["btc"] = NoLocals
  <2>1. NoLocals \in Locals
    BY DEF NoLocals, Locals
  <2> QED
    BY <2>1, Names DEF Init
<1>3. ~NoLocals.ok
  BY DEF NoLocals
<1>4. /\ flow \in Flows /\ ~flow.up /\ ~flow.cb /\ flow.target = None /\ flow.step = 0
      /\ ~flow.timer
  BY DEF Init, NoFlow, Flows, IDLE
<1>5. TypeOK
  BY <1>1, <1>2, <1>4 DEF Init, TypeOK, PlaceNames, Locals, Flows, IDLE, DONE
<1>6. Places /\ TasksInv
  BY <1>1 DEF Places, TasksInv, Entry, Work, Ending
<1>7. FlagInv
  BY <1>1, <1>4 DEF FlagInv, Init, Work, Ending
<1>8. StepInv
  BY <1>1, <1>4 DEF StepInv, DONE
<1>9. LocalInv
  BY <1>1, <1>2, <1>3 DEF LocalInv, Well, Entry, Work, Ending
<1>10. AnswerInv
  BY <1>1, TasksAssumption DEF AnswerInv, Waiting, Init
<1>11. AdoptedInv
  BY DEF AdoptedInv, Init
<1>12. AddrInv
  <2>1. completes = {} /\ \A a : ~Adopted(a)
    BY DEF Init, Adopted
  <2> QED
    BY <1>1, <1>4, <2>1 DEF AddrInv, Well, Work, Ending, Tasks
<1> QED
  BY <1>5, <1>6, <1>7, <1>8, <1>9, <1>10, <1>11, <1>12 DEF IInv

LEMMA StutterKeeps ==
  ASSUME IInv, UNCHANGED vars
  PROVE  IInv'
<1>1. /\ UNCHANGED <<pc, loc, flow, inflight, match, nodeDb, completes, sent, mapped, toCome,
                     answers, said>>
      /\ T' = T /\ B' = B /\ M' = M
  BY DEF vars, stackVars, replyVars, T, B, M
<1>2. TypeOK' /\ Places' /\ TasksInv' /\ FlagInv'
  BY <1>1 DEF IInv, TypeOK, Places, TasksInv, FlagInv, Tested, Raised
<1>3. StepInv' /\ LocalInv' /\ AnswerInv'
  BY <1>1 DEF IInv, StepInv, LocalInv, Well, AnswerInv, Waiting
<1>4. AddrInv' /\ AdoptedInv'
  BY <1>1 DEF IInv, AddrInv, AdoptedInv, Well, InUse, Adopted, Undoing
<1> QED
  BY <1>2, <1>3, <1>4 DEF IInv

(* Every state of every run satisfies the invariant, when the client runs  *)
(* its handlers under its lock, the ttl does not expire while the BTC task *)
(* is between the test of s_prov_in_flight and the lowering of it          *)
(* (dp_mesh_provisioner.c:399-403, 440-445), and nothing works between     *)
(* line 611, which raises the flag, and 617, or ends the flow before its   *)
(* match fails.                                                            *)
THEOREM TasksInvariant ==
  ASSUME Calm
  PROVE  Spec => []IInv
<1>1. Init => IInv
  BY InitHolds
<1>2. IInv /\ [Next]_vars => IInv'
  BY TimerKeeps, BtcKeeps, MqttKeeps, FinishingKeeps, ProvisionsKeeps, StutterKeeps DEF Next
<1> QED
  BY <1>1, <1>2, PTL DEF Spec

(* The types of the tasks' state.                                          *)
THEOREM TasksTypes ==
  ASSUME Calm
  PROVE  Spec => []TypeOK
<1>1. IInv => TypeOK
  BY DEF IInv
<1> QED
  BY <1>1, TasksInvariant, PTL

(* No request is answered twice, and when the three tasks are back in      *)
(* their loops every request delivered is answered or in flight, although  *)
(* s_inflight is taken and released without a lock                         *)
(* (dp_gateway_adopt.c:180-240) and the ttl may expire in a callback:      *)
(* outside the two races of Calm, in which a request is answered twice.    *)
THEOREM RequestsAnsweredOnce ==
  ASSUME Calm
  PROVE  Spec => []AnsweredOnce
<1>1. IInv => AnsweredOnce
  BY Names DEF IInv, AnswerInv, Waiting, AnsweredOnce, AllIdle, T, B, M
<1> QED
  BY <1>1, TasksInvariant, PTL

(* When the tasks are back in their loops, the gateway's request is in     *)
(* flight exactly when the mesh's flow is (s_inflight and                  *)
(* s_prov_in_flight), and that flow has a callback and a deadline, so that *)
(* it ends: outside the two races of Calm, after which they may disagree.  *)
THEOREM FlagsStayTogether ==
  ASSUME Calm
  PROVE  Spec => []FlagsAgree
<1>1. IInv => FlagsAgree
  BY Names DEF IInv, FlagInv, FlagsAgree, AllIdle, Ending, T, B, M
<1> QED
  BY <1>1, TasksInvariant, PTL

(* A sensor that was answered ok stays in the stack's database, and its    *)
(* address keeps the berth of that request, whatever later flows undo in   *)
(* prov_finish_err: outside the two races of Calm, in which the ttl        *)
(* deletes a node whose request is then answered ok.                       *)
THEOREM AdoptionsStay ==
  ASSUME Calm
  PROVE  Spec => []AdoptedStays
<1>1. IInv => AdoptedStays
  BY DEF IInv, AdoptedInv, AdoptedStays, InUse
<1> QED
  BY <1>1, TasksInvariant, PTL
=============================================================================
