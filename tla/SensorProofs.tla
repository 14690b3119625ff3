----------------------------- MODULE SensorProofs -----------------------------
(***************************************************************************)
(* Proofs about Sensor and the SensorNode in it, for any filter length,    *)
(* thresholds, intervals and set of faults: types, what the berth light    *)
(* shows, and, as long as the power is not cut in the middle of a          *)
(* configuration, that ready means configured and that what is published   *)
(* is sent.                                                                *)
(***************************************************************************)
EXTENDS Sensor, TLAPS

(* An item waits in a queue.                                               *)
Has(q, item) == \E i \in DOMAIN q : q[i] = item

(* The node.  Out of the network, and with no reset on its way, it has     *)
(* not been in one since the boot; the item "complete" is always first, so *)
(* that the watchdog is armed at most once and has a place in the queue.   *)
NodeInv ==
  /\ readyCalls = IF readyFired THEN 1 ELSE 0
  /\ readyFired => pubArmed
  /\ Has(queue, "reset") => ~provisioned
  /\ ~provisioned /\ ~Has(queue, "reset") => queue = <<>> /\ ~watchdog /\ ~readyFired
  /\ watchdog => Len(queue) < MaxQueue /\ ~Has(queue, "complete")
  /\ Has(queue, "complete") => Len(queue) < MaxQueue
  /\ queue # <<>> => ~Has(Tail(queue), "complete")

(* A configuration is complete when its last item is queued, and the power *)
(* comes back to a node that is configured or blank.                       *)
AllConfigured == provisioned /\ cfg = MODEL_PUB_SET

ConfiguredInv ==
  /\ readyFired \/ Has(queue, "pub-set") => AllConfigured \/ Has(queue, "reset")
  /\ ~up => ~HalfConfigured

(* The main task waits for the ready callback.                             *)
MainInv ==
  /\ mainAt = "start" <=> ~up
  /\ mainAt \notin {"start", "wait"} => readyFired

(* The streak is the number of verdicts at the end of recent that say      *)
(* "in range", and the legs follow the streak.                             *)
StreakInv ==
  /\ streak <= Len(recent)
  /\ \A i \in 1 .. Len(recent) : i > Len(recent) - streak => recent[i]
  /\ streak < Len(recent) => ~recent[Len(recent) - streak]

LegsInv ==
  /\ mainAt = "start" => legs = {}
  /\ mainAt \in {"start", "wait"} => streak = 0
  /\ mainAt = "lit" => legs \subseteq {LegFor(Near(streak))}
  /\ mainAt \notin {"start", "lit"} => legs = {LegFor(Near(streak))}

IInv == TypeOK /\ NodeInv /\ MainInv /\ StreakInv /\ LegsInv
CInv == IInv /\ ConfiguredInv

-----------------------------------------------------------------------------
(* Items in queues.                                                        *)

LEMMA EmptyHas == ASSUME NEW x PROVE ~Has(<<>>, x)
BY DEF Has

LEMMA AppendHas ==
  ASSUME NEW q \in Seq(Items), NEW y \in Items
  PROVE  /\ Append(q, y) \in Seq(Items) /\ Len(Append(q, y)) = Len(q) + 1
         /\ Append(q, y) # <<>>
         /\ \A x : Has(Append(q, y), x) <=> Has(q, x) \/ x = y
<1>1. /\ Append(q, y) \in Seq(Items) /\ Len(Append(q, y)) = Len(q) + 1 /\ Len(q) \in Nat
      /\ \A i \in 1 .. Len(q) : Append(q, y)[i] = q[i]
      /\ Append(q, y)[Len(q) + 1] = y
      /\ DOMAIN q = 1 .. Len(q) /\ DOMAIN Append(q, y) = 1 .. Len(q) + 1
  OBVIOUS
<1>2. ASSUME NEW x PROVE Has(Append(q, y), x) <=> Has(q, x) \/ x = y
  <2>1. ASSUME Has(Append(q, y), x) PROVE Has(q, x) \/ x = y
    BY <1>1, <2>1 DEF Has
  <2>2. ASSUME NEW i \in DOMAIN q, q[i] = x PROVE Has(Append(q, y), x)
    <3>1. i \in DOMAIN Append(q, y) /\ Append(q, y)[i] = x
      BY <1>1, <2>2
    <3> QED
      BY <3>1 DEF Has
  <2>3. ASSUME x = y PROVE Has(Append(q, y), x)
    <3>1. Len(q) + 1 \in DOMAIN Append(q, y)
      BY <1>1
    <3> QED
      BY <1>1, <2>3, <3>1 DEF Has
  <2> QED
    BY <2>1, <2>2, <2>3 DEF Has
<1>3. Append(q, y) # <<>>
  BY <1>1
<1> QED
  BY <1>1, <1>2, <1>3

LEMMA TailHas ==
  ASSUME NEW q \in Seq(Items), q # <<>>
  PROVE  /\ Tail(q) \in Seq(Items) /\ Len(Tail(q)) = Len(q) - 1 /\ Len(q) \in Nat
         /\ Head(q) \in Items
         /\ \A x : Has(q, x) <=> Head(q) = x \/ Has(Tail(q), x)
<1>1. /\ Tail(q) \in Seq(Items) /\ Len(Tail(q)) = Len(q) - 1 /\ Len(q) \in Nat \ {0}
      /\ Head(q) = q[1] /\ Head(q) \in Items
      /\ \A i \in 1 .. Len(q) - 1 : Tail(q)[i] = q[i + 1]
      /\ DOMAIN q = 1 .. Len(q) /\ DOMAIN Tail(q) = 1 .. Len(q) - 1
  OBVIOUS
<1>2. ASSUME NEW x, Has(q, x) PROVE Head(q) = x \/ Has(Tail(q), x)
  <2>1. PICK i \in 1 .. Len(q) : q[i] = x
    BY <1>1, <1>2 DEF Has
  <2>2. CASE i = 1
    BY <1>1, <2>1, <2>2
  <2>3. CASE i # 1
    <3>1. i - 1 \in DOMAIN Tail(q) /\ Tail(q)[i - 1] = x
      BY <1>1, <2>1, <2>3
    <3> QED
      BY <3>1 DEF Has
  <2> QED
    BY <2>2, <2>3
<1>3. ASSUME NEW x, Head(q) = x PROVE Has(q, x)
  <2>1. 1 \in DOMAIN q /\ q[1] = x
    BY <1>1, <1>3
  <2> QED
    BY <2>1 DEF Has
<1>4. ASSUME NEW x, Has(Tail(q), x) PROVE Has(q, x)
  <2>1. PICK i \in 1 .. Len(q) - 1 : Tail(q)[i] = x
    BY <1>1, <1>4 DEF Has
  <2>2. i + 1 \in DOMAIN q /\ q[i + 1] = x
    BY <1>1, <2>1
  <2> QED
    BY <2>2 DEF Has
<1> QED
  BY <1>1, <1>2, <1>3, <1>4

(* The tail of a queue that has been appended to.                          *)
LEMMA TailOfAppend ==
  ASSUME NEW q \in Seq(Items), NEW y \in Items
  PROVE  /\ q = <<>> => Tail(Append(q, y)) = <<>>
         /\ q # <<>> => Tail(Append(q, y)) = Append(Tail(q), y)
OBVIOUS

LEMMA BehindAppend ==
  ASSUME NEW q \in Seq(Items), NEW y \in Items, NEW x, x # y,
         Has(Tail(Append(q, y)), x)
  PROVE  q # <<>> /\ Has(Tail(q), x)
<1>1. CASE q = <<>>
  <2>1. Tail(Append(q, y)) = <<>>
    BY <1>1, TailOfAppend
  <2> QED
    BY <2>1, EmptyHas
<1>2. CASE q # <<>>
  <2>1. Tail(q) \in Seq(Items) /\ Has(Append(Tail(q), y), x)
    BY <1>2, TailOfAppend, TailHas
  <2>2. Has(Append(Tail(q), y), x) <=> Has(Tail(q), x) \/ x = y
    BY <2>1, AppendHas
  <2> QED
    BY <1>2, <2>1, <2>2
<1> QED
  BY <1>1, <1>2

-----------------------------------------------------------------------------
(* The node's own steps.                                                   *)

LEMMA RestartKeeps ==
  ASSUME NodeTypeOK, Restarts, UNCHANGED <<provisioned, cfg>> \/ Blank'
  PROVE  NodeTypeOK' /\ NodeInv'
<1>1. MaxQueue \in Nat \ {0}
  BY QueueAssumption
<1>2. <<>> \in Seq(Items) /\ Len(<<>>) = 0
  OBVIOUS
<1>3. provisioned' \in BOOLEAN
  BY DEF NodeTypeOK, Blank
<1>4. cfg' \in 0 .. MODEL_PUB_SET
  BY DEF NodeTypeOK, Blank, MODEL_PUB_SET
<1>5. NodeTypeOK'
  <2>1. /\ up' \in BOOLEAN /\ readyFired' \in BOOLEAN /\ pubArmed' \in BOOLEAN
        /\ watchdog' \in BOOLEAN
    BY Zenon DEF Restarts
  <2>2. readyCalls' \in 0 .. 1 /\ queue' \in Seq(Items) /\ Len(queue') <= MaxQueue
    BY <1>1, <1>2 DEF Restarts
  <2> QED
    BY <1>3, <1>4, <2>1, <2>2 DEF NodeTypeOK
<1>6. NodeInv'
  BY <1>1, <1>2, EmptyHas DEF NodeInv, Restarts
<1> QED
  BY <1>5, <1>6

LEMMA FireReadyTypes ==
  ASSUME NodeTypeOK, NodeInv,
         UNCHANGED <<readyFired, pubArmed, watchdog, readyCalls>> \/ FireReady
  PROVE  /\ readyFired' \in BOOLEAN /\ pubArmed' \in BOOLEAN /\ watchdog' \in BOOLEAN
         /\ readyCalls' \in 0 .. 1
<1>1. CASE UNCHANGED <<readyFired, pubArmed, watchdog, readyCalls>>
  BY <1>1 DEF NodeTypeOK
<1>2. CASE ~readyFired /\ FireReady
  <2>1. readyFired' = TRUE /\ pubArmed' = TRUE /\ watchdog' = FALSE
    BY <1>2 DEF FireReady
  <2>2. readyCalls' = 1
    BY <1>2 DEF FireReady, NodeInv
  <2>3. readyFired' \in BOOLEAN /\ pubArmed' \in BOOLEAN /\ watchdog' \in BOOLEAN
    BY <2>1, Zenon
  <2> QED
    BY <2>2, <2>3
<1> QED
  BY <1>1, <1>2 DEF FireReady

LEMMA BootKeepsNode ==
  ASSUME NodeTypeOK, NodeInv, Boot
  PROVE  NodeTypeOK' /\ NodeInv'
<1>1. UNCHANGED <<readyFired, pubArmed, watchdog, readyCalls>> \/ (FireReady /\ provisioned)
  BY DEF Boot, RestoresReady
<1>2. NodeTypeOK'
  BY <1>1, FireReadyTypes DEF NodeTypeOK, Boot
<1>3. NodeInv'
  BY <1>1 DEF NodeInv, Boot, FireReady
<1> QED
  BY <1>2, <1>3

LEMMA PublishKeepsNode ==
  ASSUME NodeTypeOK, NodeInv, NEW sends, Publish(sends)
  PROVE  NodeTypeOK' /\ NodeInv'
BY DEF NodeTypeOK, NodeInv, Publish, nodeVars

(* An item of the network is appended: there is room for it.               *)
LEMMA ProvisionedKeeps ==
  ASSUME NodeTypeOK, NodeInv, Provisioned
  PROVE  NodeTypeOK' /\ NodeInv'
<1>1. /\ queue = <<>> /\ ~watchdog /\ ~readyFired /\ ~Has(queue, "reset")
  BY DEF Provisioned, NodeInv, Has
<1>2. queue' = <<"complete">> /\ Tail(queue') = <<>> /\ queue' \in Seq(Items)
      /\ Len(queue') = 1 /\ 1 < MaxQueue
  BY <1>1, QueueAssumption DEF Provisioned, Items, Room
<1>3. ~Has(queue', "reset")
  BY <1>2 DEF Has
<1> QED
  <2>1. NodeTypeOK'
    BY <1>2, QueueAssumption DEF NodeTypeOK, Provisioned, MODEL_PUB_SET
  <2>2. NodeInv'
    BY <1>1, <1>2, <1>3, EmptyHas DEF NodeInv, Provisioned
  <2> QED
    BY <2>1, <2>2

LEMMA ConfiguredKeeps ==
  ASSUME NodeTypeOK, NodeInv, NEW op \in 1 .. MODEL_PUB_SET, Configured(op)
  PROVE  NodeTypeOK' /\ NodeInv'
<1> DEFINE y == CfgEventOf[op]
<1>1. y \in Items /\ y \notin {"complete", "reset"}
  BY DEF CfgEventOf, MODEL_PUB_SET, Items
<1>2. queue \in Seq(Items) /\ queue' = Append(queue, y)
  BY DEF NodeTypeOK, Configured
<1> HIDE DEF y
<1>3. /\ queue' \in Seq(Items) /\ Len(queue') = Len(queue) + 1 /\ Len(queue) \in Nat
      /\ Has(queue', "complete") <=> Has(queue, "complete")
      /\ Has(queue', "reset") <=> Has(queue, "reset")
  BY <1>1, <1>2, AppendHas
<1>4. Has(Tail(queue'), "complete") => queue # <<>> /\ Has(Tail(queue), "complete")
  BY <1>1, <1>2, BehindAppend
<1>5. Len(queue') < MaxQueue /\ cfg' \in 0 .. MODEL_PUB_SET /\ provisioned
  BY <1>3, QueueAssumption DEF Configured, Room, NodeTypeOK, MODEL_PUB_SET
<1> QED
  BY <1>3, <1>4, <1>5, QueueAssumption DEF NodeTypeOK, NodeInv, Configured

(* The node leaves the network.                                            *)
LEMMA LeavesKeeps ==
  ASSUME NodeTypeOK, NodeInv, NEW rest \in Seq(Items), Leaves(rest), provisioned,
         UNCHANGED <<up, readyFired, pubArmed, watchdog, readyCalls>>,
         (rest = queue /\ Room) \/ (queue # <<>> /\ rest = Tail(queue))
  PROVE  NodeTypeOK' /\ NodeInv' /\ Has(queue', "reset")
<1>1. queue' = Append(rest, "reset") /\ "reset" \in Items /\ queue \in Seq(Items)
  BY DEF Leaves, Items, NodeTypeOK
<1>2. /\ queue' \in Seq(Items) /\ Len(queue') = Len(rest) + 1
      /\ Has(queue', "reset") /\ (Has(queue', "complete") <=> Has(rest, "complete"))
  BY <1>1, AppendHas
<1>3. Has(Tail(queue'), "complete") => rest # <<>> /\ Has(Tail(rest), "complete")
  BY <1>1, BehindAppend
<1>4. Len(queue) \in Nat /\ Len(rest) \in Nat /\ Len(queue) <= MaxQueue /\ MaxQueue \in Nat
  BY <1>1, QueueAssumption DEF NodeTypeOK
<1>5. CASE rest = queue /\ Room
  <2>1. Len(queue') < MaxQueue
    BY <1>2, <1>4, <1>5 DEF Room
  <2>2. NodeTypeOK'
    <3>1. queue' \in Seq(Items) /\ Len(queue') <= MaxQueue
      BY <1>2, <1>4, <2>1
    <3>2. provisioned' \in BOOLEAN
      BY DEF Leaves
    <3>3. cfg' \in 0 .. MODEL_PUB_SET
      BY DEF Leaves, MODEL_PUB_SET
    <3> QED
      BY <3>1, <3>2, <3>3 DEF NodeTypeOK
  <2>3. NodeInv'
    BY <1>2, <1>3, <1>5, <2>1 DEF NodeInv, Leaves
  <2> QED
    BY <1>2, <2>2, <2>3
<1>6. CASE queue # <<>> /\ rest = Tail(queue)
  <2>1. /\ Len(queue') = Len(queue) /\ (Has(queue', "complete") => Has(queue, "complete"))
        /\ ~Has(rest, "complete")
    BY <1>1, <1>2, <1>6, TailHas DEF NodeInv
  <2>2. ~Has(Tail(queue'), "complete")
    BY <1>3, <2>1, TailHas
  <2>3. NodeTypeOK'
    <3>1. queue' \in Seq(Items) /\ Len(queue') <= MaxQueue
      BY <1>2, <1>4, <2>1
    <3>2. provisioned' \in BOOLEAN
      BY DEF Leaves
    <3>3. cfg' \in 0 .. MODEL_PUB_SET
      BY DEF Leaves, MODEL_PUB_SET
    <3> QED
      BY <3>1, <3>2, <3>3 DEF NodeTypeOK
  <2>4. NodeInv'
    BY <1>2, <2>1, <2>2 DEF NodeInv, Leaves
  <2> QED
    BY <1>2, <2>3, <2>4
<1> QED
  BY <1>5, <1>6

(* The queue without its first item.                                       *)
LEMMA TailKeeps ==
  ASSUME NodeTypeOK, NodeInv, queue # <<>>, queue' = Tail(queue), Head(queue) # "reset"
  PROVE  /\ queue' \in Seq(Items) /\ Len(queue') < Len(queue) /\ Len(queue) <= MaxQueue
         /\ Len(queue') \in Nat /\ Len(queue) \in Nat /\ Len(queue') < MaxQueue
         /\ ~Has(queue', "complete") /\ (queue' # <<>> => ~Has(Tail(queue'), "complete"))
         /\ Has(queue', "reset") <=> Has(queue, "reset")
         /\ provisioned \/ Has(queue', "reset")
<1>1. queue \in Seq(Items) /\ Len(queue) <= MaxQueue /\ MaxQueue \in Nat
  BY QueueAssumption DEF NodeTypeOK
<1>2. /\ queue' \in Seq(Items) /\ Len(queue') = Len(queue) - 1
      /\ Has(queue', "reset") <=> Has(queue, "reset")
  BY <1>1, TailHas
<1>3. ~Has(queue', "complete") /\ (provisioned \/ Has(queue', "reset"))
  BY <1>2 DEF NodeInv
<1>4. queue' # <<>> => ~Has(Tail(queue'), "complete")
  BY <1>2, <1>3, TailHas
<1>5. Len(queue) \in Nat /\ Len(queue') \in Nat
  BY <1>1, <1>2
<1> QED
  BY <1>1, <1>2, <1>3, <1>4, <1>5

LEMMA LocalResetKeeps ==
  ASSUME NodeTypeOK, NodeInv, OnLocalReset
  PROVE  NodeTypeOK' /\ NodeInv' /\ (provisioned' => UNCHANGED cfg)
<1>1. CASE provisioned
  <2>1. Tail(queue) \in Seq(Items) /\ Leaves(Tail(queue)) /\ queue # <<>>
    BY <1>1, TailHas DEF OnLocalReset, NodeTypeOK
  <2>2. NodeTypeOK' /\ NodeInv'
    BY <1>1, <2>1, LeavesKeeps DEF OnLocalReset
  <2> QED
    BY <2>1, <2>2 DEF Leaves
<1>2. CASE ~provisioned
  <2>1. queue # <<>> /\ queue' = Tail(queue) /\ Head(queue) # "reset"
    BY <1>2 DEF OnLocalReset
  <2>2. /\ queue' \in Seq(Items) /\ Len(queue') \in Nat /\ Len(queue') < MaxQueue
        /\ ~Has(queue', "complete") /\ (queue' # <<>> => ~Has(Tail(queue'), "complete"))
        /\ Has(queue', "reset") <=> Has(queue, "reset")
        /\ provisioned \/ Has(queue', "reset")
    BY <2>1, TailKeeps
  <2>3. NodeTypeOK'
    BY <1>2, <2>2, QueueAssumption DEF OnLocalReset, NodeTypeOK
  <2>4. NodeInv'
    BY <1>2, <2>2 DEF OnLocalReset, NodeInv
  <2> QED
    BY <1>2, <2>3, <2>4 DEF OnLocalReset
<1> QED
  BY <1>1, <1>2

LEMMA CompleteKeeps ==
  ASSUME NodeTypeOK, NodeInv, OnComplete
  PROVE  NodeTypeOK' /\ NodeInv'
<1>1. queue # <<>> /\ queue' = Tail(queue) /\ Head(queue) # "reset"
  BY DEF OnComplete
<1>2. /\ queue' \in Seq(Items) /\ Len(queue') \in Nat /\ Len(queue') < MaxQueue
      /\ ~Has(queue', "complete") /\ (queue' # <<>> => ~Has(Tail(queue'), "complete"))
      /\ Has(queue', "reset") <=> Has(queue, "reset")
      /\ provisioned \/ Has(queue', "reset")
  BY <1>1, TailKeeps
<1>3. NodeTypeOK'
  BY <1>2, QueueAssumption DEF OnComplete, ArmsWatchdog, NodeTypeOK
<1>4. NodeInv'
  BY <1>2 DEF OnComplete, ArmsWatchdog, NodeInv
<1> QED
  BY <1>3, <1>4

LEMMA CfgServerKeeps ==
  ASSUME NodeTypeOK, NodeInv, OnCfgServer
  PROVE  NodeTypeOK' /\ NodeInv'
<1>1. queue # <<>> /\ queue' = Tail(queue) /\ Head(queue) # "reset"
  BY DEF OnCfgServer
<1>2. UNCHANGED <<readyFired, pubArmed, watchdog, readyCalls>> \/ FireReady
  BY DEF OnCfgServer
<1>3. /\ queue' \in Seq(Items) /\ Len(queue') \in Nat /\ Len(queue') < MaxQueue
      /\ ~Has(queue', "complete") /\ (queue' # <<>> => ~Has(Tail(queue'), "complete"))
      /\ Has(queue', "reset") <=> Has(queue, "reset")
      /\ provisioned \/ Has(queue', "reset")
  BY <1>1, TailKeeps
<1>4. NodeTypeOK'
  <2>1. queue' \in Seq(Items) /\ Len(queue') <= MaxQueue
    BY <1>3, QueueAssumption
  <2>2. /\ readyFired' \in BOOLEAN /\ pubArmed' \in BOOLEAN /\ watchdog' \in BOOLEAN
        /\ readyCalls' \in 0 .. 1
    BY <1>2, FireReadyTypes
  <2> QED
    BY <2>1, <2>2 DEF OnCfgServer, NodeTypeOK
<1>5. NodeInv'
  BY <1>2, <1>3 DEF OnCfgServer, FireReady, NodeInv
<1> QED
  BY <1>4, <1>5

LEMMA WatchdogKeeps ==
  ASSUME NodeTypeOK, NodeInv, WatchdogExpires
  PROVE  NodeTypeOK' /\ NodeInv'
<1>1. CASE UNCHANGED queue
  BY <1>1 DEF WatchdogExpires, NodeTypeOK, NodeInv
<1>2. CASE queue' = Append(queue, "local-reset")
  <2>1. queue \in Seq(Items) /\ "local-reset" \in Items /\ Len(queue) \in Nat /\ MaxQueue \in Nat
    BY QueueAssumption DEF NodeTypeOK, Items
  <2>2. /\ queue' \in Seq(Items) /\ Len(queue') = Len(queue) + 1
        /\ Has(queue', "reset") <=> Has(queue, "reset")
        /\ Has(queue', "complete") <=> Has(queue, "complete")
    BY <1>2, <2>1, AppendHas
  <2>3. ~Has(queue', "complete") /\ Len(queue') <= MaxQueue
    BY <2>1, <2>2 DEF NodeInv, WatchdogExpires
  <2>4. queue' # <<>> => ~Has(Tail(queue'), "complete")
    BY <2>2, <2>3, TailHas
  <2> QED
    BY <2>2, <2>3, <2>4 DEF WatchdogExpires, NodeTypeOK, NodeInv
<1> QED
  BY <1>1, <1>2 DEF WatchdogExpires

LEMMA NodeStepsKeep ==
  ASSUME NodeTypeOK, NodeInv, NodeSteps
  PROVE  NodeTypeOK' /\ NodeInv' /\ UNCHANGED up
<1>1. CASE Provisioned
  BY <1>1, ProvisionedKeeps DEF Provisioned
<1>2. ASSUME NEW op \in 1 .. MODEL_PUB_SET, Configured(op)
      PROVE  NodeTypeOK' /\ NodeInv' /\ UNCHANGED up
  BY <1>2, ConfiguredKeeps DEF Configured
<1>3. CASE NodeReset
  <2>1. queue \in Seq(Items) /\ Leaves(queue) /\ Room
    BY <1>3 DEF NodeReset, NodeTypeOK
  <2> QED
    BY <1>3, <2>1, LeavesKeeps DEF NodeReset
<1>4. CASE OnLocalReset
  BY <1>4, LocalResetKeeps DEF OnLocalReset
<1>5. CASE OnComplete
  BY <1>5, CompleteKeeps DEF OnComplete
<1>6. CASE OnCfgServer
  BY <1>6, CfgServerKeeps DEF OnCfgServer
<1>7. CASE WatchdogExpires
  BY <1>7, WatchdogKeeps DEF WatchdogExpires
<1> QED
  BY <1>1, <1>2, <1>3, <1>4, <1>5, <1>6, <1>7 DEF NodeSteps

LEMMA NodeRestartsKeep ==
  ASSUME NodeTypeOK, NodeInv, NodeRestarts \/ FactoryReset
  PROVE  NodeTypeOK' /\ NodeInv' /\ ~up' /\ ~readyFired' /\ queue' = <<>>
<1>1. Restarts /\ (UNCHANGED <<provisioned, cfg>> \/ Blank')
  BY DEF NodeRestarts, OnReset, WatchdogWipes, Reboot, FactoryReset, Blank
<1> QED
  BY <1>1, RestartKeeps DEF Restarts

-----------------------------------------------------------------------------
(* The configuration.                                                      *)

LEMMA ProvisionedConfigures ==
  ASSUME NodeTypeOK, NodeInv, Provisioned
  PROVE  ConfiguredInv'
<1>1. /\ queue = <<>> /\ ~readyFired /\ up
  BY DEF Provisioned, NodeInv, Has
<1>2. queue' = <<"complete">> /\ ~readyFired' /\ up'
  BY <1>1 DEF Provisioned
<1>3. ~Has(queue', "pub-set")
  BY <1>2 DEF Has
<1> QED
  BY <1>2, <1>3 DEF ConfiguredInv

LEMMA ConfiguredConfigures ==
  ASSUME NodeTypeOK, ConfiguredInv, NEW op \in 1 .. MODEL_PUB_SET, Configured(op)
  PROVE  ConfiguredInv'
<1>1. queue \in Seq(Items) /\ queue' = Append(queue, CfgEventOf[op]) /\ CfgEventOf[op] \in Items
  BY DEF NodeTypeOK, Configured, CfgEventOf, MODEL_PUB_SET, Items
<1>2. /\ Has(queue, "reset") => Has(queue', "reset")
      /\ Has(queue', "pub-set") => Has(queue, "pub-set") \/ op = MODEL_PUB_SET
  <2>1. CfgEventOf[op] = "pub-set" => op = MODEL_PUB_SET
    BY DEF CfgEventOf, MODEL_PUB_SET
  <2> QED
    BY <1>1, <2>1, AppendHas
<1>3. cfg = MODEL_PUB_SET \/ op = MODEL_PUB_SET => cfg' = MODEL_PUB_SET
  BY DEF Configured, NodeTypeOK, MODEL_PUB_SET
<1>4. provisioned /\ provisioned' /\ (readyFired' <=> readyFired) /\ up'
  BY DEF Configured
<1> QED
  BY <1>2, <1>3, <1>4 DEF ConfiguredInv, AllConfigured

LEMMA LeavingConfigures ==
  ASSUME NEW rest \in Seq(Items), Leaves(rest)
  PROVE  ConfiguredInv'
<1>1. Has(queue', "reset")
  BY AppendHas DEF Leaves, Items
<1>2. ~provisioned'
  BY DEF Leaves
<1> QED
  BY <1>1, <1>2 DEF ConfiguredInv, HalfConfigured

(* An item is taken off; if it made the sensor ready it was "pub-set".     *)
LEMMA TailConfigures ==
  ASSUME NodeTypeOK, NodeInv, ConfiguredInv, queue # <<>>, queue' = Tail(queue),
         Head(queue) # "reset", UNCHANGED <<provisioned, cfg, up>>,
         readyFired' => readyFired \/ Head(queue) = "pub-set"
  PROVE  ConfiguredInv'
<1>1. /\ Has(queue', "reset") <=> Has(queue, "reset")
      /\ readyFired' \/ Has(queue', "pub-set") => readyFired \/ Has(queue, "pub-set")
  BY TailHas DEF NodeTypeOK
<1> QED
  BY <1>1 DEF ConfiguredInv, AllConfigured, HalfConfigured

LEMMA NodeStepsConfigure ==
  ASSUME NodeTypeOK, NodeInv, ConfiguredInv, NodeSteps
  PROVE  ConfiguredInv'
<1>1. CASE Provisioned
  BY <1>1, ProvisionedConfigures
<1>2. ASSUME NEW op \in 1 .. MODEL_PUB_SET, Configured(op) PROVE ConfiguredInv'
  BY <1>2, ConfiguredConfigures
<1>3. CASE NodeReset
  BY <1>3, LeavingConfigures DEF NodeReset, NodeTypeOK
<1>4. CASE OnLocalReset
  <2>1. CASE provisioned
    BY <1>4, <2>1, LeavingConfigures, TailHas DEF OnLocalReset, NodeTypeOK
  <2>2. CASE ~provisioned
    BY <1>4, <2>2, TailConfigures DEF OnLocalReset
  <2> QED
    BY <2>1, <2>2
<1>5. CASE OnComplete
  BY <1>5, TailConfigures DEF OnComplete
<1>6. CASE OnCfgServer
  <2>1. readyFired' => readyFired \/ Head(queue) = "pub-set"
    BY <1>6 DEF OnCfgServer, MakesReady
  <2> QED
    BY <1>6, <2>1, TailConfigures DEF OnCfgServer
<1>7. CASE WatchdogExpires
  <2>1. /\ Has(queue', "reset") <=> Has(queue, "reset")
        /\ Has(queue', "pub-set") <=> Has(queue, "pub-set")
    <3>1. queue \in Seq(Items) /\ "local-reset" \in Items
      BY DEF NodeTypeOK, Items
    <3>2. queue' = queue \/ queue' = Append(queue, "local-reset")
      BY <1>7 DEF WatchdogExpires
    <3>3. \A x : Has(Append(queue, "local-reset"), x) <=> Has(queue, x) \/ x = "local-reset"
      BY ONLY <3>1, AppendHas
    <3> QED
      BY <3>2, <3>3
  <2> QED
    BY <1>7, <2>1 DEF WatchdogExpires, ConfiguredInv, AllConfigured, HalfConfigured
<1> QED
  BY <1>1, <1>2, <1>3, <1>4, <1>5, <1>6, <1>7 DEF NodeSteps

LEMMA BootConfigures ==
  ASSUME NodeTypeOK, ConfiguredInv, Boot
  PROVE  ConfiguredInv'
<1>1. provisioned => AllConfigured
  BY DEF ConfiguredInv, HalfConfigured, AllConfigured, Boot, NodeTypeOK, MODEL_PUB_SET
<1>2. /\ (readyFired' => readyFired \/ provisioned)
      /\ UNCHANGED <<provisioned, cfg, queue>> /\ up'
  BY DEF Boot, RestoresReady
<1> QED
  BY <1>1, <1>2 DEF ConfiguredInv, AllConfigured

LEMMA RestartConfigures ==
  ASSUME "reboot-in-cfg" \notin Faults, NodeRestarts \/ FactoryReset
  PROVE  ConfiguredInv'
<1>1. /\ ~readyFired' /\ queue' = <<>>
      /\ ~provisioned' \/ (~HalfConfigured /\ UNCHANGED <<provisioned, cfg>>)
  BY DEF NodeRestarts, OnReset, WatchdogWipes, Reboot, FactoryReset, Restarts
<1> QED
  BY <1>1, EmptyHas DEF ConfiguredInv, HalfConfigured

-----------------------------------------------------------------------------
(* The filter and the berth light.                                         *)

Bools == Seq(BOOLEAN)

LEMMA StreakStep ==
  ASSUME StreakInv, streak \in 0 .. PROX_FRAMES, recent \in Bools, Len(recent) <= PROX_FRAMES,
         NEW v \in BOOLEAN, streak' = StreakAfter(v),
         recent' = KeepLast(Append(recent, v), PROX_FRAMES)
  PROVE  /\ StreakInv' /\ streak' \in 0 .. PROX_FRAMES
         /\ recent' \in Bools /\ Len(recent') <= PROX_FRAMES
<1> DEFINE n == Len(recent)
           s == Append(recent, v)
<1>1. PROX_FRAMES \in Nat \ {0} /\ n \in Nat
  BY LoopAssumption DEF Bools
<1>2. /\ s \in Bools /\ Len(s) = n + 1 /\ s[n + 1] = v
      /\ \A i \in 1 .. n : s[i] = recent[i]
  BY DEF Bools
<1> HIDE DEF s
(* recent' is s, or s without its first verdict.                           *)
<1>3. \E k \in {0, 1} :
        /\ recent' \in Bools /\ Len(recent') = n + 1 - k /\ n + 1 - k <= PROX_FRAMES
        /\ k = 1 => n = PROX_FRAMES
        /\ \A i \in 1 .. n + 1 - k : recent'[i] = s[i + k]
  <2>1. CASE n < PROX_FRAMES
    <3>1. recent' = s
      BY <1>1, <1>2, <2>1 DEF KeepLast, s
    <3> QED
      BY <1>1, <1>2, <2>1, <3>1
  <2>2. CASE n = PROX_FRAMES
    <3>1. recent' = SubSeq(s, 2, n + 1)
      <4>1. ~(Len(s) <= PROX_FRAMES) /\ Len(s) - PROX_FRAMES + 1 = 2 /\ Len(s) = n + 1
        BY <1>1, <1>2, <2>2
      <4> QED
        BY <4>1 DEF KeepLast, s
    <3>2. /\ recent' \in Bools /\ Len(recent') = n
          /\ \A i \in 1 .. n : recent'[i] = s[i + 1]
      BY <1>1, <1>2, <3>1 DEF Bools
    <3> QED
      BY <1>1, <2>2, <3>2
  <2> QED
    BY <1>1, <2>1, <2>2
<1>4. PICK k \in {0, 1} :
        /\ recent' \in Bools /\ Len(recent') = n + 1 - k /\ n + 1 - k <= PROX_FRAMES
        /\ k = 1 => n = PROX_FRAMES
        /\ \A i \in 1 .. n + 1 - k : recent'[i] = s[i + k]
  BY <1>3
<1>5. CASE ~v
  <2>1. streak' = 0
    BY <1>5 DEF StreakAfter
  <2>2. ~recent'[Len(recent')]
    BY <1>1, <1>2, <1>4, <1>5
  <2> QED
    BY <1>1, <1>4, <2>1, <2>2 DEF StreakInv
<1>6. CASE v
  <2>1. streak' = IF streak < PROX_FRAMES THEN streak + 1 ELSE streak
    BY <1>6 DEF StreakAfter
  <2>2. streak' \in 0 .. PROX_FRAMES /\ streak' <= Len(recent')
    BY <1>1, <1>4, <2>1 DEF StreakInv
  <2>3. ASSUME NEW i \in 1 .. Len(recent'), i > Len(recent') - streak' PROVE recent'[i]
    <3>1. i + k \in 1 .. n + 1 /\ recent'[i] = s[i + k]
      BY <1>1, <1>4, <2>3
    <3>2. CASE i + k = n + 1
      BY <1>2, <1>6, <3>1, <3>2
    <3>3. CASE i + k # n + 1
      <4>1. i + k \in 1 .. n
        BY <1>1, <3>1, <3>3
      <4>2. streak' <= streak + 1 /\ streak' \in Nat /\ streak \in Nat /\ i \in Nat /\ k \in Nat
        BY <1>1, <2>1, <2>2
      <4>3. i > n + 1 - k - streak'
        BY <1>1, <1>4, <2>3, <4>2
      <4>4. i + k > n - streak
        BY <1>1, <4>2, <4>3
      <4>5. recent[i + k]
        BY <4>1, <4>4 DEF StreakInv
      <4> QED
        BY <1>2, <3>1, <4>1, <4>5
    <3> QED
      BY <3>2, <3>3
  <2>4. ASSUME streak' < Len(recent') PROVE ~recent'[Len(recent') - streak']
    <3>1. /\ streak' = streak + 1 /\ streak < n
          /\ Len(recent') - streak' \in 1 .. n + 1 - k
          /\ Len(recent') - streak' + k = n - streak
          /\ n - streak \in 1 .. n
      BY <1>1, <1>4, <2>1, <2>2, <2>4
    <3>2. recent'[Len(recent') - streak'] = recent[n - streak]
      BY <1>2, <1>4, <3>1
    <3> QED
      BY <3>1, <3>2 DEF StreakInv
  <2> QED
    BY <1>4, <2>2, <2>3, <2>4 DEF StreakInv
<1> QED
  BY <1>5, <1>6

(* The verdict of the filter, told from the frames.                        *)
LEMMA NearIs ==
  ASSUME StreakInv, streak \in 0 .. PROX_FRAMES, recent \in Bools, Len(recent) <= PROX_FRAMES
  PROVE  Near(streak) <=> Len(recent) = PROX_FRAMES /\ \A i \in DOMAIN recent : recent[i]
<1>1. PROX_FRAMES \in Nat \ {0} /\ Len(recent) \in Nat /\ DOMAIN recent = 1 .. Len(recent)
  BY LoopAssumption DEF Bools
<1>0. PROX_FRAMES \in Nat /\ Len(recent) \in Nat
  BY <1>1
<1> DEFINE Full == Len(recent) = PROX_FRAMES /\ \A i \in DOMAIN recent : recent[i]
<1>2. ASSUME streak >= PROX_FRAMES PROVE Full
  <2>1. streak = PROX_FRAMES /\ Len(recent) = PROX_FRAMES
    <3>1. streak <= Len(recent)
      BY DEF StreakInv
    <3>2. streak = PROX_FRAMES
      BY <1>1, <1>2
    <3>3. Len(recent) = PROX_FRAMES
      BY <1>0, <3>1, <3>2
    <3> QED
      BY <3>2, <3>3
  <2>2. \A i \in 1 .. Len(recent) : recent[i]
    <3>1. \A i \in 1 .. Len(recent) : i > Len(recent) - streak
      BY <1>1, <2>1
    <3> QED
      BY <3>1 DEF StreakInv
  <2> QED
    BY <1>1, <2>1, <2>2
<1>3. ASSUME Full PROVE streak >= PROX_FRAMES
  <2>1. SUFFICES ASSUME streak < PROX_FRAMES PROVE FALSE
    BY <1>1
  <2>2. Len(recent) - streak \in DOMAIN recent
    BY <1>1, <1>3, <2>1
  <2> QED
    BY <1>3, <2>1, <2>2 DEF StreakInv
<1> HIDE DEF Full
<1>4. Near(streak) <=> Full
  BY <1>2, <1>3 DEF Near
<1> QED
  BY <1>4 DEF Full

-----------------------------------------------------------------------------
(* The whole sensor.                                                       *)

LoopTypes ==
  /\ mainAt \in {"start", "wait", "read", "lit", "status", "diag"}
  /\ failures \in 0 .. RECOVERY_THRESHOLD - 1
  /\ age \in 0 .. PublishRounds
  /\ reported \in {"none", "free", "occupied"}

FilterTypes ==
  /\ streak \in 0 .. PROX_FRAMES
  /\ legs \subseteq {"green", "red"}
  /\ recent \in Bools /\ Len(recent) <= PROX_FRAMES

WorldTypes ==
  /\ held \in 0 .. HoldPolls - 1
  /\ pressed \in BOOLEAN /\ inRange \in BOOLEAN /\ reporting \in BOOLEAN

LEMMA IInvParts ==
  IInv <=> /\ NodeTypeOK /\ LoopTypes /\ FilterTypes /\ WorldTypes
           /\ NodeInv /\ MainInv /\ StreakInv /\ LegsInv
BY DEF IInv, TypeOK, LoopTypes, FilterTypes, WorldTypes, Bools

LEMMA IInvPartsNext ==
  IInv' <=> /\ NodeTypeOK' /\ LoopTypes' /\ FilterTypes' /\ WorldTypes'
            /\ NodeInv' /\ MainInv' /\ StreakInv' /\ LegsInv'
BY DEF IInv, TypeOK, LoopTypes, FilterTypes, WorldTypes, Bools

FilterVars == <<mainAt, streak, legs, recent>>

LEMMA FilterKept ==
  ASSUME FilterTypes, StreakInv, LegsInv, UNCHANGED FilterVars
  PROVE  FilterTypes' /\ StreakInv' /\ LegsInv'
BY DEF FilterVars, FilterTypes, StreakInv, LegsInv

LEMMA WorldKept ==
  ASSUME WorldTypes, UNCHANGED <<held, worldVars>>
  PROVE  WorldTypes'
BY DEF WorldTypes, worldVars

LEMMA NodeKept ==
  ASSUME NodeTypeOK, NodeInv, UNCHANGED nodeVars
  PROVE  NodeTypeOK' /\ NodeInv' /\ UNCHANGED <<up, readyFired>>
BY DEF NodeTypeOK, NodeInv, nodeVars

LEMMA ReadyStays ==
  ASSUME NodeSteps, readyFired
  PROVE  readyFired'
BY DEF NodeSteps, Provisioned, Configured, NodeReset, OnLocalReset, OnComplete, OnCfgServer,
       FireReady, WatchdogExpires

(* The other tasks leave the main task where it is.                        *)
LEMMA NodeStepKeeps ==
  ASSUME IInv, NodeSteps, UNCHANGED <<mainVars, held, worldVars>>
  PROVE  IInv'
<1>1. NodeTypeOK' /\ NodeInv' /\ up' = up
  BY NodeStepsKeep, IInvParts
<1>2. UNCHANGED <<mainAt, failures, age, reported>> /\ UNCHANGED FilterVars
  BY DEF mainVars, FilterVars
<1>3. FilterTypes' /\ StreakInv' /\ LegsInv' /\ WorldTypes'
  BY <1>2, FilterKept, WorldKept, IInvParts
<1>4. LoopTypes'
  BY <1>2, IInvParts DEF LoopTypes
<1>5. MainInv'
  BY <1>1, <1>2, ReadyStays, IInvParts DEF MainInv
<1> QED
  BY <1>1, <1>3, <1>4, <1>5, IInvPartsNext

LEMMA RestartedTasks ==
  ASSUME WorldTypes, TasksRestart
  PROVE  LoopTypes' /\ FilterTypes' /\ WorldTypes' /\ StreakInv' /\ LegsInv' /\ mainAt' = "start"
<1>1. /\ RECOVERY_THRESHOLD \in Nat \ {0} /\ PublishRounds \in Nat \ {0}
      /\ HoldPolls \in Nat \ {0} /\ PROX_FRAMES \in Nat \ {0}
  BY LoopAssumption
<1>2. <<>> \in Bools /\ Len(<<>>) = 0
  BY DEF Bools
<1>3. LoopTypes'
  BY <1>1 DEF TasksRestart, LoopTypes
<1>4. FilterTypes'
  BY <1>1, <1>2 DEF TasksRestart, FilterTypes
<1>5. WorldTypes'
  BY <1>1 DEF TasksRestart, WorldTypes, worldVars
<1>6. StreakInv' /\ LegsInv'
  BY <1>2 DEF TasksRestart, StreakInv, LegsInv
<1> QED
  BY <1>3, <1>4, <1>5, <1>6 DEF TasksRestart

LEMMA RestartStep ==
  ASSUME IInv, NodeRestarts \/ FactoryReset, TasksRestart
  PROVE  IInv'
<1>1. NodeTypeOK' /\ NodeInv' /\ ~up'
  BY NodeRestartsKeep, IInvParts
<1>2. LoopTypes' /\ FilterTypes' /\ WorldTypes' /\ StreakInv' /\ LegsInv' /\ mainAt' = "start"
  BY RestartedTasks, IInvParts
<1>3. MainInv'
  BY <1>1, <1>2 DEF MainInv
<1> QED
  BY <1>1, <1>2, <1>3, IInvPartsNext

-----------------------------------------------------------------------------
(* The steps of the main task.                                             *)

LEMMA LegsDiffer == LegFor(TRUE) = "red" /\ LegFor(FALSE) = "green"
BY DEF LegFor

LEMMA StartsStep ==
  ASSUME IInv, Starts
  PROVE  IInv'
<1>1. NodeTypeOK' /\ NodeInv' /\ up'
  BY BootKeepsNode, IInvParts DEF Starts, Boot
<1>2. LoopTypes' /\ WorldTypes'
  BY WorldKept, IInvParts DEF Starts, LoopTypes
<1>3. streak' = streak /\ recent' = recent /\ legs' = {"green"} /\ mainAt' = "wait"
  BY DEF Starts
<1>5. FilterTypes' /\ StreakInv'
  BY <1>3, IInvParts DEF FilterTypes, StreakInv
<1>6. MainInv'
  BY <1>1, <1>3 DEF MainInv
<1>7. LegsInv'
  <2>1. streak' = 0 /\ ~Near(streak')
    BY <1>3, IInvParts, LoopAssumption DEF Starts, LegsInv, Near
  <2>2. LegFor(Near(streak')) = "green"
    BY <2>1 DEF LegFor
  <2> QED
    BY <1>3, <2>1, <2>2 DEF LegsInv
<1> QED
  BY <1>1, <1>2, <1>5, <1>6, <1>7, IInvPartsNext

LEMMA StartsLoopStep ==
  ASSUME IInv, StartsLoop
  PROVE  IInv'
<1>1. NodeTypeOK' /\ NodeInv' /\ UNCHANGED <<up, readyFired>>
  BY NodeKept, IInvParts DEF StartsLoop
<1>2. LoopTypes'
  BY IInvParts DEF StartsLoop, LoopTypes
<1>3. reporting' \in BOOLEAN
  BY IInvParts DEF StartsLoop, RadarHears, RadarDeaf, WorldTypes
<1>4. WorldTypes'
  BY <1>3, IInvParts DEF StartsLoop, WorldTypes
<1>5. FilterTypes' /\ StreakInv' /\ LegsInv'
  BY IInvParts DEF StartsLoop, FilterTypes, StreakInv, LegsInv
<1>6. MainInv'
  <2>1. readyFired
    BY IInvParts DEF StartsLoop, NodeInv
  <2> QED
    BY <1>1, <2>1, IInvParts DEF StartsLoop, MainInv
<1> QED
  BY <1>1, <1>2, <1>4, <1>5, <1>6, IInvPartsNext

LEMMA OlderTypes ==
  ASSUME age \in 0 .. PublishRounds
  PROVE  Older \in 0 .. PublishRounds
BY LoopAssumption DEF Older

(* A read that fails, whatever becomes of the radar.                       *)
LEMMA NoFrameStep ==
  ASSUME IInv, NoFrame, reporting' \in BOOLEAN
  PROVE  IInv'
<1>1. NodeTypeOK' /\ NodeInv' /\ UNCHANGED <<up, readyFired>>
  BY NodeKept, IInvParts DEF NoFrame
<1>2. LoopTypes'
  <2>1. failures' \in 0 .. RECOVERY_THRESHOLD - 1
    BY IInvParts, LoopAssumption DEF NoFrame, AfterFailure, AtThreshold, LoopTypes
  <2>2. age' \in 0 .. PublishRounds
    BY IInvParts, OlderTypes DEF NoFrame, RoundEnds, LoopTypes
  <2> QED
    BY <2>1, <2>2, IInvParts DEF NoFrame, RoundEnds, LoopTypes
<1>3. WorldTypes'
  BY IInvParts DEF NoFrame, WorldTypes
<1>4. FilterTypes' /\ StreakInv' /\ LegsInv'
  BY FilterKept, IInvParts DEF NoFrame, RoundEnds, FilterVars
<1>5. MainInv'
  BY <1>1, IInvParts DEF NoFrame, RoundEnds, MainInv
<1> QED
  BY <1>1, <1>2, <1>3, <1>4, <1>5, IInvPartsNext

LEMMA ReadFrameStep ==
  ASSUME IInv, ReadFrame
  PROVE  IInv'
<1>1. NodeTypeOK' /\ NodeInv' /\ UNCHANGED <<up, readyFired>>
  BY NodeKept, IInvParts DEF ReadFrame
<1>2. LoopTypes' /\ WorldTypes'
  BY WorldKept, IInvParts, LoopAssumption DEF ReadFrame, LoopTypes
<1>3. /\ StreakInv' /\ streak' \in 0 .. PROX_FRAMES
      /\ recent' \in Bools /\ Len(recent') <= PROX_FRAMES
  <2>1. inRange \in BOOLEAN
    BY IInvParts DEF WorldTypes
  <2> QED
    BY <2>1, IInvParts, StreakStep DEF ReadFrame, FilterTypes
<1>4. legs' \subseteq {LegFor(Near(streak'))}
  <2>1. legs' = legs \ {OtherLeg(Near(streak'))} /\ legs \subseteq {"green", "red"}
    BY IInvParts DEF ReadFrame, FilterTypes
  <2>2. Near(streak') \in BOOLEAN
    BY DEF Near
  <2> QED
    BY <2>1, <2>2 DEF OtherLeg, LegFor
<1>5. FilterTypes' /\ LegsInv'
  BY <1>3, <1>4, IInvParts DEF ReadFrame, FilterTypes, LegsInv
<1>6. MainInv'
  BY <1>1, IInvParts DEF ReadFrame, MainInv
<1> QED
  BY <1>1, <1>2, <1>3, <1>5, <1>6, IInvPartsNext

LEMMA LightsStep ==
  ASSUME IInv, Lights
  PROVE  IInv'
<1>1. NodeTypeOK' /\ NodeInv' /\ UNCHANGED <<up, readyFired>>
  BY NodeKept, IInvParts DEF Lights
<1>2. mainAt = "lit" /\ mainAt' \in {"read", "status"}
  BY DEF Lights, RoundEnds
<1>3. LoopTypes'
  <2>1. age' \in 0 .. PublishRounds
    BY IInvParts, OlderTypes DEF Lights, RoundEnds, LoopTypes
  <2> QED
    BY <1>2, <2>1, IInvParts DEF Lights, LoopTypes
<1>4. WorldTypes'
  BY WorldKept, IInvParts DEF Lights
<1>5. legs' = {LegFor(Near(streak))}
  BY <1>2, IInvParts DEF Lights, LegsInv
<1>6. streak' = streak /\ recent' = recent
  BY DEF Lights
<1>7. FilterTypes' /\ StreakInv' /\ LegsInv'
  <2>1. legs' \subseteq {"green", "red"}
    BY <1>5 DEF LegFor
  <2> QED
    BY <1>2, <1>5, <1>6, <2>1, IInvParts DEF FilterTypes, StreakInv, LegsInv
<1>8. MainInv'
  BY <1>1, <1>2, IInvParts DEF MainInv
<1> QED
  BY <1>1, <1>3, <1>4, <1>7, <1>8, IInvPartsNext

(* A publication changes nothing of the node, whether it is sent or not.   *)
LEMMA PublishStep ==
  ASSUME IInv, NEW sends \in BOOLEAN, PublishStatus(sends) \/ PublishDiag(sends)
  PROVE  IInv'
<1>1. NodeTypeOK' /\ NodeInv' /\ UNCHANGED <<up, readyFired>>
  BY PublishKeepsNode, IInvParts DEF PublishStatus, PublishDiag, Publish, nodeVars
<1>2. mainAt \in {"status", "diag"} /\ mainAt' \in {"read", "diag"}
  BY DEF PublishStatus, PublishDiag
<1>3. LoopTypes' /\ WorldTypes'
  <2>1. age' \in 0 .. PublishRounds /\ failures' = failures
    BY IInvParts, LoopAssumption DEF PublishStatus, PublishDiag, LoopTypes
  <2>2. reported' \in {"none", "free", "occupied"}
    BY IInvParts DEF PublishStatus, PublishDiag, LoopTypes
  <2>3. UNCHANGED <<held, worldVars>>
    BY DEF PublishStatus, PublishDiag
  <2> QED
    BY <1>1, <1>2, <2>1, <2>2, <2>3, WorldKept, IInvParts
    DEF PublishStatus, PublishDiag, LoopTypes
<1>4. UNCHANGED <<streak, legs, recent>>
  BY DEF PublishStatus, PublishDiag
<1>5. FilterTypes' /\ StreakInv' /\ LegsInv'
  BY <1>2, <1>4, IInvParts DEF FilterTypes, StreakInv, LegsInv
<1>6. MainInv'
  BY <1>1, <1>2, IInvParts DEF MainInv
<1> QED
  BY <1>1, <1>3, <1>5, <1>6, IInvPartsNext

LEMMA MainTaskStep ==
  ASSUME IInv, MainTask
  PROVE  IInv'
<1>1. reporting \in BOOLEAN
  BY IInvParts DEF WorldTypes
<1>2. CASE ReadFails
  BY <1>1, <1>2, NoFrameStep DEF ReadFails
<1>3. ASSUME NEW hears \in BOOLEAN, ReadFailsAgain(hears) PROVE IInv'
  BY <1>1, <1>3, NoFrameStep DEF ReadFailsAgain, RadarHears, RadarDeaf
<1> QED
  BY <1>2, <1>3, StartsStep, StartsLoopStep, ReadFrameStep, LightsStep, PublishStep
  DEF MainTask

(* The button's task and the world.                                        *)
LEMMA WorldStep ==
  ASSUME IInv, UNCHANGED <<nodeVars, mainVars>>, WorldTypes'
  PROVE  IInv'
<1>1. NodeTypeOK' /\ NodeInv' /\ UNCHANGED <<up, readyFired>>
  BY NodeKept, IInvParts
<1>2. FilterTypes' /\ StreakInv' /\ LegsInv'
  BY FilterKept, IInvParts DEF mainVars, FilterVars
<1>3. LoopTypes' /\ MainInv'
  BY <1>1, IInvParts DEF mainVars, LoopTypes, MainInv
<1> QED
  BY <1>1, <1>2, <1>3, IInvPartsNext

LEMMA ButtonPollStep ==
  ASSUME IInv, ButtonPoll
  PROVE  IInv'
<1>1. held' \in 0 .. HoldPolls - 1
  BY IInvParts, LoopAssumption DEF ButtonPoll, WorldTypes
<1>2. WorldTypes'
  BY <1>1, IInvParts DEF ButtonPoll, WorldTypes, worldVars
<1> QED
  BY <1>2, WorldStep DEF ButtonPoll

LEMMA OutsideStep ==
  ASSUME IInv, Touches \/ BoatMoves \/ RadarStops
  PROVE  IInv'
<1>1. pressed' \in BOOLEAN /\ inRange' \in BOOLEAN /\ reporting' \in BOOLEAN
  BY IInvParts DEF Touches, BoatMoves, RadarStops, WorldTypes
<1>2. WorldTypes'
  BY <1>1, IInvParts DEF Touches, BoatMoves, RadarStops, WorldTypes
<1> QED
  BY <1>2, WorldStep DEF Touches, BoatMoves, RadarStops

LEMMA InitHolds == Init => CInv
<1> SUFFICES ASSUME Init PROVE CInv
  OBVIOUS
<1>1. /\ RECOVERY_THRESHOLD \in Nat \ {0} /\ PublishRounds \in Nat \ {0}
      /\ HoldPolls \in Nat \ {0} /\ PROX_FRAMES \in Nat \ {0} /\ MaxQueue \in Nat \ {0}
  BY LoopAssumption, QueueAssumption
<1>2. <<>> \in Bools /\ Len(<<>>) = 0 /\ <<>> \in Seq(Items)
  BY DEF Bools
<1>3. LoopTypes
  BY <1>1 DEF Init, MainInit, LoopTypes
<1>4. FilterTypes /\ StreakInv /\ LegsInv
  BY <1>1, <1>2 DEF Init, MainInit, FilterTypes, StreakInv, LegsInv
<1>5. WorldTypes
  <2>1. pressed \in BOOLEAN /\ inRange \in BOOLEAN /\ reporting \in BOOLEAN
    BY Zenon DEF Init
  <2> QED
    BY <1>1, <2>1 DEF Init, WorldTypes
<1>6. NodeTypeOK
  <2>1. /\ provisioned \in BOOLEAN /\ up \in BOOLEAN /\ readyFired \in BOOLEAN
        /\ pubArmed \in BOOLEAN /\ watchdog \in BOOLEAN
    BY Zenon DEF Init, RamInit, Blank
  <2> QED
    BY <1>1, <1>2, <2>1 DEF Init, RamInit, Blank, NodeTypeOK, MODEL_PUB_SET
<1>7. NodeInv /\ ConfiguredInv
  BY EmptyHas DEF Init, RamInit, Blank, NodeInv, ConfiguredInv, HalfConfigured
<1>8. MainInv
  BY DEF Init, RamInit, MainInit, MainInv
<1> QED
  BY <1>3, <1>4, <1>5, <1>6, <1>7, <1>8, IInvParts DEF CInv

LEMMA NextKeeps == IInv /\ [Next]_vars => IInv'
<1> SUFFICES ASSUME IInv, [Next]_vars PROVE IInv'
  OBVIOUS
<1>1. CASE UNCHANGED vars
  BY <1>1, WorldStep, WorldKept, IInvParts DEF vars, mainVars
<1> QED
  BY <1>1, NodeStepKeeps, RestartStep, MainTaskStep, ButtonPollStep, OutsideStep
  DEF Next, ButtonFires

(* The configuration, when the power is not cut in the middle of one.      *)
LEMMA ConfiguredKept ==
  ASSUME ConfiguredInv, UNCHANGED <<provisioned, cfg, queue, up, readyFired>>
  PROVE  ConfiguredInv'
BY DEF ConfiguredInv, AllConfigured, HalfConfigured

LEMMA NextConfigures ==
  ASSUME "reboot-in-cfg" \notin Faults, CInv, [Next]_vars
  PROVE  CInv'
<1>1. NodeTypeOK /\ NodeInv /\ ConfiguredInv /\ IInv'
  BY NextKeeps, IInvParts DEF CInv
<1>2. CASE NodeSteps
  BY <1>1, <1>2, NodeStepsConfigure DEF CInv
<1>3. CASE NodeRestarts \/ FactoryReset
  BY <1>1, <1>3, RestartConfigures DEF CInv
<1>4. CASE Boot
  BY <1>1, <1>4, BootConfigures DEF CInv
<1>5. CASE UNCHANGED <<provisioned, cfg, queue, up, readyFired>>
  BY <1>1, <1>5, ConfiguredKept DEF CInv
<1>6. MainTask => Boot \/ UNCHANGED <<provisioned, cfg, queue, up, readyFired>>
  BY DEF MainTask, Starts, StartsLoop, ReadFails, ReadFailsAgain, NoFrame, ReadFrame, Lights,
         PublishStatus, PublishDiag, Publish, nodeVars
<1>7. ButtonPoll \/ Touches \/ BoatMoves \/ RadarStops \/ UNCHANGED vars
        => UNCHANGED <<provisioned, cfg, queue, up, readyFired>>
  BY DEF ButtonPoll, Touches, BoatMoves, RadarStops, vars, nodeVars
<1> QED
  BY <1>2, <1>3, <1>4, <1>5, <1>6, <1>7 DEF Next, ButtonFires

-----------------------------------------------------------------------------
(* The theorems.                                                           *)

LEMMA Invariance == Spec => []IInv
<1>1. Init => IInv
  BY InitHolds DEF CInv
<1>2. IInv /\ [Next]_vars => IInv'
  BY NextKeeps
<1> QED
  BY <1>1, <1>2, PTL DEF Spec

LEMMA ConfiguredInvariance ==
  ASSUME "reboot-in-cfg" \notin Faults
  PROVE  Spec => []CInv
<1>1. CInv /\ [Next]_vars => CInv'
  BY NextConfigures
<1> QED
  BY <1>1, InitHolds, PTL DEF Spec

(* Every variable of the sensor keeps its type.  That the queue of the BTC *)
(* task stays within its bound needs the most: the watchdog's local reset  *)
(* always finds the place kept for it, because one boot sees at most one   *)
(* PROV_COMPLETE and so arms the watchdog at most once.                    *)
THEOREM SensorTypes == Spec => []TypeOK
<1>1. IInv => TypeOK
  BY DEF IInv
<1> QED
  BY <1>1, Invariance, PTL

(* The berth light shows the verdict on the last frames, whatever tasks    *)
(* run between its two writes and however often the sensor restarts        *)
(* (dp_radar_filter_near, dp_berth_led_set).                               *)
THEOREM LightShowsVerdict == Spec => []LightIsVerdict
<1>1. ASSUME IInv PROVE LightIsVerdict
  <2>1. Near(streak) <=> Len(recent) = PROX_FRAMES /\ \A i \in DOMAIN recent : recent[i]
    BY <1>1, NearIs, IInvParts DEF FilterTypes
  <2>2. legs # {"green", "red"}
    BY <1>1, IInvParts DEF LegsInv, LegFor, LoopTypes
  <2>3. mainAt \notin {"start", "lit"} => legs = IF Near(streak) THEN {"red"} ELSE {"green"}
    BY <1>1, IInvParts DEF LegsInv, LegFor
  <2> QED
    BY <2>1, <2>2, <2>3 DEF LightIsVerdict
<1>2. IInv => LightIsVerdict
  BY <1>1
<1> QED
  BY <1>2, Invariance, PTL

(* A sensor that fired its ready callback has its whole configuration in   *)
(* flash or a reset on its way (dp_mesh_sensor_on_cfg_server, dp_mesh_init)*)
(* as long as no power cut falls between the two ends of a configuration:  *)
(* dp_mesh_init takes a half-configured node for a ready one.              *)
THEOREM ReadyIsConfigured ==
  ASSUME "reboot-in-cfg" \notin Faults
  PROVE  Spec => []ReadyMeansConfigured
<1>1. CInv => ReadyMeansConfigured
  BY DEF CInv, IInv, NodeInv, ConfiguredInv, AllConfigured, ReadyMeansConfigured, Queued, Has
<1> QED
  BY <1>1, ConfiguredInvariance, PTL

(* When the main task publishes, the model has its key and an address, as  *)
(* long as the sensor is in the network: it only publishes after the ready *)
(* callback (dp_mesh_sensor_on_cfg_server, dp_mesh_publish_status,         *)
(* dp_mesh_publish_diag), under the same condition.                        *)
THEOREM PublicationsFindConfiguration ==
  ASSUME "reboot-in-cfg" \notin Faults
  PROVE  Spec => []PublishFindsConfiguration
<1>1. ASSUME CInv, mainAt \in {"status", "diag"}, provisioned PROVE CanSend
  <2>1. readyFired
    BY <1>1, IInvParts DEF CInv, MainInv
  <2>2. pubArmed /\ (AllConfigured \/ Has(queue, "reset"))
    BY <1>1, <2>1, IInvParts DEF CInv, NodeInv, ConfiguredInv
  <2> QED
    BY <1>1, <2>1, <2>2, IInvParts
    DEF CInv, NodeInv, AllConfigured, CanSend, MODEL_PUB_SET, MODEL_APP_BIND
<1>2. CInv => PublishFindsConfiguration
  BY <1>1 DEF PublishFindsConfiguration
<1> QED
  BY <1>2, ConfiguredInvariance, PTL

=============================================================================
