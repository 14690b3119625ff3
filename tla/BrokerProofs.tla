----------------------------- MODULE BrokerProofs -----------------------------
(***************************************************************************)
(* Proofs about Broker, for any number of retries and of troubles: types,  *)
(* that a connection whose handler is done is fully subscribed and         *)
(* announced, and that a topic the broker knows has its callback.          *)
(***************************************************************************)
EXTENDS Broker, SequenceTheorems, TLAPS

(* What is left of the boot from its i-th step on.                         *)
BootLength == 7
BootFrom(i) == SubSeq(BootSteps, i, BootLength)

(* What the main task has behind it when it is about to take step i.       *)
BootInv(i) ==
  /\ boot = BootFrom(i)
  /\ i <= 2 => mqtt = "off"
  /\ i > 4 => "provision/req" \in msgCbs
  /\ i > 6 => "decommission/req" \in msgCbs
  /\ sub # "no" => i \in {5, 7}

(* What the CONNECTED handler has left after its steps.                    *)
AfterBit == <<"apply", "online">>
AfterApply == <<"online">>

(* The session belongs to the connection whose handler is running; the     *)
(* handler's second step brings it all the topics asked for, and later     *)
(* ones are sent because the first step has set the bit.  What is missing  *)
(* was refused, or the main task is at it.                                 *)
SessionInv ==
  /\ todo # <<>> => mqtt = "connected"
  /\ session => mqtt = "connected"
  /\ ~session => subs = {}
  /\ mqtt = "connected" /\ todo # OnConnected => bit
  /\ session /\ todo \in {AfterApply, <<>>}
       => pendingSubs \subseteq subs \cup Asking \cup refused
  /\ session /\ todo = <<>> => status = "online" \/ "status" \in refused

SubsInv ==
  /\ subs \subseteq pendingSubs /\ pendingSubs \subseteq msgCbs
  /\ Asking \subseteq pendingSubs

IInv ==
  /\ TypeOK
  /\ \E i \in 1 .. BootLength + 1 : BootInv(i)
  /\ SessionInv /\ SubsInv

-----------------------------------------------------------------------------
(* The boot's steps.                                                       *)

Pairs == {"wifi", "start", "wait", "cb", "sub"} \X (Topics \cup {""})

LEMMA Couple ==
  ASSUME NEW S, NEW x \in S, NEW y \in S
  PROVE  /\ <<x, y>> \in Seq(S) /\ Len(<<x, y>>) = 2
         /\ <<x, y>>[1] = x /\ <<x, y>>[2] = y
OBVIOUS

LEMMA Triple ==
  ASSUME NEW S, NEW x \in S, NEW y \in S, NEW z \in S
  PROVE  /\ <<x, y, z>> \in Seq(S) /\ Len(<<x, y, z>>) = 3
         /\ <<x, y, z>>[1] = x /\ <<x, y, z>>[2] = y /\ <<x, y, z>>[3] = z
OBVIOUS

LEMMA Steps ==
  /\ BootSteps \in Seq(Pairs) /\ Len(BootSteps) = BootLength
  /\ BootSteps[1] = <<"wifi", "">> /\ BootSteps[2] = <<"start", "">>
  /\ BootSteps[3] = <<"wait", "">>
  /\ BootSteps[4] = <<"cb", "provision/req">> /\ BootSteps[5] = <<"sub", "provision/req">>
  /\ BootSteps[6] = <<"cb", "decommission/req">> /\ BootSteps[7] = <<"sub", "decommission/req">>
<1> DEFINE A == <<<<"wifi", "">>, <<"start", "">>, <<"wait", "">>>>
           B == Listens("provision/req")
           C == Listens("decommission/req")
           D == A \o B
<1>1. /\ <<"wifi", "">> \in Pairs /\ <<"start", "">> \in Pairs /\ <<"wait", "">> \in Pairs
      /\ \A t \in Topics : <<"cb", t>> \in Pairs /\ <<"sub", t>> \in Pairs
  BY DEF Pairs
<1>2. /\ A \in Seq(Pairs) /\ Len(A) = 3
      /\ A[1] = <<"wifi", "">> /\ A[2] = <<"start", "">> /\ A[3] = <<"wait", "">>
  BY <1>1, Triple
<1>3. ASSUME NEW t \in Topics
      PROVE  /\ Listens(t) \in Seq(Pairs) /\ Len(Listens(t)) = 2
             /\ Listens(t)[1] = <<"cb", t>> /\ Listens(t)[2] = <<"sub", t>>
  <2>1. <<"cb", t>> \in Pairs /\ <<"sub", t>> \in Pairs
    BY <1>1
  <2>2. /\ <<<<"cb", t>>, <<"sub", t>>>> \in Seq(Pairs)
        /\ Len(<<<<"cb", t>>, <<"sub", t>>>>) = 2
        /\ <<<<"cb", t>>, <<"sub", t>>>>[1] = <<"cb", t>>
        /\ <<<<"cb", t>>, <<"sub", t>>>>[2] = <<"sub", t>>
    BY <2>1, Couple
  <2> QED
    BY <2>2 DEF Listens
<1>4. /\ B \in Seq(Pairs) /\ Len(B) = 2 /\ C \in Seq(Pairs) /\ Len(C) = 2
      /\ B[1] = <<"cb", "provision/req">> /\ B[2] = <<"sub", "provision/req">>
      /\ C[1] = <<"cb", "decommission/req">> /\ C[2] = <<"sub", "decommission/req">>
  <2>1. "provision/req" \in Topics /\ "decommission/req" \in Topics
    BY DEF Topics
  <2> QED
    BY <1>3, <2>1
<1>5. BootSteps = D \o C
  BY DEF BootSteps
<1> HIDE DEF A, B, C
<1>6. /\ D \in Seq(Pairs) /\ Len(D) = 5
      /\ \A i \in 1 .. 5 : D[i] = IF i <= 3 THEN A[i] ELSE B[i - 3]
  <2>1. A \in Seq(Pairs) /\ B \in Seq(Pairs) /\ Len(A) = 3 /\ Len(B) = 2
    BY <1>2, <1>4
  <2>2. /\ D \in Seq(Pairs) /\ Len(D) = Len(A) + Len(B)
        /\ \A i \in 1 .. Len(A) + Len(B) :
              D[i] = IF i <= Len(A) THEN A[i] ELSE B[i - Len(A)]
    BY ONLY <2>1, ConcatProperties
  <2>3. Len(A) + Len(B) = 5
    BY ONLY <2>1
  <2>4. \A i \in 1 .. 5 : D[i] = IF i <= Len(A) THEN A[i] ELSE B[i - Len(A)]
    BY ONLY <2>2, <2>3
  <2> HIDE DEF D
  <2> QED
    BY ONLY <2>1, <2>2, <2>3, <2>4
<1> HIDE DEF D
<1>7. /\ BootSteps \in Seq(Pairs) /\ Len(BootSteps) = 7
      /\ \A i \in 1 .. 7 : BootSteps[i] = IF i <= 5 THEN D[i] ELSE C[i - 5]
  <2>1. C \in Seq(Pairs) /\ D \in Seq(Pairs) /\ Len(C) = 2 /\ Len(D) = 5
    BY <1>4, <1>6
  <2>2. /\ BootSteps \in Seq(Pairs) /\ Len(BootSteps) = Len(D) + Len(C)
        /\ \A i \in 1 .. Len(D) + Len(C) :
              BootSteps[i] = IF i <= Len(D) THEN D[i] ELSE C[i - Len(D)]
    BY ONLY <1>5, <2>1, ConcatProperties
  <2>3. Len(D) + Len(C) = 7
    BY ONLY <2>1
  <2>4. \A i \in 1 .. 7 : BootSteps[i] = IF i <= Len(D) THEN D[i] ELSE C[i - Len(D)]
    BY ONLY <2>2, <2>3
  <2> QED
    BY ONLY <2>1, <2>2, <2>3, <2>4
<1>8. /\ BootSteps[1] = A[1] /\ BootSteps[2] = A[2] /\ BootSteps[3] = A[3]
      /\ BootSteps[4] = B[1] /\ BootSteps[5] = B[2]
      /\ BootSteps[6] = C[1] /\ BootSteps[7] = C[2]
  BY <1>6, <1>7
<1> QED
  BY <1>2, <1>4, <1>7, <1>8 DEF BootLength

LEMMA StepsSeq == BootSteps \in Seq(Pairs) /\ Len(BootSteps) = BootLength
BY Steps

LEMMA BootAdvances ==
  ASSUME NEW i \in 1 .. BootLength
  PROVE  /\ BootFrom(i) # <<>> /\ Head(BootFrom(i)) = BootSteps[i]
         /\ Tail(BootFrom(i)) = BootFrom(i + 1)
<1>1. /\ BootSteps \in Seq(Pairs) /\ Len(BootSteps) = BootLength
      /\ i \in 1 .. Len(BootSteps) /\ BootLength \in i .. Len(BootSteps)
  BY StepsSeq DEF BootLength
<1>2. Head(BootFrom(i)) = BootSteps[i] /\ Tail(BootFrom(i)) = BootFrom(i + 1)
  BY <1>1, HeadTailOfSubSeq DEF BootFrom
<1>3. Len(BootFrom(i)) # 0
  <2>1. \A k \in i .. BootLength : BootSteps[k] \in Pairs
    BY <1>1, ElementOfSeq
  <2> QED
    BY <1>1, <2>1, SubSeqProperties DEF BootFrom, BootLength
<1> QED
  BY <1>2, <1>3, EmptySeq

LEMMA BootEnds == BootFrom(1) = BootSteps /\ BootFrom(BootLength + 1) = <<>>
BY StepsSeq, SubSeqFull, SubSeqEmpty DEF BootFrom, BootLength

(* The place of the main task, told from the step it takes.                *)
LEMMA PlaceOf ==
  ASSUME NEW i \in 1 .. BootLength + 1, boot = BootFrom(i), NEW step, Doing(step)
  PROVE  /\ i \in 1 .. BootLength /\ Tail(boot) = BootFrom(i + 1)
         /\ Head(boot) = BootSteps[i]
         /\ step = "wifi" => i = 1
         /\ step = "start" => i = 2
         /\ step = "wait" => i = 3
         /\ step = "cb" => i \in {4, 6}
         /\ step = "sub" => i \in {5, 7}
<1>1. i \in 1 .. BootLength
  BY BootEnds DEF Doing, BootLength
<1>2. Head(boot) = BootSteps[i] /\ Tail(boot) = BootFrom(i + 1) /\ BootSteps[i][1] = step
  BY <1>1, BootAdvances DEF Doing
<1>3. i \in {1, 2, 3, 4, 5, 6, 7}
  BY <1>1 DEF BootLength
<1>4. /\ BootSteps[1][1] = "wifi" /\ BootSteps[2][1] = "start" /\ BootSteps[3][1] = "wait"
      /\ BootSteps[4][1] = "cb" /\ BootSteps[5][1] = "sub"
      /\ BootSteps[6][1] = "cb" /\ BootSteps[7][1] = "sub"
  <2>1. \A a, b : <<a, b>>[1] = a
    OBVIOUS
  <2> QED
    BY Steps, <2>1, Zenon
<1> QED
  BY <1>1, <1>2, <1>3, <1>4

LEMMA BootTypes ==
  \A i \in 1 .. BootLength + 1 :
     BootFrom(i) \in {SubSeq(BootSteps, j, Len(BootSteps)) : j \in 1 .. Len(BootSteps) + 1}
BY StepsSeq DEF BootFrom

(* The steps of the handler.                                               *)
HandlerSteps == {"set-bit", "apply", "online"}

LEMMA Handler ==
  /\ {SubSeq(OnConnected, j, Len(OnConnected)) : j \in 1 .. Len(OnConnected) + 1}
       = {OnConnected, AfterBit, AfterApply, <<>>}
  /\ Head(OnConnected) = "set-bit" /\ Tail(OnConnected) = AfterBit
  /\ Head(AfterBit) = "apply" /\ Tail(AfterBit) = AfterApply
  /\ Head(AfterApply) = "online" /\ Tail(AfterApply) = <<>>
  /\ OnConnected # <<>> /\ AfterBit # <<>> /\ AfterApply # <<>>
<1>1. /\ OnConnected \in Seq(HandlerSteps) /\ Len(OnConnected) = 3
      /\ OnConnected[1] = "set-bit" /\ OnConnected[2] = "apply" /\ OnConnected[3] = "online"
  <2>1. LET seq == <<"set-bit", "apply", "online">>
        IN  /\ seq \in Seq(HandlerSteps) /\ Len(seq) = 3
            /\ seq[1] = "set-bit" /\ seq[2] = "apply" /\ seq[3] = "online"
    BY Triple DEF HandlerSteps
  <2> QED
    BY <2>1 DEF OnConnected
<1>2. SubSeq(OnConnected, 1, 3) = OnConnected /\ SubSeq(OnConnected, 4, 3) = <<>>
  BY <1>1, SubSeqFull, SubSeqEmpty
<1>3. OnConnected # <<>> /\ AfterBit # <<>> /\ AfterApply # <<>>
  BY <1>1, EmptySeq DEF AfterBit, AfterApply
<1>4. Tail(OnConnected) = SubSeq(OnConnected, 2, 3) /\ Tail(OnConnected) = AfterBit
  BY <1>1, TailIsSubSeq DEF OnConnected, AfterBit
<1>5. /\ Tail(SubSeq(OnConnected, 2, 3)) = SubSeq(OnConnected, 3, 3)
      /\ Tail(AfterBit) = AfterApply
  BY <1>1, HeadTailOfSubSeq DEF AfterBit, AfterApply
<1>6. 1 .. Len(OnConnected) + 1 = {1, 2, 3, 4}
  BY <1>1
<1>7. {SubSeq(OnConnected, j, 3) : j \in {1, 2, 3, 4}}
        = {OnConnected, AfterBit, AfterApply, <<>>}
  BY <1>2, <1>4, <1>5
<1>8. Len(OnConnected) = 3 /\ Head(OnConnected) = "set-bit"
  BY <1>1
<1>9. Head(AfterBit) = "apply" /\ Head(AfterApply) = "online" /\ Tail(AfterApply) = <<>>
  BY DEF AfterBit, AfterApply
<1> QED
  BY ONLY <1>3, <1>4, <1>5, <1>6, <1>7, <1>8, <1>9

-----------------------------------------------------------------------------
(* The places of the main task.                                            *)

BootPlace == \E i \in 1 .. BootLength + 1 : BootInv(i)

(* A main task that stays where it is, or starts over, keeps its place.    *)
LEMMA StaysAtPlace ==
  ASSUME BootPlace, UNCHANGED <<boot, msgCbs, sub>>, mqtt = "off" => mqtt' = "off"
  PROVE  BootPlace'
BY DEF BootPlace, BootInv, BootFrom, BootSteps, Listens, BootLength

LEMMA StartsOver ==
  ASSUME boot' = BootSteps, mqtt' = "off", sub' = "no"
  PROVE  BootPlace'
<1>1. 1 \in 1 .. BootLength + 1 /\ boot' = BootFrom(1)
  BY BootEnds DEF BootLength
<1>2. BootInv(1)'
  BY <1>1 DEF BootInv
<1> QED
  BY <1>1, <1>2 DEF BootPlace
LEMMA MovesOn ==
  ASSUME NEW i \in 1 .. BootLength, boot' = BootFrom(i + 1), msgCbs \subseteq msgCbs',
         BootInv(i), i < 2 => mqtt' = mqtt, sub' = "no",
         i = 4 => "provision/req" \in msgCbs', i = 6 => "decommission/req" \in msgCbs'
  PROVE  BootPlace'
<1>1. i + 1 \in 1 .. BootLength + 1
  BY DEF BootLength
<1>2. BootInv(i + 1)'
  BY DEF BootInv, BootLength
<1> QED
  BY <1>1, <1>2 DEF BootPlace

(* The types, with the sets of sequences spelled out.                      *)
Others ==
  /\ wifi \in {"off", "connecting", "up", "gone"}
  /\ retry \in 0 .. WIFI_MAX_RETRY
  /\ gotIp \in BOOLEAN /\ gaveUp \in BOOLEAN
  /\ mqtt \in {"off", "connecting", "connected"}
  /\ bit \in BOOLEAN
  /\ msgCbs \subseteq Topics /\ pendingSubs \subseteq Topics
  /\ sub \in {"no", "locked", "calling"}
  /\ session \in BOOLEAN /\ subs \subseteq Topics
  /\ status \in {"none", "online", "offline"}
  /\ refused \subseteq Topics \cup {"status"}
  /\ trouble \in 0 .. MaxTrouble

HandlerRest == todo \in {OnConnected, AfterBit, AfterApply, <<>>}

LEMMA Typed == IInv <=> BootPlace /\ HandlerRest /\ Others /\ SessionInv /\ SubsInv
<1>1. BootPlace => boot \in {SubSeq(BootSteps, i, Len(BootSteps)) : i \in 1 .. Len(BootSteps) + 1}
  BY BootTypes DEF BootPlace, BootInv
<1>2. HandlerRest <=> todo \in {SubSeq(OnConnected, i, Len(OnConnected)) : i \in 1 .. Len(OnConnected) + 1}
  BY Handler DEF HandlerRest
<1> QED
  BY <1>1, <1>2 DEF IInv, TypeOK, BootPlace, Others

LEMMA TypedNext ==
  ASSUME BootPlace', HandlerRest', Others', SessionInv', SubsInv'
  PROVE  IInv'
<1>1. boot' \in {SubSeq(BootSteps, i, Len(BootSteps)) : i \in 1 .. Len(BootSteps) + 1}
  BY BootTypes DEF BootPlace, BootInv
<1>2. todo' \in {SubSeq(OnConnected, i, Len(OnConnected)) : i \in 1 .. Len(OnConnected) + 1}
  BY Handler DEF HandlerRest
<1> QED
  BY <1>1, <1>2 DEF IInv, TypeOK, BootPlace, Others
-----------------------------------------------------------------------------
(* Every step preserves the invariant.                                     *)

LEMMA InitHolds == Init => IInv
<1> SUFFICES ASSUME Init PROVE IInv
  OBVIOUS
<1>1. BootPlace
  <2>1. 1 \in 1 .. BootLength + 1 /\ boot = BootFrom(1) /\ mqtt = "off" /\ sub = "no"
    BY BootEnds DEF Init, RamInit, BootLength
  <2> QED
    BY <2>1 DEF BootPlace, BootInv
<1>2. HandlerRest /\ SessionInv /\ SubsInv
  BY Handler DEF Init, RamInit, HandlerRest, SessionInv, SubsInv, Asking
<1>3. Others
  <2>1. gotIp \in BOOLEAN /\ gaveUp \in BOOLEAN /\ bit \in BOOLEAN /\ session \in BOOLEAN
    BY Zenon DEF Init, RamInit
  <2>2. 0 \in 0 .. WIFI_MAX_RETRY /\ 0 \in 0 .. MaxTrouble
    BY RetryAssumption
  <2> QED
    BY <2>1, <2>2, Zenon DEF Init, RamInit, Others
<1> QED
  BY <1>1, <1>2, <1>3, Typed

LEMMA RestartsKeeps ==
  ASSUME IInv, Restarts, trouble' \in 0 .. MaxTrouble
  PROVE  IInv'
<1>1. BootPlace'
  BY StartsOver DEF Restarts
<1>2. HandlerRest' /\ SessionInv' /\ SubsInv'
  BY Handler DEF Restarts, SessionEnds, HandlerRest, SessionInv, SubsInv, Asking
<1>3. Others'
  <2>1. /\ gotIp' \in BOOLEAN /\ gaveUp' \in BOOLEAN
        /\ bit' \in BOOLEAN /\ session' \in BOOLEAN
    BY Zenon DEF Restarts, SessionEnds
  <2>2. retry' \in 0 .. WIFI_MAX_RETRY
    BY RetryAssumption DEF Restarts
  <2>3. status' \in {"none", "online", "offline"}
    BY Typed DEF Restarts, SessionEnds, Others
  <2>4. /\ wifi' = "off" /\ mqtt' = "off"
        /\ msgCbs' = {} /\ pendingSubs' = {} /\ subs' = {}
    BY DEF Restarts, SessionEnds
  <2>5. sub' = "no" /\ refused' = {}
    BY DEF Restarts, SessionEnds
  <2> QED
    BY <2>1, <2>2, <2>3, <2>4, <2>5, Zenon DEF Others
<1> QED
  BY <1>1, <1>2, <1>3, TypedNext

LEMMA TroubleTypes ==
  ASSUME IInv, Trouble \/ UNCHANGED trouble
  PROVE  trouble' \in 0 .. MaxTrouble
BY RetryAssumption, Typed DEF Others, Trouble

LEMMA DisconnectTypes ==
  ASSUME Others, OnStaDisconnected
  PROVE  /\ wifi' \in {"off", "connecting", "up", "gone"}
         /\ retry' \in 0 .. WIFI_MAX_RETRY
         /\ gotIp' \in BOOLEAN /\ gaveUp' \in BOOLEAN
<1>1. CASE RetriesLeft
  BY <1>1, RetryAssumption DEF Others, OnStaDisconnected, RetriesLeft
<1>2. CASE ~RetriesLeft
  BY <1>2 DEF Others, OnStaDisconnected
<1> QED
  BY <1>1, <1>2

LEMMA WifiFailsKeeps == ASSUME IInv, WifiFails PROVE IInv'
<1> USE Typed
<1>1. BootPlace'
  BY StaysAtPlace DEF WifiFails, mqttVars, subVars
<1>2. HandlerRest' /\ SessionInv' /\ SubsInv'
  BY DEF WifiFails, mqttVars, subVars, brokerVars, HandlerRest, SessionInv, SubsInv, Asking
<1>3. Others'
  <2>1. trouble' \in 0 .. MaxTrouble
    BY TroubleTypes DEF WifiFails
  <2> QED
    BY <2>1, DisconnectTypes DEF WifiFails, mqttVars, subVars, brokerVars, Others
<1> QED
  BY <1>1, <1>2, <1>3, TypedNext

LEMMA WifiDropsKeeps == ASSUME IInv, WifiDrops PROVE IInv'
<1> USE Typed
<1>1. BootPlace'
  BY StaysAtPlace DEF WifiDrops, mqttVars, subVars
<1>2. HandlerRest' /\ SessionInv' /\ SubsInv'
  BY DEF WifiDrops, SessionEnds, mqttVars, subVars, HandlerRest, SessionInv, SubsInv, Asking
<1>3. Others'
  <2>1. trouble' \in 0 .. MaxTrouble
    BY TroubleTypes DEF WifiDrops
  <2> QED
    BY <2>1, DisconnectTypes DEF WifiDrops, SessionEnds, mqttVars, subVars, Others
<1> QED
  BY <1>1, <1>2, <1>3, TypedNext

LEMMA OnGotIpKeeps == ASSUME IInv, OnGotIp PROVE IInv'
<1> USE Typed
<1>1. BootPlace'
  BY StaysAtPlace DEF OnGotIp, mqttVars, subVars
<1>2. HandlerRest' /\ SessionInv' /\ SubsInv'
  BY DEF OnGotIp, mqttVars, subVars, brokerVars, HandlerRest, SessionInv, SubsInv, Asking
<1>3. Others'
  BY RetryAssumption
     DEF OnGotIp, ForgivesRetries, mqttVars, subVars, brokerVars, Others
<1> QED
  BY <1>1, <1>2, <1>3, TypedNext

LEMMA MqttConnectsKeeps == ASSUME IInv, MqttConnects PROVE IInv'
<1> USE Typed
<1>1. BootPlace'
  BY StaysAtPlace DEF MqttConnects, subVars
<1>2. HandlerRest' /\ SessionInv' /\ SubsInv'
  <2>1. OnConnected \notin {AfterApply, <<>>}
    BY Handler
  <2> QED
    BY <2>1 DEF MqttConnects, subVars, HandlerRest, SessionInv, SubsInv, Asking
<1>3. Others'
  BY DEF MqttConnects, wifiVars, subVars, Others
<1> QED
  BY <1>1, <1>2, <1>3, TypedNext

LEMMA HandlerStepKeeps == ASSUME IInv, HandlerStep PROVE IInv'
<1> USE Typed
<1>1. BootPlace'
  BY StaysAtPlace DEF HandlerStep, subVars
<1>2. HandlerRest'
  BY Handler DEF HandlerStep, HandlerRest
<1>3. UNCHANGED Asking
  BY DEF HandlerStep, subVars, Asking
<1>4. CASE todo = OnConnected
  <2>1. todo' = AfterBit /\ SetBit
    BY <1>4, Handler DEF HandlerStep
  <2>2. SessionInv' /\ SubsInv'
    BY <1>3, <1>4, <2>1, Handler DEF HandlerStep, SetBit, subVars, SessionInv, SubsInv
  <2>3. Others'
    BY <2>1 DEF HandlerStep, SetBit, wifiVars, subVars, Others
  <2> QED
    BY <1>1, <1>2, <2>2, <2>3, TypedNext
<1>5. CASE todo = AfterBit
  <2>1. todo' = AfterApply /\ ApplyPendingSubs /\ AfterBit # OnConnected /\ AfterApply # <<>>
    BY <1>5, Handler DEF HandlerStep
  <2>2. PICK R \in SUBSET pendingSubs :
           /\ IF R = {} THEN UNCHANGED trouble ELSE session /\ Trouble
           /\ refused' = refused \cup R
           /\ subs' = IF session THEN subs \cup (pendingSubs \ R) ELSE subs
    BY <2>1 DEF ApplyPendingSubs
  <2>3. SubsInv'
    BY <1>3, <2>2 DEF HandlerStep, subVars, SubsInv
  <2>4. SessionInv'
    BY <1>3, <1>5, <2>1, <2>2 DEF HandlerStep, ApplyPendingSubs, subVars, SessionInv
  <2>5. Others'
    <3>1. trouble' \in 0 .. MaxTrouble
      BY <2>2, TroubleTypes
    <3> QED
      BY <2>1, <2>2, <3>1 DEF HandlerStep, ApplyPendingSubs, wifiVars, subVars, Others
  <2> QED
    BY <1>1, <1>2, <2>3, <2>4, <2>5, TypedNext
<1>6. CASE todo = AfterApply
  <2>1. todo' = <<>> /\ PublishOnline /\ AfterApply # OnConnected
    BY <1>6, Handler DEF HandlerStep
  <2>2. SessionInv' /\ SubsInv'
    BY <1>3, <1>6, <2>1 DEF HandlerStep, PublishOnline, subVars, SessionInv, SubsInv
  <2>3. Others'
    <3>1. trouble' \in 0 .. MaxTrouble
      BY <2>1, TroubleTypes DEF PublishOnline
    <3> QED
      BY <2>1, <3>1 DEF HandlerStep, PublishOnline, wifiVars, subVars, Others
  <2> QED
    BY <1>1, <1>2, <2>2, <2>3, TypedNext
<1> QED
  BY <1>4, <1>5, <1>6 DEF HandlerStep, HandlerRest

LEMMA MqttNoticesKeeps == ASSUME IInv, MqttNotices PROVE IInv'
<1> USE Typed
<1>1. BootPlace'
  BY StaysAtPlace DEF MqttNotices, subVars
<1>2. HandlerRest' /\ SessionInv' /\ SubsInv'
  BY DEF MqttNotices, subVars, brokerVars, HandlerRest, SessionInv, SubsInv, Asking
<1>3. Others'
  BY DEF MqttNotices, wifiVars, subVars, brokerVars, Others
<1> QED
  BY <1>1, <1>2, <1>3, TypedNext

LEMMA SessionBreaksKeeps == ASSUME IInv, SessionBreaks PROVE IInv'
<1> USE Typed
<1>1. BootPlace'
  BY StaysAtPlace DEF SessionBreaks, mqttVars, subVars
<1>2. HandlerRest' /\ SessionInv' /\ SubsInv'
  BY DEF SessionBreaks, SessionEnds, mqttVars, subVars, HandlerRest, SessionInv, SubsInv, Asking
<1>3. Others'
  <2>1. trouble' \in 0 .. MaxTrouble
    BY TroubleTypes DEF SessionBreaks
  <2> QED
    BY <2>1 DEF SessionBreaks, SessionEnds, wifiVars, mqttVars, subVars, Others
<1> QED
  BY <1>1, <1>2, <1>3, TypedNext

LEMMA BootWifiKeeps == ASSUME IInv, BootWifi PROVE IInv'
<1> USE Typed
<1>1. PICK i \in 1 .. BootLength + 1 : BootInv(i)
  BY DEF BootPlace
<1>2. i = 1 /\ i \in 1 .. BootLength /\ Tail(boot) = BootFrom(i + 1)
  BY <1>1, PlaceOf DEF BootWifi, BootInv
<1>3. CASE wifi' = "connecting" /\ UNCHANGED <<boot, retry, gotIp, gaveUp, mqttVars, subVars, brokerVars>>
  <2>1. BootPlace'
    BY <1>3, StaysAtPlace DEF mqttVars, subVars
  <2>2. HandlerRest' /\ SessionInv' /\ SubsInv' /\ Others'
    BY <1>3 DEF BootWifi, mqttVars, subVars, brokerVars,
                HandlerRest, SessionInv, SubsInv, Asking, Others
  <2> QED
    BY <2>1, <2>2, TypedNext
<1>4. CASE boot' = Tail(boot) /\ UNCHANGED <<wifiVars, mqttVars, subVars, brokerVars>>
  <2>1. BootPlace'
    <3>1. sub' = "no"
      BY <1>1, <1>2, <1>4 DEF BootInv, subVars
    <3> QED
      BY <1>1, <1>2, <1>4, <3>1, MovesOn DEF mqttVars, subVars
  <2>2. sub = "no" /\ sub' = "no"
    BY <1>1, <1>2, <1>4 DEF BootInv, subVars
  <2>3. HandlerRest' /\ SessionInv' /\ SubsInv' /\ Others'
    BY <1>4, <2>2 DEF BootWifi, wifiVars, mqttVars, subVars, brokerVars,
                      HandlerRest, SessionInv, SubsInv, Asking, Others
  <2> QED
    BY <2>1, <2>3, TypedNext
<1>5. CASE Restarts
  BY <1>5, RestartsKeeps DEF BootWifi, Others
<1> QED
  BY <1>3, <1>4, <1>5 DEF BootWifi

LEMMA BootStartKeeps == ASSUME IInv, BootStart PROVE IInv'
<1> USE Typed
<1>1. PICK i \in 1 .. BootLength + 1 : BootInv(i)
  BY DEF BootPlace
<1>2. i = 2 /\ i \in 1 .. BootLength /\ Tail(boot) = BootFrom(i + 1) /\ mqtt = "off"
  BY <1>1, PlaceOf DEF BootStart, BootInv
<1>2a. sub = "no" /\ sub' = "no"
  BY <1>1, <1>2 DEF BootStart, BootInv, subVars
<1>3. BootPlace'
  BY <1>1, <1>2, <1>2a, MovesOn DEF BootStart, subVars
<1>4. HandlerRest' /\ SessionInv' /\ SubsInv'
  BY <1>2, <1>2a DEF BootStart, subVars, brokerVars, HandlerRest, SessionInv, SubsInv, Asking
<1>5. Others'
  BY DEF BootStart, wifiVars, subVars, brokerVars, Others
<1> QED
  BY <1>3, <1>4, <1>5, TypedNext

LEMMA BootWaitKeeps == ASSUME IInv, BootWait PROVE IInv'
<1> USE Typed
<1>1. PICK i \in 1 .. BootLength + 1 : BootInv(i)
  BY DEF BootPlace
<1>2. i = 3 /\ i \in 1 .. BootLength /\ Tail(boot) = BootFrom(i + 1)
  BY <1>1, PlaceOf DEF BootWait, BootInv
<1>2a. sub = "no" /\ sub' = "no"
  BY <1>1, <1>2 DEF BootWait, BootInv, subVars
<1>3. BootPlace'
  BY <1>1, <1>2, <1>2a, MovesOn DEF BootWait, mqttVars, subVars
<1>4. HandlerRest' /\ SessionInv' /\ SubsInv'
  BY <1>2a DEF BootWait, mqttVars, subVars, brokerVars, HandlerRest, SessionInv, SubsInv, Asking
<1>5. Others'
  BY DEF BootWait, wifiVars, mqttVars, subVars, brokerVars, Others
<1> QED
  BY <1>3, <1>4, <1>5, TypedNext

(* The topic of the step is one of the two the code names.                 *)
LEMMA TopicOf ==
  ASSUME NEW i \in 1 .. BootLength + 1, boot = BootFrom(i), NEW step \in {"cb", "sub"},
         Doing(step)
  PROVE  /\ i \in 1 .. BootLength /\ Tail(boot) = BootFrom(i + 1)
         /\ step = "cb" => i \in {4, 6}
         /\ step = "sub" => i \in {5, 7}
         /\ i \in {4, 5} => Head(boot)[2] = "provision/req"
         /\ i \in {6, 7} => Head(boot)[2] = "decommission/req"
         /\ Head(boot)[2] \in Topics
<1>1. /\ i \in 1 .. BootLength /\ Tail(boot) = BootFrom(i + 1)
      /\ Head(boot) = BootSteps[i]
      /\ step = "cb" => i \in {4, 6}
      /\ step = "sub" => i \in {5, 7}
  BY PlaceOf
<1>2. /\ BootSteps[4][2] = "provision/req" /\ BootSteps[5][2] = "provision/req"
      /\ BootSteps[6][2] = "decommission/req" /\ BootSteps[7][2] = "decommission/req"
  <2>1. /\ BootSteps[4] = <<"cb", "provision/req">>
        /\ BootSteps[5] = <<"sub", "provision/req">>
        /\ BootSteps[6] = <<"cb", "decommission/req">>
        /\ BootSteps[7] = <<"sub", "decommission/req">>
    BY Steps
  <2> QED
    BY ONLY <2>1
<1> QED
  BY <1>1, <1>2 DEF Topics

LEMMA AddMsgCbKeeps == ASSUME IInv, AddMsgCb PROVE IInv'
<1> USE Typed
<1>1. PICK i \in 1 .. BootLength + 1 : BootInv(i)
  BY DEF BootPlace
<1> DEFINE t == Head(boot)[2]
<1>2. /\ i \in {4, 6} /\ i \in 1 .. BootLength /\ Tail(boot) = BootFrom(i + 1)
      /\ i = 4 => t = "provision/req"
      /\ i = 6 => t = "decommission/req"
      /\ t \in Topics
  BY <1>1, TopicOf DEF AddMsgCb, BootInv
<1>3. msgCbs' = msgCbs \cup {t} /\ boot' = Tail(boot)
  BY DEF AddMsgCb
<1> HIDE DEF t
<1>3a. sub = "no" /\ sub' = "no"
  BY <1>1, <1>2 DEF AddMsgCb, BootInv
<1>4. BootPlace'
  BY <1>1, <1>2, <1>3, <1>3a, MovesOn
<1>5. HandlerRest' /\ SessionInv' /\ SubsInv'
  BY <1>3, <1>3a DEF AddMsgCb, mqttVars, brokerVars, HandlerRest, SessionInv, SubsInv, Asking
<1>6. Others'
  BY <1>2, <1>3 DEF AddMsgCb, wifiVars, mqttVars, brokerVars, Others
<1> QED
  BY <1>4, <1>5, <1>6, TypedNext

LEMMA SubscribeLocksKeeps == ASSUME IInv, SubscribeLocks PROVE IInv'
<1> USE Typed
<1>1. PICK i \in 1 .. BootLength + 1 : BootInv(i)
  BY DEF BootPlace
<1> DEFINE t == Head(boot)[2]
<1>2. /\ i \in {5, 7} /\ t \in Topics
      /\ i = 5 => t = "provision/req"
      /\ i = 7 => t = "decommission/req"
  BY <1>1, TopicOf DEF SubscribeLocks, BootInv
<1>3. pendingSubs' = pendingSubs \cup {t} /\ Asking' = {t} /\ Asking = {} /\ boot' = boot
  BY DEF SubscribeLocks, Asking
<1> HIDE DEF t
<1>4. BootInv(i)'
  BY <1>1, <1>2 DEF SubscribeLocks, mqttVars, BootInv, BootFrom, BootSteps, Listens, BootLength
<1>5. t \in msgCbs
  BY <1>1, <1>2 DEF BootInv
<1>6. HandlerRest' /\ SubsInv' /\ SessionInv'
  BY <1>3, <1>5 DEF SubscribeLocks, mqttVars, brokerVars, HandlerRest, SubsInv, SessionInv
<1>7. Others'
  BY <1>2, <1>3 DEF SubscribeLocks, wifiVars, mqttVars, brokerVars, Others
<1>8. BootPlace'
  BY <1>4 DEF BootPlace
<1> QED
  BY <1>6, <1>7, <1>8, TypedNext

(* The main task leaves dp_gateway_mqtt_subscribe.                         *)
LEMMA SubscribeLeaves ==
  ASSUME IInv, sub # "no", sub' = "no", boot' = Tail(boot), UNCHANGED <<mqtt, msgCbs>>
  PROVE  /\ BootPlace' /\ Asking = {Head(boot)[2]} /\ Asking' = {}
         /\ Head(boot)[2] \in Topics
<1> USE Typed
<1>1. PICK i \in 1 .. BootLength + 1 : BootInv(i)
  BY DEF BootPlace
<1>2. i \in {5, 7} /\ i \in 1 .. BootLength
  BY <1>1 DEF BootInv, BootLength
<1>3. Tail(boot) = BootFrom(i + 1) /\ Doing("sub")
  <2>1. Tail(boot) = BootFrom(i + 1) /\ boot # <<>> /\ Head(boot) = BootSteps[i]
    BY <1>1, <1>2, BootAdvances DEF BootInv
  <2>2. BootSteps[5][1] = "sub" /\ BootSteps[7][1] = "sub"
    <3>1. /\ BootSteps[5] = <<"sub", "provision/req">>
          /\ BootSteps[7] = <<"sub", "decommission/req">>
      BY Steps
    <3> QED
      BY ONLY <3>1
  <2> QED
    BY <1>2, <2>1, <2>2 DEF Doing
<1>4. Head(boot)[2] \in Topics
  BY <1>1, <1>3, TopicOf DEF BootInv
<1>5. BootPlace'
  BY <1>1, <1>2, <1>3, MovesOn
<1> QED
  BY <1>4, <1>5 DEF Asking

LEMMA SubscribeTestsBitKeeps == ASSUME IInv, SubscribeTestsBit PROVE IInv'
<1> USE Typed
<1>1. HandlerRest' /\ Others'
  BY DEF SubscribeTestsBit, wifiVars, mqttVars, brokerVars, HandlerRest, Others
<1>2. CASE bit
  <2>1. sub' = "calling" /\ UNCHANGED <<boot, Asking>>
    BY <1>2 DEF SubscribeTestsBit, Asking
  <2>2. BootPlace'
    BY <2>1 DEF SubscribeTestsBit, mqttVars, BootPlace, BootInv, BootFrom, BootSteps,
                Listens, BootLength
  <2>3. SessionInv' /\ SubsInv'
    BY <2>1 DEF SubscribeTestsBit, mqttVars, brokerVars, SessionInv, SubsInv
  <2> QED
    BY <1>1, <2>2, <2>3, TypedNext
<1>3. CASE ~bit
  <2>1. sub' = "no" /\ boot' = Tail(boot)
    BY <1>3 DEF SubscribeTestsBit
  <2>2. BootPlace' /\ Asking' = {}
    BY <2>1, SubscribeLeaves DEF SubscribeTestsBit, mqttVars
  <2>3. OnConnected \notin {AfterApply, <<>>}
    BY Handler
  <2>4. SessionInv' /\ SubsInv'
    BY <1>3, <2>2, <2>3 DEF SubscribeTestsBit, mqttVars, brokerVars, SessionInv, SubsInv
  <2> QED
    BY <1>1, <2>2, <2>4, TypedNext
<1> QED
  BY <1>2, <1>3

LEMMA SubscribeCallsKeeps == ASSUME IInv, SubscribeCalls PROVE IInv'
<1> USE Typed
<1> DEFINE t == Head(boot)[2]
<1>1. BootPlace' /\ Asking = {t} /\ Asking' = {} /\ t \in Topics
  BY SubscribeLeaves DEF SubscribeCalls, mqttVars
<1>2. \/ /\ subs' = IF session THEN subs \cup {t} ELSE subs
         /\ UNCHANGED <<refused, trouble>>
      \/ /\ session /\ Trouble
         /\ refused' = refused \cup {t}
         /\ UNCHANGED subs
  BY DEF SubscribeCalls
<1>3. trouble' \in 0 .. MaxTrouble
  BY <1>2, TroubleTypes
<1> HIDE DEF t
<1>4. HandlerRest' /\ SessionInv' /\ SubsInv'
  BY <1>1, <1>2 DEF SubscribeCalls, mqttVars, HandlerRest, SessionInv, SubsInv
<1>5. Others'
  BY <1>1, <1>2, <1>3 DEF SubscribeCalls, wifiVars, mqttVars, Others
<1> QED
  BY <1>1, <1>4, <1>5, TypedNext

LEMMA StepHolds == IInv /\ [Next]_vars => IInv'
<1> SUFFICES ASSUME IInv, [Next]_vars PROVE IInv'
  OBVIOUS
<1>1. CASE MainTask
  BY <1>1, BootWifiKeeps, BootStartKeeps, BootWaitKeeps, AddMsgCbKeeps,
     SubscribeLocksKeeps, SubscribeTestsBitKeeps, SubscribeCallsKeeps DEF MainTask, Subscribe
<1>2. CASE MqttTask
  BY <1>2, MqttConnectsKeeps, HandlerStepKeeps, MqttNoticesKeeps DEF MqttTask
<1>3. CASE BootTimesOut
  <2>1. Restarts /\ (Trouble \/ UNCHANGED trouble)
    BY <1>3 DEF BootTimesOut
  <2> QED
    BY <2>1, RestartsKeeps, TroubleTypes
<1>4. CASE Reboot
  BY <1>4, RestartsKeeps, TroubleTypes DEF Reboot
<1>5. CASE UNCHANGED vars
  <2> USE Typed
  <2>1. BootPlace'
    BY <1>5, StaysAtPlace DEF vars, mqttVars, subVars
  <2>2. HandlerRest' /\ SessionInv' /\ SubsInv' /\ Others'
    BY <1>5 DEF vars, wifiVars, mqttVars, subVars, brokerVars,
                HandlerRest, SessionInv, SubsInv, Asking, Others
  <2> QED
    BY <2>1, <2>2, TypedNext
<1> QED
  BY <1>1, <1>2, <1>3, <1>4, <1>5, OnGotIpKeeps, WifiFailsKeeps, WifiDropsKeeps,
     SessionBreaksKeeps DEF Next

-----------------------------------------------------------------------------
(* The invariant holds in every reachable state: dp_gateway_init goes      *)
(* through its calls in one order, the MQTT task's handler runs once for   *)
(* each session, and what the broker knows, the gateway asked for.         *)
THEOREM BrokerInvariant == Spec => []IInv
BY InitHolds, StepHolds, PTL DEF Spec

(* The boot, the handler of MQTT_EVENT_CONNECTED, the count of retries and *)
(* the tables of topics stay within their types.                           *)
THEOREM BrokerTypes == Spec => []TypeOK
<1>1. IInv => TypeOK
  BY DEF IInv
<1> QED
  BY BrokerInvariant, <1>1, PTL

(* However the boot's subscriptions, the CONNECTED handler and lost        *)
(* sessions interleave: when the MQTT task has nothing left to do, a live  *)
(* session has every topic dp_gateway_mqtt_subscribe was called for, but   *)
(* for what the client refused and the one being asked for, and is         *)
(* announced as online.                                                    *)
THEOREM ServedWhenConnected == Spec => []ConnectedIsServed
<1>1. IInv => ConnectedIsServed
  BY Handler, Typed DEF SessionInv, SubsInv, ConnectedIsServed, Others
<1> QED
  BY BrokerInvariant, <1>1, PTL

(* The broker never has a topic that dp_gateway_mqtt_add_msg_cb has not    *)
(* registered a callback for: no request arrives that nobody handles.      *)
THEOREM HeardIsHandled == Spec => []HeardHasHandler
<1>1. IInv => HeardHasHandler
  BY DEF IInv, SubsInv, HeardHasHandler
<1> QED
  BY BrokerInvariant, <1>1, PTL
=============================================================================
