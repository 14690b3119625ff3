----------------------------- MODULE UplinkProofs ------------------------------
(***************************************************************************)
(* Proofs about Uplink, for any number of sensors, addresses, berths and   *)
(* slots, any set of faults and any number of messages in the air: types,  *)
(* the pairing of berth and node id, and that a publication goes to the    *)
(* berth the backend has for its sender.                                   *)
(***************************************************************************)
EXTENDS Uplink, FiniteSetTheorems, TLAPS

(* A sensor that publishes has an address, and the messages in the air and *)
(* the one in the BTC task come from addresses.                            *)
Sources ==
  /\ IsFiniteSet(air)
  /\ \A s \in publishing : addrOf[s] \in Addrs
  /\ task.at # "idle" => task.from \in Sensors /\ task.src \in Addrs

(* What is recorded was handed out, in RAM and in flash.                   *)
RecordedWasHandedOut ==
  \A a \in Addrs : berths[a] # NoEntry \/ savedBerths[a] # NoEntry => a \in handedOut

(* What the backend believes of an address.                                *)
Believes(a) == rows[a] \notin {None} \cup doubtful

(* Where the backend believes something, the table agrees, and will after  *)
(* a power cycle.                                                          *)
HasBerth(e, b) == e # NoEntry /\ e.berth = b

TablesAgree ==
  \A a \in Addrs : Believes(a) => /\ HasBerth(berths[a], rows[a])
                                  /\ HasBerth(savedBerths[a], rows[a])

(* The address of an adoption under way is new: nothing is recorded for it *)
(* yet, and the backend believes nothing of it.                            *)
FlowIsFresh ==
  flow # NoFlow => /\ flow.sensor \in Sensors /\ flow.addr \in handedOut
                   /\ berths[flow.addr] = NoEntry
                   /\ ~Believes(flow.addr)

(* The BTC task between its lookups.                                       *)
LookupsHold ==
  /\ task.at = "node" => berths[task.src] = task.of
  /\ task.at \in {"node", "publish"} /\ Believes(task.src) => task.berth = rows[task.src]

(* The inductive invariant.                                                *)
IInv ==
  /\ TypeOK /\ Sources
  /\ RecordedWasHandedOut /\ TablesAgree /\ FlowIsFresh /\ LookupsHold
  /\ PairedAsRecorded

-----------------------------------------------------------------------------
(* Forgetting an address takes it out of RAM, and touches no other.        *)
LEMMA Forgetting ==
  ASSUME MapTypeOK, NEW a \in Addrs, Forgets(a)
  PROVE  /\ MapTypeOK'
         /\ berths'[a] = NoEntry
         /\ \A x \in Addrs \ {a} : berths'[x] = berths[x]
         /\ \A x \in Addrs : savedBerths'[x] \in {savedBerths[x], berths'[x]}
<1>1. berths' = Unbind(berths, a) /\ savedBerths' \in {savedBerths, berths'}
  BY DEF Forgets, ForgetSaved, ForgetUnsaved
<1>2. berths' \in Maps /\ savedBerths' \in Maps
  BY <1>1 DEF MapTypeOK, Maps, Unbind
<1> QED
  BY <1>1, <1>2 DEF MapTypeOK, Maps, Unbind

(* A sensor that hears a reset, or does not, keeps the sensors' types.     *)
LEMMA Resetting ==
  ASSUME TypeOK, Sources, NEW s \in Sensors, Wiped(s) \/ UNCHANGED sensorVars
  PROVE  /\ addrOf' \in [Sensors -> Addrs \cup {None}]
         /\ publishing' \subseteq Sensors
         /\ \A x \in publishing' : addrOf'[x] \in Addrs
BY DEF TypeOK, Sources, Wiped, sensorVars

-----------------------------------------------------------------------------
(* Base and steps.                                                         *)

LEMMA Initially == Init => IInv
<1> SUFFICES ASSUME Init PROVE IInv
  OBVIOUS
<1>1. IsFiniteSet(air) /\ Cardinality(air) = 0
  BY FS_EmptySet DEF Init
<1>2. TypeOK
  BY <1>1, NodesAssumption, FlightAssumption
     DEF Init, TypeOK, MapTypeOK, Maps, NoMap, NoFlow, Idle, Entries, Nodes
<1> QED
  BY <1>1, <1>2 DEF IInv, Init, Sources, RecordedWasHandedOut, TablesAgree, Believes,
       FlowIsFresh, LookupsHold, PairedAsRecorded, NoMap, Idle
(* The steps that leave the map, the rows and the flow's address alone.    *)
LEMMA ViewKept ==
  ASSUME IInv, UNCHANGED <<mapVars, backendVars, handedOut, flow>>
  PROVE  RecordedWasHandedOut' /\ TablesAgree' /\ FlowIsFresh'
BY DEF IInv, mapVars, backendVars, RecordedWasHandedOut, TablesAgree, FlowIsFresh,
       Believes, HasBerth

LEMMA LookupsKept ==
  ASSUME IInv, UNCHANGED <<mapVars, backendVars, task>>
  PROVE  LookupsHold' /\ PairedAsRecorded'
BY DEF IInv, mapVars, backendVars, LookupsHold, PairedAsRecorded, Believes

LEMMA JoinsKeeps ==
  ASSUME IInv, NEW s \in Sensors, NEW a \in Addrs, NEW e \in Asked, Joins(s, a, e)
  PROVE  IInv'
<1> USE DEF Joins
<1>1. TypeOK'
  BY AskedAssumption
     DEF IInv, TypeOK, MapTypeOK, Entries, mapVars, backendVars, wayVars
<1>2. Sources'
  BY DEF IInv, Sources, TypeOK, wayVars
<1>3. ~Believes(a) /\ berths[a] = NoEntry
  BY DEF IInv, RecordedWasHandedOut, TablesAgree, HasBerth
<1>4. RecordedWasHandedOut' /\ TablesAgree' /\ FlowIsFresh'
  BY <1>3 DEF IInv, RecordedWasHandedOut, TablesAgree, FlowIsFresh, Believes, HasBerth,
              mapVars, backendVars
<1> QED
  BY <1>1, <1>2, <1>4, LookupsKept DEF IInv, wayVars

LEMMA BecomesReadyKeeps ==
  ASSUME IInv, BecomesReady
  PROVE  IInv'
<1> USE DEF BecomesReady
<1>1. TypeOK'
  BY DEF IInv, TypeOK, MapTypeOK, mapVars, backendVars, controlVars, wayVars, FlowIsFresh
<1>2. flow.addr \in Addrs
  BY DEF IInv, TypeOK, FlowIsFresh
<1>3. Sources'
  BY <1>2 DEF IInv, Sources, wayVars
<1> QED
  BY <1>1, <1>3, ViewKept, LookupsKept DEF IInv, wayVars, controlVars

(* A record: the map binds the address, and flash follows or is as it was. *)
LEMMA AdoptedKeeps ==
  ASSUME IInv, Adopted
  PROVE  IInv'
<1>1. PICK a \in Addrs, e \in Entry \cup {NoEntry} :
        a = flow.addr /\ e = flow.entry /\ a \in handedOut /\ ~Believes(a)
  BY DEF IInv, TypeOK, FlowIsFresh, Adopted, Entries
<1>2. /\ UNCHANGED <<sensorVars, nodeDb, handedOut, wayVars>> /\ flow' = NoFlow
      /\ task.at = "idle"
  BY DEF Adopted, BtcFree
<1>8. \/ UNCHANGED <<mapVars, backendVars>>
      \/ e # NoEntry /\ berths' = Bind(berths, a, e) /\ savedBerths' = berths'
                     /\ AnswersAdoption(e.berth, TRUE)
      \/ e # NoEntry /\ berths' = Bind(berths, a, e) /\ UNCHANGED savedBerths
                     /\ AnswersAdoption(e.berth, FALSE)
      \/ e # NoEntry /\ UNCHANGED mapVars /\ AnswersAdoption(e.berth, FALSE)
  BY <1>1 DEF Adopted, RecordSaved, RecordUnsaved, RecordRefused
<1>3. Sources' /\ LookupsHold' /\ PairedAsRecorded'
  BY <1>2 DEF IInv, Sources, LookupsHold, PairedAsRecorded, sensorVars, wayVars
<1>4. FlowIsFresh'
  BY <1>2 DEF FlowIsFresh
<1>5. CASE UNCHANGED <<mapVars, backendVars>>
  <2>1. TypeOK'
    BY <1>2, <1>5 DEF IInv, TypeOK, MapTypeOK, mapVars, backendVars, sensorVars, wayVars,
                      NoFlow, Entries
  <2>2. RecordedWasHandedOut' /\ TablesAgree'
    BY <1>2, <1>5 DEF IInv, RecordedWasHandedOut, TablesAgree, Believes, HasBerth,
                      mapVars, backendVars
  <2> QED
    BY <1>3, <1>4, <2>1, <2>2 DEF IInv
<1>6. CASE /\ e \in Entry /\ e # NoEntry
           /\ \/ berths' = Bind(berths, a, e) /\ savedBerths' = berths'
                                             /\ AnswersAdoption(e.berth, TRUE)
              \/ berths' = Bind(berths, a, e) /\ UNCHANGED savedBerths
                                             /\ AnswersAdoption(e.berth, FALSE)
              \/ UNCHANGED mapVars /\ AnswersAdoption(e.berth, FALSE)
  <2>1. e.berth \in Berths
    BY <1>6 DEF Entry
  <2> DEFINE B == Bind(berths, a, e)
  <2>11. berths \in Maps /\ savedBerths \in Maps
    BY DEF IInv, TypeOK, MapTypeOK
  <2>12. /\ B \in Maps /\ B[a] = e
         /\ \A x \in Addrs \ {a} : B[x] \in {NoEntry, berths[x]}
         /\ \A x \in Addrs \ {a} : berths[x] # NoEntry /\ berths[x].berth # e.berth
                                     => B[x] = berths[x]
    <3>1. a \in Addrs /\ e \in Entry
      BY <1>6
    <3> QED
      BY <2>11, <3>1 DEF Bind, Evicted, Mapped, Maps
  <2>13. /\ berths' \in {B, berths}
         /\ savedBerths' \in {B, savedBerths}
    BY <1>6 DEF mapVars
  <2> HIDE DEF B
  <2>2. MapTypeOK'
    BY <2>11, <2>12, <2>13 DEF MapTypeOK
  <2>3. rows' \in [Addrs -> Berths \cup {None}] /\ doubtful' \subseteq Berths
    BY <1>6, <2>1 DEF IInv, TypeOK, AnswersAdoption, RowsWith
  <2>4. TypeOK'
    BY <1>2, <2>2, <2>3 DEF IInv, TypeOK, sensorVars, wayVars, NoFlow, Entries
  <2>5. /\ \A x \in Addrs \ {a} : berths'[x] \in {NoEntry, berths[x]}
        /\ \A x \in Addrs \ {a} : savedBerths'[x] \in {NoEntry, berths[x], savedBerths[x]}
    BY <2>12, <2>13
  <2>6. RecordedWasHandedOut'
    BY <1>1, <1>2, <2>5 DEF IInv, RecordedWasHandedOut
  <2>7. ASSUME NEW x \in Addrs \ {a}, Believes(x)'
        PROVE  Believes(x) /\ rows'[x] = rows[x] /\ rows[x] # e.berth
    <3>1. x # flow.addr /\ x \in Addrs
      BY <1>1
    <3>2. rows' = rows \/ rows'[x] = IF rows[x] = e.berth THEN None ELSE rows[x]
      BY <1>6, <3>1 DEF AnswersAdoption, RowsWith
    <3>3. rows' # RowsWith(flow.addr, e.berth) => e.berth \in doubtful'
      BY <1>6 DEF AnswersAdoption
    <3>4. doubtful \subseteq doubtful' \cup {e.berth}
      BY <1>6 DEF AnswersAdoption
    <3>5. rows'[x] = rows[x] /\ rows[x] # e.berth
      BY <2>7, <3>1, <3>2, <3>3 DEF Believes, RowsWith
    <3> QED
      BY <2>7, <3>4, <3>5 DEF Believes
  <2>8. ASSUME NEW x \in Addrs \ {a}, Believes(x)'
        PROVE  HasBerth(berths'[x], rows'[x]) /\ HasBerth(savedBerths'[x], rows'[x])
    <3>1. HasBerth(berths[x], rows[x]) /\ HasBerth(savedBerths[x], rows[x])
      BY <2>7, <2>8 DEF IInv, TablesAgree
    <3>2. B[x] = berths[x] /\ rows'[x] = rows[x]
      BY <2>7, <2>8, <2>12, <3>1 DEF HasBerth
    <3> QED
      BY <2>13, <3>1, <3>2
  <2>9. ASSUME Believes(a)'
        PROVE  HasBerth(berths'[a], rows'[a]) /\ HasBerth(savedBerths'[a], rows'[a])
    <3>1. /\ berths' = Bind(berths, a, e) /\ savedBerths' = berths'
          /\ rows'[a] = e.berth
      BY <1>1, <1>6, <2>9 DEF AnswersAdoption, RowsWith, Believes, IInv, TypeOK
    <3>2. berths'[a] = e
      BY <2>12, <3>1 DEF B
    <3> QED
      BY <1>6, <3>1, <3>2 DEF HasBerth
  <2>10. TablesAgree'
    BY <2>8, <2>9 DEF TablesAgree
  <2> QED
    BY <1>3, <1>4, <2>4, <2>6, <2>10 DEF IInv
<1> QED
  BY <1>1, <1>5, <1>6, <1>8
(* What forgetting an address keeps, whoever does it.                      *)
LEMMA ForgettingKeeps ==
  ASSUME IInv, NEW a \in Addrs, Forgets(a), UNCHANGED <<handedOut, doubtful>>,
         ~Believes(a)',
         \A x \in Addrs \ {a} : rows'[x] = rows[x]
  PROVE  RecordedWasHandedOut' /\ TablesAgree'
<1>1. /\ berths'[a] = NoEntry
      /\ \A x \in Addrs \ {a} : berths'[x] = berths[x]
      /\ \A x \in Addrs : savedBerths'[x] \in {savedBerths[x], berths'[x]}
  BY Forgetting DEF IInv, TypeOK
<1>2. RecordedWasHandedOut'
  BY <1>1 DEF IInv, RecordedWasHandedOut
<1>3. ASSUME NEW x \in Addrs, Believes(x)'
      PROVE  HasBerth(berths'[x], rows'[x]) /\ HasBerth(savedBerths'[x], rows'[x])
  <2>1. x # a /\ Believes(x) /\ rows'[x] = rows[x]
    BY <1>3 DEF Believes
  <2>2. HasBerth(berths[x], rows[x]) /\ HasBerth(savedBerths[x], rows[x])
    BY <2>1 DEF IInv, TablesAgree
  <2> QED
    BY <1>1, <2>1, <2>2
<1> QED
  BY <1>2, <1>3 DEF TablesAgree

(* A flow that fails, in the timer's task perhaps, between the lookups of  *)
(* a message: it forgets an address nothing is recorded for.               *)
LEMMA FlowFailsKeeps ==
  ASSUME IInv, FlowFails
  PROVE  IInv'
<1>1. PICK a \in Addrs : a = flow.addr /\ ~Believes(a) /\ berths[a] = NoEntry
  BY DEF IInv, TypeOK, FlowIsFresh, FlowFails
<1>2. /\ Forgets(a) /\ UNCHANGED <<handedOut, backendVars, wayVars>> /\ flow' = NoFlow
      /\ nodeDb' = [nodeDb EXCEPT ![a] = None]
  BY <1>1 DEF FlowFails
<1>3. /\ addrOf' \in [Sensors -> Addrs \cup {None}]
      /\ publishing' \subseteq Sensors
      /\ \A x \in publishing' : addrOf'[x] \in Addrs
  BY Resetting DEF FlowFails, HearsReset, IInv, TypeOK, Sources, sensorVars
<1>4. /\ MapTypeOK' /\ berths'[a] = NoEntry
      /\ \A x \in Addrs \ {a} : berths'[x] = berths[x]
  BY <1>2, Forgetting DEF IInv, TypeOK
<1>5. TypeOK'
  BY <1>2, <1>3, <1>4 DEF IInv, TypeOK, backendVars, wayVars, NoFlow, Entries
<1>6. Sources'
  BY <1>2, <1>3 DEF IInv, Sources, wayVars
<1>7. RecordedWasHandedOut' /\ TablesAgree'
  BY <1>1, <1>2, ForgettingKeeps DEF backendVars, Believes
<1>8. LookupsHold' /\ PairedAsRecorded'
  BY <1>1, <1>2, <1>4
     DEF IInv, Sources, LookupsHold, PairedAsRecorded, Believes, backendVars, wayVars
<1> QED
  BY <1>2, <1>5, <1>6, <1>7, <1>8 DEF IInv, FlowIsFresh

LEMMA DecommissionedKeeps ==
  ASSUME IInv, NEW a \in Addrs, Decommissioned(a)
  PROVE  IInv'
<1>1. /\ Forgets(a) /\ rows' = [rows EXCEPT ![a] = None] /\ flow.addr # a
      /\ nodeDb' = [nodeDb EXCEPT ![a] = None]
      /\ UNCHANGED <<handedOut, flow, doubtful, wayVars>> /\ task.at = "idle"
  BY DEF Decommissioned, BtcFree
<1>2. /\ addrOf' \in [Sensors -> Addrs \cup {None}]
      /\ publishing' \subseteq Sensors
      /\ \A x \in publishing' : addrOf'[x] \in Addrs
  BY Resetting DEF Decommissioned, HearsReset, IInv, TypeOK, Sources, sensorVars
<1>3. /\ MapTypeOK' /\ \A x \in Addrs \ {a} : berths'[x] = berths[x]
  BY <1>1, Forgetting DEF IInv, TypeOK
<1>4. /\ rows' \in [Addrs -> Berths \cup {None}] /\ rows'[a] = None
      /\ \A x \in Addrs \ {a} : rows'[x] = rows[x]
  BY <1>1 DEF IInv, TypeOK
<1>5. TypeOK'
  BY <1>1, <1>2, <1>3, <1>4 DEF IInv, TypeOK, wayVars
<1>6. Sources'
  BY <1>1, <1>2 DEF IInv, Sources, wayVars
<1>7. RecordedWasHandedOut' /\ TablesAgree'
  BY <1>1, <1>4, ForgettingKeeps DEF Believes
<1>8. FlowIsFresh'
  BY <1>1, <1>3, <1>4 DEF IInv, TypeOK, FlowIsFresh, Believes
<1>9. LookupsHold' /\ PairedAsRecorded'
  BY <1>1 DEF LookupsHold, PairedAsRecorded, wayVars
<1> QED
  BY <1>5, <1>6, <1>7, <1>8, <1>9 DEF IInv

LEMMA ButtonWipesKeeps ==
  ASSUME IInv, NEW s \in Sensors, ButtonWipes(s)
  PROVE  IInv'
<1>1. /\ addrOf' \in [Sensors -> Addrs \cup {None}]
      /\ publishing' \subseteq Sensors
      /\ \A x \in publishing' : addrOf'[x] \in Addrs
  BY Resetting DEF ButtonWipes, IInv
<1>2. TypeOK' /\ Sources'
  BY <1>1 DEF IInv, TypeOK, MapTypeOK, Sources, ButtonWipes, mapVars, backendVars,
              controlVars, wayVars
<1> QED
  BY <1>2, ViewKept, LookupsKept DEF IInv, ButtonWipes, controlVars, wayVars

-----------------------------------------------------------------------------
(* The way of a message.                                                   *)

LEMMA AirCounts ==
  ASSUME IInv, NEW m
  PROVE  /\ IsFiniteSet(air \cup {m}) /\ IsFiniteSet(air \ {m})
         /\ Cardinality(air) < MaxFlight => Cardinality(air \cup {m}) <= MaxFlight
         /\ Cardinality(air \ {m}) <= MaxFlight
<1>1. IsFiniteSet(air) /\ Cardinality(air) \in Nat /\ Cardinality(air) <= MaxFlight
  BY FS_CardinalityType DEF IInv, Sources, TypeOK
<1>2. /\ IsFiniteSet(air \cup {m})
      /\ Cardinality(air \cup {m}) \in {Cardinality(air), Cardinality(air) + 1}
  BY <1>1, FS_AddElement
<1>3. /\ IsFiniteSet(air \ {m})
      /\ Cardinality(air \ {m}) \in {Cardinality(air), Cardinality(air) - 1}
  BY <1>1, FS_RemoveElement
<1> QED
  BY <1>1, <1>2, <1>3, FlightAssumption

LEMMA AirKeeps ==
  ASSUME IInv,
         \/ \E s \in Sensors : Sends(s)
         \/ \E m \in air : Lost(m)
  PROVE  IInv'
<1>1. UNCHANGED <<mapVars, sensorVars, backendVars, controlVars, task>>
  BY DEF Sends, Lost
<1>2. /\ air' \subseteq [from : Sensors, src : Addrs]
      /\ IsFiniteSet(air') /\ Cardinality(air') <= MaxFlight
  <2>1. CASE \E s \in Sensors : Sends(s)
    <3>1. PICK s \in Sensors : Sends(s)
      BY <2>1
    <3>2. [from |-> s, src |-> addrOf[s]] \in [from : Sensors, src : Addrs]
      BY <3>1 DEF Sends, IInv, Sources
    <3>3. /\ air' = air \cup {[from |-> s, src |-> addrOf[s]]}
          /\ Cardinality(air) < MaxFlight /\ air \subseteq [from : Sensors, src : Addrs]
      BY <3>1 DEF Sends, IInv, TypeOK
    <3> QED
      BY <3>2, <3>3, AirCounts
  <2>2. CASE \E m \in air : Lost(m)
    <3>1. PICK m \in air : air' = air \ {m}
      BY <2>2 DEF Lost
    <3>2. air \subseteq [from : Sensors, src : Addrs]
      BY DEF IInv, TypeOK
    <3> QED
      BY <3>1, <3>2, AirCounts
  <2> QED
    BY <2>1, <2>2
<1>3. TypeOK' /\ Sources'
  BY <1>1, <1>2 DEF IInv, TypeOK, MapTypeOK, Sources, mapVars, sensorVars, backendVars,
                    controlVars
<1> QED
  BY <1>1, <1>3, ViewKept, LookupsKept DEF IInv, controlVars

LEMMA ReceivesKeeps ==
  ASSUME IInv, NEW m \in air, Receives(m)
  PROVE  IInv'
<1>1. /\ UNCHANGED <<mapVars, sensorVars, backendVars, controlVars>>
      /\ task' = [Idle EXCEPT !.at = "berth", !.from = m.from, !.src = m.src]
      /\ m.from \in Sensors /\ m.src \in Addrs
  BY DEF Receives, IInv, TypeOK
<1>2. /\ air' \subseteq [from : Sensors, src : Addrs]
      /\ IsFiniteSet(air') /\ Cardinality(air') <= MaxFlight
  BY AirCounts DEF Receives, IInv, TypeOK
<1>3. TypeOK'
  BY <1>1, <1>2 DEF IInv, TypeOK, MapTypeOK, mapVars, sensorVars, backendVars, controlVars,
                    Idle, Entries
<1>4. Sources' /\ LookupsHold' /\ PairedAsRecorded'
  BY <1>1, <1>2 DEF IInv, Sources, LookupsHold, PairedAsRecorded, sensorVars, Idle
<1> QED
  BY <1>1, <1>3, <1>4, ViewKept DEF IInv, controlVars

LEMMA LooksUpBerthKeeps ==
  ASSUME IInv, LooksUpBerth
  PROVE  IInv'
<1>1. /\ UNCHANGED <<mapVars, sensorVars, backendVars, controlVars, air>>
      /\ task.at = "berth" /\ task.src \in Addrs
  BY DEF LooksUpBerth, IInv, Sources
<1>2. PICK e \in Entries : e = berths[task.src]
  BY <1>1 DEF IInv, TypeOK, MapTypeOK, Maps, Entries
<1>3. PICK b : b = RenderBerth(e, task.from)
  OBVIOUS
<1>4. task' = IF b = None THEN Idle ELSE [task EXCEPT !.at = "node", !.berth = b, !.of = e]
  BY <1>2, <1>3 DEF LooksUpBerth
<1>5. b \in Berths \cup {None} /\ task.from \in Sensors
  BY <1>1, <1>2, <1>3, SensorsAssumption DEF RenderBerth, Entries, Entry, IInv, Sources
<1>6. Believes(task.src) => b = rows[task.src] /\ b # None
  BY <1>1, <1>2, <1>3 DEF IInv, TablesAgree, HasBerth, RenderBerth, Believes
<1>7. CASE b = None
  <2>1. task' = Idle
    BY <1>4, <1>7
  <2>2. TypeOK' /\ Sources' /\ LookupsHold' /\ PairedAsRecorded'
    BY <1>1, <2>1 DEF IInv, TypeOK, MapTypeOK, Sources, LookupsHold, PairedAsRecorded,
         mapVars, sensorVars, backendVars, controlVars, Idle, Entries
  <2> QED
    BY <1>1, <2>2, ViewKept DEF IInv, controlVars
<1>8. CASE b # None
  <2>1. task' = [task EXCEPT !.at = "node", !.berth = b, !.of = e]
    BY <1>4, <1>8
  <2>2. /\ task'.at = "node" /\ task'.src = task.src /\ task'.from = task.from
        /\ task'.berth = b /\ task'.of = e /\ task'.node = task.node
    BY <2>1 DEF IInv, TypeOK
  <2>3. TypeOK' /\ Sources'
    BY <1>1, <1>5, <1>8, <2>1 DEF IInv, TypeOK, MapTypeOK, Sources,
         mapVars, sensorVars, backendVars, controlVars
  <2>4. LookupsHold' /\ PairedAsRecorded'
    BY <1>1, <1>2, <1>6, <2>2 DEF LookupsHold, PairedAsRecorded, Believes, mapVars, backendVars
  <2> QED
    BY <1>1, <2>3, <2>4, ViewKept DEF IInv, controlVars
<1> QED
  BY <1>7, <1>8

LEMMA LooksUpNodeKeeps ==
  ASSUME IInv, LooksUpNode
  PROVE  IInv'
<1>1. /\ UNCHANGED <<mapVars, sensorVars, backendVars, controlVars, air>>
      /\ task.at = "node" /\ task.src \in Addrs /\ task.of = berths[task.src]
      /\ task' = [task EXCEPT !.at = "publish", !.node = NodeIdOf(task.of)]
  BY DEF LooksUpNode, IInv, Sources, LookupsHold
<1>2. NodeIdOf(task.of) \in Nodes
  BY NodesAssumption DEF NodeIdOf, Nodes, Entries, Entry, IInv, TypeOK
<1>3. /\ task'.at = "publish" /\ task'.src = task.src /\ task'.from = task.from
      /\ task'.berth = task.berth /\ task'.of = task.of /\ task'.node = NodeIdOf(task.of)
  BY <1>1 DEF IInv, TypeOK
<1>4. TypeOK' /\ Sources'
  BY <1>1, <1>2 DEF IInv, TypeOK, MapTypeOK, Sources,
       mapVars, sensorVars, backendVars, controlVars
<1>5. LookupsHold' /\ PairedAsRecorded'
  BY <1>1, <1>3 DEF IInv, LookupsHold, PairedAsRecorded, Believes, backendVars
<1> QED
  BY <1>1, <1>4, <1>5, ViewKept DEF IInv, controlVars

LEMMA PublishesKeeps ==
  ASSUME IInv, Publishes
  PROVE  IInv'
<1>1. UNCHANGED <<mapVars, sensorVars, backendVars, controlVars, air>> /\ task' = Idle
  BY DEF Publishes
<1>2. TypeOK' /\ Sources' /\ LookupsHold' /\ PairedAsRecorded'
  BY <1>1 DEF IInv, TypeOK, MapTypeOK, Sources, LookupsHold, PairedAsRecorded,
       mapVars, sensorVars, backendVars, controlVars, Idle, Entries
<1> QED
  BY <1>1, <1>2, ViewKept DEF IInv, controlVars

(* The two restarts: what flash has is what the rows say, or nothing is    *)
(* believed any more.                                                      *)
LEMMA NoMessages ==
  /\ IsFiniteSet({}) /\ Cardinality({}) <= MaxFlight
  /\ {} \subseteq [from : Sensors, src : Addrs]
BY FS_EmptySet, FlightAssumption

LEMMA RestartsKeep ==
  ASSUME IInv, Reboot \/ GatewayWiped
  PROVE  IInv'
<1>1. /\ UNCHANGED <<sensorVars, rows>>
      /\ flow' = NoFlow /\ air' = {} /\ task' = Idle
  BY DEF Reboot, GatewayWiped, backendVars
<1>2. MapTypeOK' /\ nodeDb' \in [Addrs -> Sensors \cup {None}] /\ handedOut' \subseteq Addrs
      /\ doubtful' \subseteq Berths
  BY DEF IInv, TypeOK, MapTypeOK, Maps, NoMap, Reboot, GatewayWiped, RestoreMap, WipeMap,
       backendVars
<1>3. TypeOK' /\ Sources'
  BY <1>1, <1>2, NoMessages DEF IInv, TypeOK, Sources, sensorVars, NoFlow, Idle, Entries
<1>4. RecordedWasHandedOut'
  BY DEF IInv, RecordedWasHandedOut, Reboot, GatewayWiped, RestoreMap, WipeMap, NoMap
<1>5. TablesAgree'
  <2>1. CASE Reboot
    BY <2>1 DEF IInv, TablesAgree, Believes, Reboot, RestoreMap, backendVars
  <2>2. CASE GatewayWiped
    BY <2>2 DEF IInv, TypeOK, TablesAgree, Believes, GatewayWiped
  <2> QED
    BY <2>1, <2>2
<1>6. FlowIsFresh' /\ LookupsHold' /\ PairedAsRecorded'
  BY <1>1 DEF FlowIsFresh, LookupsHold, PairedAsRecorded, Idle
<1> QED
  BY <1>3, <1>4, <1>5, <1>6 DEF IInv

-----------------------------------------------------------------------------
LEMMA StepKeeps ==
  ASSUME IInv, [Next]_vars
  PROVE  IInv'
<1>1. CASE UNCHANGED vars
  <2>1. TypeOK' /\ Sources'
    BY <1>1 DEF IInv, TypeOK, MapTypeOK, Sources, vars, mapVars, sensorVars, backendVars,
         controlVars, wayVars
  <2> QED
    BY <1>1, <2>1, ViewKept, LookupsKept DEF IInv, vars, controlVars, wayVars
<1>2. CASE Next
  BY <1>2, JoinsKeeps, BecomesReadyKeeps, AdoptedKeeps, FlowFailsKeeps, DecommissionedKeeps,
     ButtonWipesKeeps, AirKeeps, ReceivesKeeps, LooksUpBerthKeeps, LooksUpNodeKeeps,
     PublishesKeeps, RestartsKeep DEF Next
<1> QED
  BY <1>1, <1>2

(* The table, the backend's rows and the BTC task between its lookups      *)
(* agree, whatever is lost: the inductive invariant holds.                 *)
THEOREM Invariance == Spec => []IInv
<1>1. Init => IInv
  BY Initially
<1>2. IInv /\ [Next]_vars => IInv'
  BY StepKeeps
<1> QED
  BY <1>1, <1>2, PTL DEF Spec

(* Every variable of Uplink has its type, and a topic has a berth.         *)
THEOREM TypeCorrect == Spec => []TypeOK
<1>1. IInv => TypeOK
  BY DEF IInv
<1> QED
  BY <1>1, Invariance, PTL

(* dp_gateway_uplink publishes a berth and a node id of one record of the  *)
(* table, although it makes two lookups without a lock.                    *)
THEOREM Paired == Spec => []PairedAsRecorded
<1>1. IInv => PairedAsRecorded
  BY DEF IInv
<1> QED
  BY <1>1, Invariance, PTL

(* A publication of an address the backend has a row for goes to the berth *)
(* of that row, unless the last adoption of the berth left no record or no *)
(* answer, or the gateway was wiped since.                                 *)
THEOREM Routed == Spec => []RoutedAsBackendBelieves
<1>1. IInv => RoutedAsBackendBelieves
  BY DEF IInv, LookupsHold, RoutedAsBackendBelieves, Believes
<1> QED
  BY <1>1, Invariance, PTL
=============================================================================
