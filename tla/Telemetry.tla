------------------------------ MODULE Telemetry -------------------------------
(***************************************************************************)
(* What becomes of a measurement: read from the radar, judged, packed by   *)
(* the sensor, unpacked by the gateway and rendered as JSON for the status *)
(* and the diag topic.  The mesh may lose a message (Sensor, Uplink); here *)
(* it arrives at once, since only its contents are looked at.              *)
(***************************************************************************)
EXTENDS RadarReader

CONSTANTS
  NodeId,      \* CONFIG_DOCKPULSE_NODE_ID
  PinVolts,    \* millivolts the battery pin may have
  Nothing      \* no publication, or a field the JSON leaves out

ASSUME NodeIdAssumption == NodeId \in Byte
ASSUME PinAssumption == PinVolts \subseteq Nat

VARIABLES
  fresh,       \* the sample has not been published yet
  battery,     \* what dp_battery_read_pct last returned
  near,        \* the filter's verdict on the sample
  status,      \* the status topic's JSON
  diag         \* the diag topic's JSON

publishedVars == <<battery, near, status, diag>>
vars == <<readerVars, fresh, publishedVars>>

TypeOK ==
  /\ ReaderTypeOK
  /\ fresh => ~reading /\ sample # NoSample
  /\ battery \in 0 .. 100 \cup {DP_BATTERY_UNKNOWN}
  /\ near \in BOOLEAN

Init ==
  /\ ReaderInit
  /\ fresh = FALSE
  /\ battery = DP_BATTERY_UNKNOWN
  /\ near = FALSE
  /\ status = Nothing
  /\ diag = Nothing

-----------------------------------------------------------------------------
(* dp_gateway_uplink, its fields that come from the sensor: an unknown     *)
(* battery is left out.                                                    *)
StatusJson(s) ==
  [occupied |-> s.occupied, sensor_raw |-> s.raw,
   battery_pct |-> IF s.battery = DP_BATTERY_UNKNOWN THEN Nothing ELSE s.battery]

(* dp_gateway_uplink_diag.                                                 *)
DiagJson(d) ==
  [target_state |-> d.state, raw_distance_cm |-> d.distance, gate_energy |-> d.gates]

(* dp_mesh_provisioner_handle_model_op: a short message is not looked at.  *)
OnStatusWire(w) == IF Len(w) < STATUS_LEN THEN Nothing ELSE StatusJson(UnpackStatus(w))
OnDiagWire(w) == IF Len(w) < DIAG_LEN THEN Nothing ELSE DiagJson(UnpackDiag(w))

(* dp_battery_read_pct: without an ADC, or when it fails, nothing is known.*)
BatteryReading ==
  \/ battery' = DP_BATTERY_UNKNOWN
  \/ \E mv \in PinVolts : battery' = BatteryPct(mv)

(* The sensor's loop publishes the sample, as a status and as a diag.      *)
Publishes ==
  /\ fresh
  /\ BatteryReading
  /\ near' \in BOOLEAN
  /\ status' = OnStatusWire(PackStatus(ToStatus(sample, near', battery', NodeId)))
  /\ diag' = OnDiagWire(PackDiag(ToDiag(sample, NodeId)))
  /\ fresh' = FALSE
  /\ UNCHANGED readerVars

(* The loop's next call, whether the sample was due for publishing or not. *)
ReadsAgain ==
  /\ ReadCalled
  /\ fresh' = FALSE
  /\ battery' = DP_BATTERY_UNKNOWN /\ near' = FALSE
  /\ status' = Nothing /\ diag' = Nothing

(* A byte, or the end of a call.                                           *)
LineStep ==
  /\ TimesOut \/ ByteWaits \/ OldByte \/ ByteRead \/ ByteLost \/ ByteDamaged
  /\ fresh' = IF reading /\ ~reading' THEN sample' # NoSample ELSE fresh
  /\ UNCHANGED publishedVars

Next == Publishes \/ ReadsAgain \/ LineStep

Spec == Init /\ [][Next]_vars

-----------------------------------------------------------------------------
(* What the backend is told of a sample is what the radar measured:        *)
(* sensor_raw in millimetres, the gates in their order, and no battery     *)
(* rather than a wrong one (docs/architecture.md:110-135, 185-200).  The   *)
(* 16 bits of sensor_raw hold 65 m, which only a damaged frame exceeds.    *)
PublishedAsMeasured ==
  /\ status # Nothing =>
       /\ status.occupied = near
       /\ 10 * sample.distance <= 65535 => status.sensor_raw = 10 * sample.distance
       /\ status.battery_pct = IF battery \in 0 .. 100 THEN battery ELSE Nothing
  /\ diag # Nothing =>
       diag = [target_state |-> sample.state, raw_distance_cm |-> sample.distance,
               gate_energy |-> sample.gates]
=============================================================================
