-------------------------------- MODULE Codec ---------------------------------
(***************************************************************************)
(* The conversions a measurement goes through between the radar and the    *)
(* wire: components/dp_common/dp_common.c, to_status and to_diag of        *)
(* sensor_main.c, and dp_battery_read_pct.  Bytes are 0..255, sequences    *)
(* count from 1 where C counts from 0.                                     *)
(***************************************************************************)
EXTENDS Integers, Sequences

CONSTANT GATE_COUNT      \* DP_RADAR_GATE_COUNT

ASSUME GateAssumption == GATE_COUNT \in Nat

Byte == 0 .. 255
U16 == 0 .. 65535
U32 == {x \in Nat : x \div 65536 \in U16}
Gates == 1 .. GATE_COUNT

DP_BATTERY_UNKNOWN == 255
STATUS_LEN == 11
DIAG_LEN == 10 + 2 * GATE_COUNT

Samples == [state : Byte, distance : U16, gates : [Gates -> U16], ts : U32]
Statuses == [node_id : Byte, berth_id : U16, occupied : BOOLEAN, raw : U16,
             battery : Byte, ts : U32]
Diags == [node_id : Byte, berth_id : U16, state : Byte, distance : U16,
          gates : [Gates -> U16], ts : U32]

(* Little-endian words.                                                    *)
Byte0(x) == x % 256
Byte1(x) == (x \div 256) % 256
Byte2(x) == (x \div 65536) % 256
Byte3(x) == x \div 16777216

Word16(lo, hi) == lo + 256 * hi
Word32(a, b, c, d) == a + 256 * b + 65536 * c + 16777216 * d

-----------------------------------------------------------------------------
(* dp_battery_read_pct, from the millivolts at the pin: half of a cell of  *)
(* 3000 to 4200 mV.                                                        *)
BatteryPct(mv) ==
  LET pct == ((2 * mv - 3000) * 100) \div 1200
  IN IF pct < 0 THEN 0 ELSE IF pct > 100 THEN 100 ELSE pct

(* to_status, to_diag: the sample in millimetres, and as it is.  The node  *)
(* id is the berth hint too.                                               *)
ToStatus(s, occupied, battery, id) ==
  [node_id |-> id, berth_id |-> id, occupied |-> occupied,
   raw |-> (s.distance * 10) % 65536, battery |-> battery, ts |-> s.ts]

ToDiag(s, id) ==
  [node_id |-> id, berth_id |-> id, state |-> s.state, distance |-> s.distance,
   gates |-> s.gates, ts |-> s.ts]

-----------------------------------------------------------------------------
(* berth_status_pack and berth_status_unpack.                              *)
PackStatus(s) ==
  <<s.node_id, Byte0(s.berth_id), Byte1(s.berth_id), IF s.occupied THEN 1 ELSE 0,
    Byte0(s.raw), Byte1(s.raw), s.battery,
    Byte0(s.ts), Byte1(s.ts), Byte2(s.ts), Byte3(s.ts)>>

UnpackStatus(w) ==
  [node_id |-> w[1], berth_id |-> Word16(w[2], w[3]), occupied |-> w[4] # 0,
   raw |-> Word16(w[5], w[6]), battery |-> w[7],
   ts |-> Word32(w[8], w[9], w[10], w[11])]

(* Mutant: the gates start one byte late.                                  *)
GateAtOff(g) == 6 + 2 * g

(* The place of a gate's low byte: after the six bytes before the gates.   *)
GateAt(g) == 5 + 2 * g

(* berth_diag_pack and berth_diag_unpack.  Place i of the gates' bytes is  *)
(* the low byte of a gate when i is odd.                                   *)
GateOf(i) == (i - 5) \div 2

PackDiag(d) ==
  LET head == <<d.node_id, Byte0(d.berth_id), Byte1(d.berth_id), d.state,
                Byte0(d.distance), Byte1(d.distance)>>
      gate(i) == LET e == d.gates[GateOf(i)] IN IF i % 2 = 1 THEN Byte0(e) ELSE Byte1(e)
      end == <<Byte0(d.ts), Byte1(d.ts), Byte2(d.ts), Byte3(d.ts)>>
  IN [i \in 1 .. DIAG_LEN |->
        IF i <= 6 THEN head[i]
        ELSE IF i <= 6 + 2 * GATE_COUNT THEN gate(i)
        ELSE end[i - 6 - 2 * GATE_COUNT]]

UnpackDiag(w) ==
  LET t == 6 + 2 * GATE_COUNT
  IN [node_id |-> w[1], berth_id |-> Word16(w[2], w[3]), state |-> w[4],
      distance |-> Word16(w[5], w[6]),
      gates |-> [g \in Gates |-> Word16(w[GateAt(g)], w[GateAt(g) + 1])],
      ts |-> Word32(w[t + 1], w[t + 2], w[t + 3], w[t + 4])]
=============================================================================
