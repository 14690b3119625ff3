----------------------------- MODULE CodecProofs ------------------------------
(***************************************************************************)
(* The wire format loses nothing: unpacking what was packed gives back the *)
(* status or the diag, whatever its fields hold and however many gates the *)
(* radar has.                                                              *)
(***************************************************************************)
EXTENDS Codec, TLAPS

(* A number is its quotient and its remainder.                             *)
LEMMA QuotRem256 ==
  ASSUME NEW x \in Nat
  PROVE  /\ x % 256 \in Byte /\ x \div 256 \in Nat
         /\ (x % 256) + 256 * (x \div 256) = x
<1>1. x % 256 \in Byte /\ x \div 256 \in Nat
  BY SMT DEF Byte
<1>2. (x % 256) + 256 * (x \div 256) = x
  BY Z3
<1> QED
  BY <1>1, <1>2

(* The bounds of a 16-bit word, by way of a name for the last one.         *)
LEMMA TopOfU16 == \E n \in Int : n < 65536 /\ U16 = 0 .. n
<1>1. PICK n \in Int : n = 65535
  OBVIOUS
<1>2. n < 65536
  BY <1>1
<1>3. U16 = 0 .. n
  BY <1>1 DEF U16
<1> QED
  BY <1>2, <1>3

LEMMA BoundsU16 ==
  ASSUME NEW x \in U16
  PROVE  x \in Nat /\ x < 65536
<1>1. PICK n \in Int : n < 65536 /\ U16 = 0 .. n
  BY ONLY TopOfU16
<1>2. x \in Nat /\ x <= n
  BY ONLY <1>1
<1> QED
  BY ONLY <1>1, <1>2

(* The bytes of a 16-bit word put together give the word.                  *)
LEMMA Words16 ==
  ASSUME NEW x \in U16
  PROVE  Word16(Byte0(x), Byte1(x)) = x
<1>1. x \in Nat /\ x < 65536
  BY BoundsU16
<1>2. x \div 256 \in Byte
  BY <1>1, SMT DEF Byte
<1>3. (x \div 256) % 256 = x \div 256
  BY <1>2, SMT DEF Byte
<1> QED
  BY <1>1, <1>3, QuotRem256 DEF Word16, Byte0, Byte1

(* The bytes of a 32-bit word likewise, one division after the other.      *)
LEMMA Words32 ==
  ASSUME NEW x \in U32
  PROVE  Word32(Byte0(x), Byte1(x), Byte2(x), Byte3(x)) = x
<1> DEFINE y == x \div 256
<1> DEFINE z == y \div 256
<1> DEFINE t == z \div 256
<1>1. x \in Nat /\ y \in Nat /\ z \in Nat /\ t \in Nat
  <2>1. x \in Nat
    BY DEF U32
  <2>2. y \in Nat
    BY <2>1, QuotRem256
  <2>3. z \in Nat
    BY <2>2, QuotRem256
  <2> QED
    BY <2>1, <2>2, <2>3, QuotRem256
<1>2. x \div 65536 = z /\ x \div 16777216 = t
  BY <1>1, SMT
<1>3. (x % 256) + 256 * y = x /\ (y % 256) + 256 * z = y /\ (z % 256) + 256 * t = z
  BY <1>1, QuotRem256
<1>4. x % 256 \in Nat /\ y % 256 \in Nat /\ z % 256 \in Nat
  BY <1>1, QuotRem256 DEF Byte
<1>5. Word32(Byte0(x), Byte1(x), Byte2(x), Byte3(x))
        = (x % 256) + 256 * (y % 256) + 65536 * (z % 256) + 16777216 * t
  BY <1>2 DEF Word32, Byte0, Byte1, Byte2, Byte3
<1> HIDE DEF y, z, t
<1> QED
  BY <1>1, <1>3, <1>4, <1>5, SMT

(* berth_status_unpack undoes berth_status_pack (dp_common.c:14-55).       *)
THEOREM StatusRoundTrip ==
  ASSUME NEW s \in Statuses
  PROVE  UnpackStatus(PackStatus(s)) = s
<1>1. s.berth_id \in U16 /\ s.raw \in U16 /\ s.ts \in U32 /\ s.occupied \in BOOLEAN
  BY DEF Statuses
<1>2. Word16(Byte0(s.berth_id), Byte1(s.berth_id)) = s.berth_id
  BY <1>1, Words16
<1>3. Word16(Byte0(s.raw), Byte1(s.raw)) = s.raw
  BY <1>1, Words16
<1>4. Word32(Byte0(s.ts), Byte1(s.ts), Byte2(s.ts), Byte3(s.ts)) = s.ts
  BY <1>1, Words32
<1>5. ((IF s.occupied THEN 1 ELSE 0) # 0) = s.occupied
  BY <1>1
<1>6. UnpackStatus(PackStatus(s)) =
        [node_id |-> s.node_id, berth_id |-> s.berth_id, occupied |-> s.occupied,
         raw |-> s.raw, battery |-> s.battery, ts |-> s.ts]
  BY <1>2, <1>3, <1>4, <1>5 DEF PackStatus, UnpackStatus
<1> QED
  BY <1>6 DEF Statuses

(* berth_diag_unpack undoes berth_diag_pack (dp_common.c:57-108), with     *)
(* every gate in its place.                                                *)
THEOREM DiagRoundTrip ==
  ASSUME NEW d \in Diags
  PROVE  UnpackDiag(PackDiag(d)) = d
<1> DEFINE w == PackDiag(d)
<1> DEFINE e == 6 + 2 * GATE_COUNT
<1>1. /\ d.berth_id \in U16 /\ d.distance \in U16 /\ d.ts \in U32
      /\ d.gates \in [Gates -> U16]
  BY DEF Diags
<1>2. GATE_COUNT \in Nat
  BY GateAssumption
<1>3. /\ w[1] = d.node_id /\ w[4] = d.state
      /\ w[2] = Byte0(d.berth_id) /\ w[3] = Byte1(d.berth_id)
      /\ w[5] = Byte0(d.distance) /\ w[6] = Byte1(d.distance)
  BY <1>2 DEF PackDiag, DIAG_LEN
<1>4. /\ w[e + 1] = Byte0(d.ts) /\ w[e + 2] = Byte1(d.ts)
      /\ w[e + 3] = Byte2(d.ts) /\ w[e + 4] = Byte3(d.ts)
  BY <1>2 DEF PackDiag, DIAG_LEN
<1>5. ASSUME NEW g \in Gates
      PROVE  Word16(w[GateAt(g)], w[GateAt(g) + 1]) = d.gates[g]
  <2>1. /\ g \in Int /\ GateAt(g) \in 7 .. e /\ GateAt(g) + 1 \in 7 .. e
        /\ e + 4 = DIAG_LEN
    BY <1>2, SMT DEF Gates, GateAt, DIAG_LEN
  <2>2. GateOf(GateAt(g)) = g /\ GateOf(GateAt(g) + 1) = g
    BY <2>1, SMT DEF GateOf, GateAt
  <2>3. GateAt(g) % 2 = 1 /\ (GateAt(g) + 1) % 2 = 0
    BY <2>1, SMT DEF GateAt
  <2>4. w[GateAt(g)] = Byte0(d.gates[g]) /\ w[GateAt(g) + 1] = Byte1(d.gates[g])
    <3>1. ASSUME NEW i \in 7 .. e
          PROVE  w[i] = IF i % 2 = 1 THEN Byte0(d.gates[GateOf(i)])
                                     ELSE Byte1(d.gates[GateOf(i)])
      <4>1. i \in 1 .. DIAG_LEN /\ ~(i <= 6) /\ i <= 6 + 2 * GATE_COUNT
        BY <1>2, <2>1
      <4> QED
        BY ONLY <4>1 DEF PackDiag
    <3> HIDE DEF e, w
    <3> QED
      BY ONLY <2>1, <2>2, <2>3, <3>1
  <2>5. d.gates[g] \in U16
    BY <1>1
  <2> QED
    BY <2>4, <2>5, Words16
<1>6. /\ Word16(w[2], w[3]) = d.berth_id /\ Word16(w[5], w[6]) = d.distance
      /\ Word32(w[e + 1], w[e + 2], w[e + 3], w[e + 4]) = d.ts
  BY <1>1, <1>3, <1>4, Words16, Words32
<1>7. [g \in Gates |-> Word16(w[GateAt(g)], w[GateAt(g) + 1])] = d.gates
  BY <1>1, <1>5
<1>8. UnpackDiag(w) = [node_id |-> d.node_id, berth_id |-> d.berth_id, state |-> d.state,
                       distance |-> d.distance, gates |-> d.gates, ts |-> d.ts]
  <2> HIDE DEF w
  <2> QED
    BY <1>3, <1>6, <1>7 DEF UnpackDiag
<1> QED
  BY <1>8 DEF Diags
=============================================================================
