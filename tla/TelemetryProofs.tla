--------------------------- MODULE TelemetryProofs ----------------------------
(***************************************************************************)
(* Proofs about Telemetry, for any number of gates, any reports and any    *)
(* damage to the line: types - the parser stays within its buffers -, that *)
(* what is published of a sample is what the radar measured, that a sample *)
(* is of the frame just sent unless its window was spoiled, and that each  *)
(* fault costs no more frames than one window keeps the parser from.       *)
(***************************************************************************)
EXTENDS Telemetry, CodecProofs, SequenceTheorems

(* How much of a frame is in the buffer in each of the parser's states.    *)
ParserInv ==
  /\ frame \in Seq(Byte) /\ expectedBody \in Int
  /\ state \in {"SYNC_HDR", "READ_LEN", "READ_BODY"}
  /\ hdrMatch \in 0 .. 3
  /\ state = "SYNC_HDR" => Len(frame) = 0
  /\ state = "READ_LEN" => Len(frame) \in {4, 5}
  /\ state = "READ_BODY" => /\ Len(frame) >= 6 /\ Len(frame) < expectedBody + 10
                            /\ expectedBody \in 3 .. MAX_FRAME - 10

LineInv ==
  /\ line \in [report : Reports, at : Nat]
  /\ line.at \in 1 .. Len(FrameOf(line.report))

CallInv ==
  /\ fifo \in Seq(Byte) /\ Len(fifo) <= FIFO_CAP
  /\ sample \in Samples \cup {NoSample}
  /\ reading \in BOOLEAN /\ whole \in BOOLEAN
  /\ missed \in Nat /\ damage \in 0 .. MaxDamage
  /\ strays \in Nat /\ window \in {"sound", "short", "spoiled"}

(* What has been published is the last sample, packed and unpacked.        *)
PublishedInv ==
  /\ fresh => ~reading /\ sample # NoSample
  /\ battery \in 0 .. 100 \cup {DP_BATTERY_UNKNOWN}
  /\ near \in BOOLEAN
  /\ status # Nothing => /\ ~reading /\ sample # NoSample
                         /\ status = StatusJson(ToStatus(sample, near, battery, NodeId))
  /\ diag # Nothing => /\ ~reading /\ sample # NoSample
                       /\ diag = DiagJson(ToDiag(sample, NodeId))

IInv == ParserInv /\ LineInv /\ CallInv /\ PublishedInv

-----------------------------------------------------------------------------
(* Bytes, words and frames.                                                *)

LEMMA BytesOf == ASSUME NEW x \in Nat PROVE Byte0(x) \in Byte /\ Byte1(x) \in Byte
<1>1. x % 256 \in Byte /\ x \div 256 \in Nat
  BY QuotRem256
<1>2. (x \div 256) % 256 \in Byte
  BY <1>1, QuotRem256
<1> QED
  BY <1>1, <1>2 DEF Byte0, Byte1

LEMMA FitsU16 ==
  ASSUME NEW v \in Int, 0 <= v, v <= 65535
  PROVE  v \in U16
<1> DEFINE n == 65535
<1>1. n \in Int /\ n = 65535
  OBVIOUS
<1> HIDE DEF n
<1>2. U16 = 0 .. n
  BY <1>1 DEF U16
<1>3. n \in Int /\ v \in Int /\ 0 <= v /\ v <= n
  BY <1>1
<1>4. v \in 0 .. n
  BY ONLY <1>3
<1> QED
  BY <1>2, <1>4

LEMMA WordOf == ASSUME NEW lo \in Byte, NEW hi \in Byte PROVE Word16(lo, hi) \in U16
<1>1. lo \in Int /\ hi \in Int /\ 0 <= lo /\ lo <= 255 /\ 0 <= hi /\ hi <= 255
  BY DEF Byte
<1>2. lo + 256 * hi \in Int /\ 0 <= lo + 256 * hi /\ lo + 256 * hi <= 65535
  BY ONLY <1>1
<1> QED
  BY <1>2, FitsU16 DEF Word16

LEMMA BufferSize == MAX_FRAME \in Nat /\ 13 <= MAX_FRAME /\ MAX_FRAME <= 255
<1>1. MAX_FRAME \in Nat /\ MAX_FRAME <= 255
  BY BuffersAssumption DEF Byte
<1>2. 13 + 2 * GATE_COUNT <= MAX_FRAME /\ GATE_COUNT \in Nat
  BY BuffersAssumption, GateAssumption
<1> QED
  BY ONLY <1>1, <1>2

LEMMA Fixed ==
  /\ REPORT_HDR \in Seq(Byte) /\ Len(REPORT_HDR) = 4
  /\ REPORT_TAIL \in Seq(Byte) /\ Len(REPORT_TAIL) = 4
BY DEF REPORT_HDR, REPORT_TAIL, Byte

(* What is sent between the header and the tail.                           *)
LEMMA BodyBytes ==
  ASSUME NEW r \in Reports
  PROVE  /\ Body(r) \in Seq(Byte) /\ Len(Body(r)) \in 3 .. 3 + 2 * GATE_COUNT
         /\ Body(r)[1] = r.state
         /\ Body(r)[2] = Byte0(r.distance) /\ Body(r)[3] = Byte1(r.distance)
         /\ r \in Bare => Len(Body(r)) = 3
         /\ r \notin Bare =>
              /\ Len(Body(r)) = 3 + 2 * GATE_COUNT
              /\ \A g \in Gates : /\ Body(r)[2 + 2 * g] = Byte0(r.gates[g])
                                  /\ Body(r)[3 + 2 * g] = Byte1(r.gates[g])
<1> DEFINE head == <<r.state, Byte0(r.distance), Byte1(r.distance)>>
           gates == [i \in 1 .. 2 * GATE_COUNT |->
                       LET e == r.gates[(i + 1) \div 2]
                       IN  IF i % 2 = 1 THEN Byte0(e) ELSE Byte1(e)]
           rest == IF r \in Bare THEN <<>> ELSE gates
           b == Body(r)
<1>1. /\ r.state \in Byte /\ r.distance \in Nat /\ r.gates \in [Gates -> Nat]
      /\ GATE_COUNT \in Nat
  <2>1. r \in [state : Byte, distance : U16, gates : [Gates -> U16]]
    BY ReportsAssumption
  <2>2. r.state \in Byte /\ r.distance \in U16 /\ r.gates \in [Gates -> U16]
    BY ONLY <2>1
  <2>3. \A x \in U16 : x \in Nat
    BY ONLY BoundsU16
  <2> QED
    BY ONLY <2>2, <2>3, GateAssumption
<1>2. /\ head \in Seq(Byte) /\ Len(head) = 3
      /\ head[1] = r.state /\ head[2] = Byte0(r.distance) /\ head[3] = Byte1(r.distance)
  <2>1. Byte0(r.distance) \in Byte /\ Byte1(r.distance) \in Byte
    BY <1>1, BytesOf
  <2> QED
    BY <1>1, <2>1
<1>3. gates \in Seq(Byte) /\ Len(gates) = 2 * GATE_COUNT
  <2>1. ASSUME NEW i \in 1 .. 2 * GATE_COUNT PROVE gates[i] \in Byte
    <3>1. (i + 1) \div 2 \in Gates
      BY <1>1 DEF Gates
    <3>2. r.gates[(i + 1) \div 2] \in Nat
      BY <1>1, <3>1
    <3> QED
      BY <3>2, BytesOf
  <2>2. gates \in [1 .. 2 * GATE_COUNT -> Byte] /\ 2 * GATE_COUNT \in Nat
    BY <1>1, <2>1
  <2> HIDE DEF gates
  <2> QED
    BY <2>2
<1>4. ASSUME NEW g \in Gates
      PROVE  /\ gates[2 * g - 1] = Byte0(r.gates[g]) /\ gates[2 * g] = Byte1(r.gates[g])
             /\ 2 * g - 1 \in 1 .. 2 * GATE_COUNT /\ 2 * g \in 1 .. 2 * GATE_COUNT
             /\ g \in Int
  <2>1. /\ 2 * g - 1 \in 1 .. 2 * GATE_COUNT /\ 2 * g \in 1 .. 2 * GATE_COUNT
        /\ (2 * g - 1 + 1) \div 2 = g /\ (2 * g + 1) \div 2 = g
        /\ (2 * g - 1) % 2 = 1 /\ (2 * g) % 2 # 1 /\ g \in Int
    BY <1>1 DEF Gates
  <2> QED
    BY <2>1
<1>5. rest \in Seq(Byte) /\ Len(rest) \in 0 .. 2 * GATE_COUNT
  <2> HIDE DEF gates
  <2> QED
    BY <1>1, <1>3
<1>6. b = head \o rest
  BY DEF Body
<1> HIDE DEF head, rest, gates, b
<1>7. /\ b \in Seq(Byte) /\ Len(b) = 3 + Len(rest)
      /\ \A i \in 1 .. 3 + Len(rest) : b[i] = IF i <= 3 THEN head[i] ELSE rest[i - 3]
  <2>1. /\ b \in Seq(Byte) /\ Len(b) = Len(head) + Len(rest)
        /\ \A i \in 1 .. Len(head) + Len(rest) :
              b[i] = IF i <= Len(head) THEN head[i] ELSE rest[i - Len(head)]
    BY ONLY <1>2, <1>5, <1>6, ConcatProperties
  <2> QED
    BY ONLY <1>2, <2>1
<1>8. b[1] = head[1] /\ b[2] = head[2] /\ b[3] = head[3]
  <2>1. Len(rest) \in Nat
    BY ONLY <1>5
  <2>2. \A i \in {1, 2, 3} : i \in 1 .. 3 + Len(rest) /\ i <= 3
    BY ONLY <2>1
  <2> QED
    BY ONLY <1>7, <2>2
<1>9. CASE r \in Bare
  <2>1. Len(rest) = 0
    BY <1>9 DEF rest
  <2> QED
    BY <1>1, <1>2, <1>7, <1>8, <1>9, <2>1 DEF b
<1>10. CASE r \notin Bare
  <2>1. rest = gates
    BY <1>10 DEF rest
  <2>2. ASSUME NEW g \in Gates
        PROVE  b[2 + 2 * g] = Byte0(r.gates[g]) /\ b[3 + 2 * g] = Byte1(r.gates[g])
    <3> DEFINE lo == 2 + 2 * g
               hi == 3 + 2 * g
    <3>1. Len(rest) = 2 * GATE_COUNT /\ g \in 1 .. GATE_COUNT
      BY <1>3, <2>1 DEF Gates
    <3>2. /\ lo \in 1 .. 3 + Len(rest) /\ ~(lo <= 3) /\ lo - 3 = 2 * g - 1
          /\ hi \in 1 .. 3 + Len(rest) /\ ~(hi <= 3) /\ hi - 3 = 2 * g
      BY ONLY <1>1, <3>1
    <3> HIDE DEF lo, hi
    <3>3. b[lo] = gates[2 * g - 1] /\ b[hi] = gates[2 * g]
      BY ONLY <1>7, <2>1, <3>2
    <3> QED
      BY <1>4, <3>3 DEF lo, hi
  <2> QED
    BY <1>1, <1>2, <1>3, <1>7, <1>8, <1>10, <2>1, <2>2 DEF b
<1> QED
  BY <1>9, <1>10

(* A report's frame: header, length, body, tail.                           *)
LEMMA FrameBytes ==
  ASSUME NEW r \in Reports
  PROVE  /\ FrameOf(r) \in Seq(Byte) /\ Len(FrameOf(r)) = Len(Body(r)) + 10
         /\ \A i \in 1 .. 4 : FrameOf(r)[i] = REPORT_HDR[i]
         /\ FrameOf(r)[5] = Byte0(Len(Body(r))) /\ FrameOf(r)[6] = Byte1(Len(Body(r)))
         /\ \A i \in 7 .. Len(Body(r)) + 6 : FrameOf(r)[i] = Body(r)[i - 6]
         /\ \A i \in 1 .. 4 : FrameOf(r)[Len(Body(r)) + 6 + i] = REPORT_TAIL[i]
<1> DEFINE b == Body(r)
           count == <<Byte0(Len(b)), Byte1(Len(b))>>
           front == REPORT_HDR \o count
           most == front \o b
           F == FrameOf(r)
<1>1. b \in Seq(Byte) /\ Len(b) \in Nat
  <2>1. b \in Seq(Byte)
    BY BodyBytes
  <2> QED
    BY <2>1
<1>2. /\ count \in Seq(Byte) /\ Len(count) = 2
      /\ count[1] = Byte0(Len(b)) /\ count[2] = Byte1(Len(b))
  <2> HIDE DEF b
  <2>1. Byte0(Len(b)) \in Byte /\ Byte1(Len(b)) \in Byte
    BY <1>1, BytesOf
  <2> QED
    BY <2>1
<1>3. F = most \o REPORT_TAIL
  BY DEF FrameOf
<1> HIDE DEF b, count, F
<1>4. /\ front \in Seq(Byte) /\ Len(front) = 6
      /\ \A i \in 1 .. 6 : front[i] = IF i <= 4 THEN REPORT_HDR[i] ELSE count[i - 4]
  <2>1. /\ front \in Seq(Byte) /\ Len(front) = Len(REPORT_HDR) + Len(count)
        /\ \A i \in 1 .. Len(REPORT_HDR) + Len(count) :
              front[i] = IF i <= Len(REPORT_HDR) THEN REPORT_HDR[i]
                                                 ELSE count[i - Len(REPORT_HDR)]
    BY ONLY <1>2, Fixed, ConcatProperties
  <2> QED
    BY ONLY <1>2, Fixed, <2>1
<1> HIDE DEF front
<1>5. /\ most \in Seq(Byte) /\ Len(most) = 6 + Len(b)
      /\ \A i \in 1 .. 6 + Len(b) : most[i] = IF i <= 6 THEN front[i] ELSE b[i - 6]
  <2>1. /\ most \in Seq(Byte) /\ Len(most) = Len(front) + Len(b)
        /\ \A i \in 1 .. Len(front) + Len(b) :
              most[i] = IF i <= Len(front) THEN front[i] ELSE b[i - Len(front)]
    BY ONLY <1>1, <1>4, ConcatProperties
  <2> QED
    BY ONLY <1>4, <2>1
<1> HIDE DEF most
<1>6. /\ F \in Seq(Byte) /\ Len(F) = Len(b) + 10
      /\ \A i \in 1 .. Len(b) + 10 :
            F[i] = IF i <= Len(b) + 6 THEN most[i] ELSE REPORT_TAIL[i - (Len(b) + 6)]
  <2>1. /\ F \in Seq(Byte) /\ Len(F) = Len(most) + Len(REPORT_TAIL)
        /\ \A i \in 1 .. Len(most) + Len(REPORT_TAIL) :
              F[i] = IF i <= Len(most) THEN most[i] ELSE REPORT_TAIL[i - Len(most)]
    BY ONLY <1>3, <1>5, Fixed, ConcatProperties
  <2> QED
    BY ONLY <1>1, <1>5, Fixed, <2>1
<1>7. \A i \in 1 .. 6 : F[i] = front[i]
  <2>1. \A i \in 1 .. 6 : /\ i \in 1 .. Len(b) + 10 /\ i <= Len(b) + 6
                          /\ i \in 1 .. 6 + Len(b) /\ i <= 6
    BY ONLY <1>1
  <2> QED
    BY ONLY <1>5, <1>6, <2>1
<1>8. \A i \in 1 .. 4 : F[i] = REPORT_HDR[i]
  <2>1. \A i \in 1 .. 4 : i \in 1 .. 6 /\ i <= 4
    OBVIOUS
  <2> QED
    BY ONLY <1>4, <1>7, <2>1
<1>9. F[5] = Byte0(Len(b)) /\ F[6] = Byte1(Len(b))
  BY ONLY <1>2, <1>4, <1>7
<1>10. \A i \in 7 .. Len(b) + 6 : F[i] = b[i - 6]
  <2>1. \A i \in 7 .. Len(b) + 6 : /\ i \in 1 .. Len(b) + 10 /\ i <= Len(b) + 6
                                   /\ i \in 1 .. 6 + Len(b) /\ ~(i <= 6)
    BY ONLY <1>1
  <2> QED
    BY ONLY <1>5, <1>6, <2>1
<1>11. \A i \in 1 .. 4 : F[Len(b) + 6 + i] = REPORT_TAIL[i]
  <2>1. \A i \in 1 .. 4 : /\ Len(b) + 6 + i \in 1 .. Len(b) + 10
                          /\ ~(Len(b) + 6 + i <= Len(b) + 6)
                          /\ Len(b) + 6 + i - (Len(b) + 6) = i
    BY ONLY <1>1
  <2> QED
    BY ONLY <1>6, <2>1
<1> QED
  BY <1>6, <1>8, <1>9, <1>10, <1>11 DEF F, b

(* It fits the buffer.                                                     *)
LEMMA FrameFits ==
  ASSUME NEW r \in Reports
  PROVE  FrameOf(r) \in Seq(Byte) /\ Len(FrameOf(r)) \in 13 .. MAX_FRAME
<1>1. Len(Body(r)) \in 3 .. 3 + 2 * GATE_COUNT
  BY BodyBytes
<1>2. FrameOf(r) \in Seq(Byte) /\ Len(FrameOf(r)) = Len(Body(r)) + 10
  BY FrameBytes
<1> QED
  BY ONLY <1>1, <1>2, BufferSize, GateAssumption, BuffersAssumption

LEMMA NextByteTyped == ASSUME LineInv PROVE NextByte \in Byte
<1>1. line.report \in Reports /\ line.at \in 1 .. Len(FrameOf(line.report))
  BY DEF LineInv
<1> QED
  BY <1>1, FrameFits, ElementOfSeq DEF NextByte

LEMMA LineKeeps == ASSUME LineInv, LineMoves PROVE LineInv'
<1>1. /\ line.report \in Reports /\ line.at \in 1 .. Len(FrameOf(line.report))
      /\ line \in [report : Reports, at : Nat]
  BY DEF LineInv
<1>2. \A r \in Reports : Len(FrameOf(r)) \in 13 .. MAX_FRAME
  BY FrameFits
<1>3. CASE AtEnd
  <2>1. line' \in [report : Reports, at : {1}]
    BY <1>3 DEF LineMoves
  <2>2. line'.report \in Reports /\ line'.at = 1
    BY <2>1
  <2>3. 1 \in 1 .. Len(FrameOf(line'.report))
    BY <1>2, <2>2
  <2> QED
    BY <2>1, <2>2, <2>3 DEF LineInv
<1>4. CASE ~AtEnd
  <2>1. line' = [line EXCEPT !.at = line.at + 1]
    BY <1>4 DEF LineMoves
  <2>2. line'.report = line.report /\ line'.at = line.at + 1
    BY <1>1, <2>1
  <2>3. line.at + 1 \in 1 .. Len(FrameOf(line.report)) /\ line.at + 1 \in Nat
    BY <1>1, <1>2, <1>4, BuffersAssumption DEF AtEnd
  <2>4. line' \in [report : Reports, at : Nat]
    BY <1>1, <2>1, <2>3
  <2> QED
    BY <2>2, <2>3, <2>4 DEF LineInv
<1> QED
  BY <1>3, <1>4

-----------------------------------------------------------------------------
(* The parser, one byte at a time.                                         *)

LEMMA SyncKeeps ==
  ASSUME ParserInv, NEW b \in Byte, SyncByte(b)
  PROVE  ParserInv' /\ reading' = TRUE /\ sample' = sample
<1>1. state = "SYNC_HDR" /\ Len(frame) = 0
  BY DEF ParserInv, SyncByte
<1>2. reading' = TRUE /\ sample' = sample /\ expectedBody' = expectedBody
  BY DEF SyncByte, ReturnsNothing
<1>3. CASE state' = "READ_LEN" /\ hdrMatch' = 0 /\ frame' = REPORT_HDR
  BY <1>2, <1>3, Fixed DEF ParserInv
<1>4. CASE hdrMatch' = hdrMatch + 1 /\ hdrMatch + 1 # 4 /\ UNCHANGED <<state, frame>>
  BY <1>1, <1>2, <1>4 DEF ParserInv
<1>5. CASE hdrMatch' = Restart(b) /\ UNCHANGED <<state, frame>>
  BY <1>1, <1>2, <1>5 DEF ParserInv, Restart
<1> QED
  BY <1>3, <1>4, <1>5, Fixed DEF SyncByte

LEMMA ResyncKeeps ==
  ASSUME Resync, expectedBody' \in Int
  PROVE  ParserInv'
BY DEF Resync, ParserInv

LEMMA Appended ==
  ASSUME NEW f \in Seq(Byte), NEW b \in Byte
  PROVE  Append(f, b) \in Seq(Byte) /\ Len(Append(f, b)) = Len(f) + 1
OBVIOUS

LEMMA LenKeeps ==
  ASSUME ParserInv, NEW b \in Byte, LenByte(b)
  PROVE  ParserInv' /\ reading' = TRUE /\ sample' = sample
<1>1. /\ state = "READ_LEN" /\ Len(frame) \in {4, 5} /\ frame \in Seq(Byte)
      /\ hdrMatch \in 0 .. 3 /\ expectedBody \in Int
  BY DEF ParserInv, LenByte
<1>2. reading' = TRUE /\ sample' = sample
  BY DEF LenByte, ReturnsNothing
<1>3. Append(frame, b) \in Seq(Byte) /\ Len(Append(frame, b)) = Len(frame) + 1
  BY <1>1, Appended
<1>4. CASE Len(frame) + 1 < 6
  <2>1. frame' = Append(frame, b) /\ UNCHANGED <<state, hdrMatch, expectedBody>>
    BY <1>4 DEF LenByte
  <2>2. Len(frame') \in {4, 5}
    BY <1>1, <1>3, <1>4, <2>1
  <2> QED
    BY <1>1, <1>2, <1>3, <2>1, <2>2 DEF ParserInv
<1>5. CASE ~(Len(frame) + 1 < 6)
  <2> DEFINE body == Word16(frame[5], b)
  <2>1. Len(frame) = 5
    <3>1. Len(frame) = 4 \/ Len(frame) = 5
      BY <1>1
    <3>2. 4 + 1 < 6
      OBVIOUS
    <3> QED
      BY ONLY <1>5, <3>1, <3>2, Zenon
  <2>2. body \in Int
    <3>0. 5 \in 1 .. Len(frame)
      BY <2>1
    <3>1. frame[5] \in Byte
      BY ONLY <1>1, <3>0, ElementOfSeq
    <3>2. body \in U16
      BY <3>1, WordOf
    <3>3. \A x \in U16 : x \in Nat
      BY ONLY BoundsU16
    <3> HIDE DEF body
    <3> QED
      BY ONLY <3>2, <3>3
  <2>3. /\ expectedBody' = body
        /\ IF GoodLength(body)
           THEN state' = "READ_BODY" /\ frame' = Append(frame, b) /\ UNCHANGED hdrMatch
           ELSE Resync
    BY <1>5 DEF LenByte
  <2> HIDE DEF body
  <2>4. CASE GoodLength(body)
    <3>1. body \in 3 .. MAX_FRAME - 10
      BY <2>2, <2>4, BufferSize DEF GoodLength
    <3>2. Len(frame') = 6 /\ frame' \in Seq(Byte)
      BY <1>3, <2>1, <2>3, <2>4
    <3>3. Len(frame') < expectedBody' + 10
      BY <3>1, <3>2, <2>3, BuffersAssumption
    <3> QED
      BY <1>1, <1>2, <2>2, <2>3, <2>4, <3>1, <3>2, <3>3 DEF ParserInv
  <2>5. CASE ~GoodLength(body)
    BY <1>2, <2>2, <2>3, <2>5, ResyncKeeps
  <2> QED
    BY <2>4, <2>5
<1> QED
  BY <1>4, <1>5

(* The places of a frame the code reads are in the frame.                  *)
LEMMA SampleTyped ==
  ASSUME NEW f \in Seq(Byte), expectedBody \in Int, expectedBody >= 3,
         Len(f) = expectedBody + 10
  PROVE  SampleOf(f) \in Samples
<1>1. f[7] \in Byte /\ f[8] \in Byte /\ f[9] \in Byte
  <2>1. 7 \in 1 .. Len(f) /\ 8 \in 1 .. Len(f) /\ 9 \in 1 .. Len(f)
    OBVIOUS
  <2> QED
    BY <2>1, ElementOfSeq
<1>2. ASSUME NEW g \in Gates
      PROVE  (IF expectedBody >= 3 + 2 * GATE_COUNT
              THEN Word16(f[8 + 2 * g], f[9 + 2 * g]) ELSE 0) \in U16
  <2>1. CASE expectedBody >= 3 + 2 * GATE_COUNT
    <3>1. 8 + 2 * g \in 1 .. Len(f) /\ 9 + 2 * g \in 1 .. Len(f)
      BY <2>1, GateAssumption DEF Gates
    <3>2. f[8 + 2 * g] \in Byte /\ f[9 + 2 * g] \in Byte
      BY ONLY <3>1, f \in Seq(Byte), ElementOfSeq
    <3> QED
      BY <2>1, <3>2, WordOf
  <2>2. CASE ~(expectedBody >= 3 + 2 * GATE_COUNT)
    BY <2>2 DEF U16
  <2> QED
    BY <2>1, <2>2
<1>3. Word16(f[8], f[9]) \in U16
  BY <1>1, WordOf
<1> QED
  BY <1>1, <1>2, <1>3, BytesAssumption DEF SampleOf, Samples

LEMMA BodyKeeps ==
  ASSUME ParserInv, NEW b \in Byte, BodyByte(b), sample \in Samples \cup {NoSample}
  PROVE  /\ ParserInv' /\ reading' \in BOOLEAN
         /\ sample' \in Samples \cup {NoSample}
<1> DEFINE f == Append(frame, b)
<1>1. /\ state = "READ_BODY" /\ frame \in Seq(Byte) /\ hdrMatch \in 0 .. 3
      /\ expectedBody \in Int /\ expectedBody \in 3 .. MAX_FRAME - 10
      /\ Len(frame) >= 6 /\ Len(frame) < expectedBody + 10
  BY DEF ParserInv, BodyByte
<1>2. f \in Seq(Byte) /\ Len(f) = Len(frame) + 1 /\ Len(frame) \in Nat
  BY <1>1, Appended
<1>3. /\ IF Len(f) < expectedBody + 10
         THEN frame' = f /\ UNCHANGED <<state, hdrMatch>> /\ ReturnsNothing
         ELSE /\ Resync
              /\ IF HasTail(f) THEN reading' = FALSE /\ sample' = SampleOf(f)
                 ELSE ReturnsNothing
      /\ expectedBody' = expectedBody
  BY DEF BodyByte
<1> HIDE DEF f
<1>4. CASE Len(f) < expectedBody + 10
  <2>1. frame' = f /\ UNCHANGED <<state, hdrMatch, sample>> /\ reading' = TRUE
    BY <1>3, <1>4 DEF ReturnsNothing
  <2>2. Len(frame') >= 6 /\ Len(frame') < expectedBody' + 10
    BY <1>1, <1>2, <1>3, <1>4, <2>1
  <2> QED
    BY <1>1, <1>2, <1>3, <2>1, <2>2 DEF ParserInv
<1>5. CASE ~(Len(f) < expectedBody + 10)
  <2>1. ParserInv'
    BY <1>1, <1>3, <1>5, ResyncKeeps
  <2>2. Len(f) = expectedBody + 10
    BY <1>1, <1>2, <1>5
  <2>3. SampleOf(f) \in Samples
    BY <1>1, <1>2, <2>2, SampleTyped
  <2> QED
    BY <1>3, <1>5, <2>1, <2>3 DEF ReturnsNothing
<1> QED
  BY <1>4, <1>5

(* There is room for the next byte.                                        *)
LEMMA BufferHolds == ASSUME ParserInv PROVE Len(frame) < MAX_FRAME
<1>1. ParserInv /\ 13 <= MAX_FRAME /\ MAX_FRAME \in Nat
  BY BufferSize
<1>2. CASE state = "READ_BODY"
  <2>1. Len(frame) \in Nat /\ Len(frame) < expectedBody + 10
        /\ expectedBody \in 3 .. MAX_FRAME - 10
    BY <1>1, <1>2 DEF ParserInv
  <2> QED
    BY ONLY <1>1, <2>1
<1>3. CASE state # "READ_BODY"
  <2>1. Len(frame) \in {0, 4, 5}
    BY <1>1, <1>3 DEF ParserInv
  <2>2. Len(frame) = 0 \/ Len(frame) = 4 \/ Len(frame) = 5
    BY <2>1
  <2>3. 0 < MAX_FRAME /\ 4 < MAX_FRAME /\ 5 < MAX_FRAME
    BY <1>1
  <2> QED
    BY ONLY <2>2, <2>3, Zenon
<1> QED
  BY <1>2, <1>3

LEMMA ReadsKeep ==
  ASSUME ParserInv, CallInv, NEW b \in Byte, Reads(b)
  PROVE  /\ ParserInv' /\ reading' \in BOOLEAN
         /\ sample' \in Samples \cup {NoSample}
<1>1. sample \in Samples \cup {NoSample}
  BY DEF CallInv
<1> QED
  BY <1>1, SyncKeeps, LenKeeps, BodyKeeps DEF Reads

-----------------------------------------------------------------------------
(* What is packed and published.                                           *)

LEMMA BatteryTyped == ASSUME NEW mv \in Nat PROVE BatteryPct(mv) \in 0 .. 100
<1> DEFINE pct == ((2 * mv - 3000) * 100) \div 1200
<1>1. pct \in Int
  OBVIOUS
<1>2. BatteryPct(mv) = IF pct < 0 THEN 0 ELSE IF pct > 100 THEN 100 ELSE pct
  BY DEF BatteryPct
<1> HIDE DEF pct
<1> QED
  BY <1>1, <1>2

LEMMA StatusTyped ==
  ASSUME NEW s \in Samples, NEW occupied \in BOOLEAN,
         NEW b \in 0 .. 100 \cup {DP_BATTERY_UNKNOWN}
  PROVE  ToStatus(s, occupied, b, NodeId) \in Statuses
<1>1. s.distance \in U16 /\ s.ts \in U32
  BY DEF Samples
<1>2. s.distance \in Int
  <2>1. \A x \in U16 : x \in Nat
    BY ONLY BoundsU16
  <2> QED
    BY ONLY <1>1, <2>1
<1>3. (s.distance * 10) % 65536 \in U16
  <2> DEFINE x == s.distance * 10
  <2>1. x \in Int
    BY <1>2
  <2> HIDE DEF x
  <2>2. x % 65536 \in Int /\ 0 <= x % 65536 /\ x % 65536 <= 65535
    BY <2>1
  <2> QED
    BY <2>2, FitsU16 DEF x
<1>4. NodeId \in Byte /\ NodeId \in U16
  <2>1. NodeId \in Int /\ 0 <= NodeId /\ NodeId <= 65535
    BY NodeIdAssumption DEF Byte
  <2> QED
    BY <2>1, NodeIdAssumption, FitsU16
<1>5. b \in Byte
  BY DEF Byte, DP_BATTERY_UNKNOWN
<1> QED
  BY <1>1, <1>3, <1>4, <1>5 DEF ToStatus, Statuses

LEMMA DiagTyped == ASSUME NEW s \in Samples PROVE ToDiag(s, NodeId) \in Diags
<1>1. NodeId \in Byte /\ NodeId \in U16
  <2>1. NodeId \in Int /\ 0 <= NodeId /\ NodeId <= 65535
    BY NodeIdAssumption DEF Byte
  <2> QED
    BY <2>1, NodeIdAssumption, FitsU16
<1> QED
  BY <1>1 DEF ToDiag, Diags, Samples

(* Neither message is short.                                               *)
LEMMA WireLengths ==
  /\ \A s : Len(PackStatus(s)) = STATUS_LEN
  /\ \A d : Len(PackDiag(d)) = DIAG_LEN
<1>1. ASSUME NEW s PROVE Len(PackStatus(s)) = STATUS_LEN
  BY DEF PackStatus, STATUS_LEN
<1>2. ASSUME NEW d PROVE Len(PackDiag(d)) = DIAG_LEN
  <2> DEFINE w == PackDiag(d)
             S == {w[i] : i \in 1 .. DIAG_LEN}
  <2>1. DIAG_LEN \in Nat
    BY GateAssumption DEF DIAG_LEN
  <2>2. w = [i \in 1 .. DIAG_LEN |-> w[i]]
    BY DEF PackDiag
  <2> HIDE DEF w
  <2>3. w \in [1 .. DIAG_LEN -> S]
    BY <2>2
  <2> HIDE DEF S
  <2> QED
    BY <2>1, <2>3 DEF w
<1> QED
  BY <1>1, <1>2

(* A status or a diag arrives as it was packed.                            *)
LEMMA Arrives ==
  ASSUME NEW s \in Samples, NEW occupied \in BOOLEAN,
         NEW b \in 0 .. 100 \cup {DP_BATTERY_UNKNOWN}
  PROVE  /\ OnStatusWire(PackStatus(ToStatus(s, occupied, b, NodeId)))
              = StatusJson(ToStatus(s, occupied, b, NodeId))
         /\ OnDiagWire(PackDiag(ToDiag(s, NodeId))) = DiagJson(ToDiag(s, NodeId))
<1>1. UnpackStatus(PackStatus(ToStatus(s, occupied, b, NodeId)))
        = ToStatus(s, occupied, b, NodeId)
  BY StatusTyped, StatusRoundTrip
<1>2. UnpackDiag(PackDiag(ToDiag(s, NodeId))) = ToDiag(s, NodeId)
  BY DiagTyped, DiagRoundTrip
<1>3. ~(STATUS_LEN < STATUS_LEN) /\ ~(DIAG_LEN < DIAG_LEN)
  BY GateAssumption DEF STATUS_LEN, DIAG_LEN
<1> QED
  BY <1>1, <1>2, <1>3, WireLengths DEF OnStatusWire, OnDiagWire

-----------------------------------------------------------------------------
(* Every step preserves the invariant.                                     *)

LEMMA InitHolds == Init => IInv
<1> SUFFICES ASSUME Init PROVE IInv
  OBVIOUS
<1>1. ParserInv
  BY DEF Init, ReaderInit, ParserInv
<1>2. LineInv
  <2>1. line.report \in Reports /\ line.at = 1 /\ line \in [report : Reports, at : Nat]
    BY DEF Init, ReaderInit
  <2>2. Len(FrameOf(line.report)) \in 13 .. MAX_FRAME
    BY <2>1, FrameFits
  <2> QED
    BY <2>1, <2>2, BuffersAssumption DEF LineInv
<1>3. CallInv
  <2>1. reading \in BOOLEAN /\ whole \in BOOLEAN
    BY Zenon DEF Init, ReaderInit
  <2>2. /\ fifo = <<>> /\ sample = NoSample /\ missed = 0 /\ damage = 0
        /\ strays = 0 /\ window = "sound"
    BY DEF Init, ReaderInit
  <2>3. fifo \in Seq(Byte) /\ Len(fifo) = 0 /\ 0 <= FIFO_CAP
    BY <2>2, BuffersAssumption
  <2>4. missed \in Nat /\ damage \in 0 .. MaxDamage /\ strays \in Nat
    BY <2>2, BytesAssumption
  <2> QED
    BY <2>1, <2>2, <2>3, <2>4 DEF CallInv
<1>4. PublishedInv
  BY DEF Init, PublishedInv
<1> QED
  BY <1>1, <1>2, <1>3, <1>4 DEF IInv

LEMMA PublishesKeeps == ASSUME IInv, Publishes PROVE IInv'
<1>1. ~reading /\ sample \in Samples /\ sample # NoSample
  BY DEF IInv, CallInv, PublishedInv, Publishes
<1>2. battery' \in 0 .. 100 \cup {DP_BATTERY_UNKNOWN} /\ near' \in BOOLEAN
  <2>1. CASE battery' = DP_BATTERY_UNKNOWN
    BY <2>1 DEF Publishes
  <2>2. CASE \E mv \in PinVolts : battery' = BatteryPct(mv)
    BY <2>2, PinAssumption, BatteryTyped DEF Publishes
  <2> QED
    BY <2>1, <2>2 DEF Publishes, BatteryReading
<1>3. /\ status' = StatusJson(ToStatus(sample, near', battery', NodeId))
      /\ diag' = DiagJson(ToDiag(sample, NodeId))
  BY <1>1, <1>2, Arrives DEF Publishes
<1>4. UNCHANGED <<line, fifo, reading, parserVars, sample, history>> /\ ~fresh'
  BY DEF Publishes, readerVars
<1>5. ParserInv' /\ LineInv' /\ CallInv'
  BY <1>4 DEF IInv, ParserInv, LineInv, CallInv, parserVars, history
<1>6. PublishedInv'
  BY <1>1, <1>2, <1>3, <1>4 DEF PublishedInv
<1> QED
  BY <1>5, <1>6 DEF IInv

LEMMA ReadsAgainKeeps == ASSUME IInv, ReadsAgain PROVE IInv'
<1> USE DEF ReadsAgain, ReadCalled
<1>1. ParserInv'
  BY DEF ParserInv
<1>2. LineInv'
  BY DEF IInv, LineInv
<1>3. CallInv'
  <2>1. reading' \in BOOLEAN /\ whole' \in BOOLEAN
    BY Zenon
  <2>2. /\ fifo' = <<>> /\ sample' = NoSample /\ missed' = 0 /\ damage' = 0
        /\ strays' = 0 /\ window' = "sound"
    BY DEF FlushedInput
  <2>3. fifo' \in Seq(Byte) /\ Len(fifo') = 0 /\ 0 <= FIFO_CAP
    BY <2>2, BuffersAssumption
  <2>4. missed' \in Nat /\ damage' \in 0 .. MaxDamage /\ strays' \in Nat
    BY <2>2, BytesAssumption
  <2> QED
    BY <2>1, <2>2, <2>3, <2>4 DEF CallInv
<1>4. PublishedInv'
  BY DEF PublishedInv
<1> QED
  BY <1>1, <1>2, <1>3, <1>4 DEF IInv

(* What is published stays as it is while a call ends or bytes come.       *)
LEMMA PublishedStays ==
  ASSUME PublishedInv, reading \in BOOLEAN, UNCHANGED publishedVars,
         fresh' = IF reading /\ ~reading' THEN sample' # NoSample ELSE fresh,
         ~reading => UNCHANGED <<reading, sample>>
  PROVE  PublishedInv'
<1>1. UNCHANGED <<battery, near, status, diag>>
  BY DEF publishedVars
<1>2. CASE ~reading
  <2>1. UNCHANGED <<reading, sample>> /\ fresh' = fresh
    BY <1>2
  <2> QED
    BY <1>1, <2>1 DEF PublishedInv
<1>3. CASE reading
  <2>1. ~fresh /\ status' = Nothing /\ diag' = Nothing
    BY <1>1, <1>3 DEF PublishedInv
  <2>2. fresh' => ~reading' /\ sample' # NoSample
    BY <1>3, <2>1
  <2> QED
    BY <1>1, <2>1, <2>2 DEF PublishedInv
<1> QED
  BY <1>2, <1>3

LEMMA TimesOutKeeps == ASSUME IInv, TimesOut PROVE ParserInv' /\ LineInv' /\ CallInv'
<1>1. UNCHANGED <<line, fifo, parserVars, sample, history>>
  BY DEF TimesOut
<1>2. reading' \in BOOLEAN
  BY Zenon DEF TimesOut
<1> QED
  BY <1>1, <1>2 DEF IInv, ParserInv, LineInv, CallInv, parserVars, history

LEMMA ByteWaitsKeeps == ASSUME IInv, ByteWaits PROVE ParserInv' /\ LineInv' /\ CallInv'
<1>1. LineInv' /\ NextByte \in Byte
  BY LineKeeps, NextByteTyped DEF IInv, ByteWaits
<1>2. fifo' \in Seq(Byte) /\ Len(fifo') <= FIFO_CAP
  <2>1. fifo \in Seq(Byte) /\ Len(fifo) <= FIFO_CAP /\ Len(fifo) \in Nat
    BY DEF IInv, CallInv
  <2>2. CASE Len(fifo) < FIFO_CAP
    <3>1. fifo' = Append(fifo, NextByte)
      BY <2>2 DEF ByteWaits
    <3>2. fifo' \in Seq(Byte) /\ Len(fifo') = Len(fifo) + 1
      BY <1>1, <2>1, <3>1, Appended
    <3> QED
      BY <2>1, <2>2, <3>2, BuffersAssumption
  <2>3. CASE ~(Len(fifo) < FIFO_CAP)
    BY <2>1, <2>3 DEF ByteWaits
  <2> QED
    BY <2>2, <2>3
<1>3. UNCHANGED <<reading, parserVars, sample, history>>
  BY DEF ByteWaits
<1> QED
  BY <1>1, <1>2, <1>3 DEF IInv, ParserInv, CallInv, parserVars, history

LEMMA OldByteKeeps == ASSUME IInv, OldByte PROVE ParserInv' /\ LineInv' /\ CallInv'
<1>1. fifo \in Seq(Byte) /\ fifo # <<>> /\ Len(fifo) \in Nat /\ Len(fifo) <= FIFO_CAP
  BY DEF IInv, CallInv, OldByte
<1>2. /\ Head(fifo) \in Byte /\ fifo' \in Seq(Byte) /\ Len(fifo') = Len(fifo) - 1
  BY <1>1, HeadTailProperties DEF OldByte
<1>3. /\ ParserInv' /\ reading' \in BOOLEAN
      /\ sample' \in Samples \cup {NoSample}
  BY <1>2, ReadsKeep DEF IInv, OldByte
<1>4. UNCHANGED <<line, history>>
  BY DEF OldByte
<1>5. Len(fifo') <= FIFO_CAP
  BY <1>1, <1>2, BuffersAssumption
<1> QED
  BY <1>2, <1>3, <1>4, <1>5 DEF IInv, LineInv, CallInv, history

LEMMA ByteReadKeeps == ASSUME IInv, ByteRead PROVE ParserInv' /\ LineInv' /\ CallInv'
<1>1. LineInv' /\ NextByte \in Byte
  BY LineKeeps, NextByteTyped DEF IInv, ByteRead
<1>2. /\ ParserInv' /\ reading' \in BOOLEAN
      /\ sample' \in Samples \cup {NoSample}
  BY <1>1, ReadsKeep DEF IInv, ByteRead
<1>3. whole' \in BOOLEAN
  BY Zenon DEF ByteRead
<1>4. missed' \in Nat /\ strays' \in Nat /\ window' \in {"sound", "short", "spoiled"}
  BY DEF IInv, CallInv, ByteRead
<1>5. UNCHANGED <<fifo, damage>>
  BY DEF ByteRead
<1> QED
  BY <1>1, <1>2, <1>3, <1>4, <1>5 DEF IInv, CallInv

LEMMA DamageTyped ==
  ASSUME CallInv, Damages
  PROVE  damage' \in 0 .. MaxDamage /\ whole' \in BOOLEAN
<1>1. whole' \in BOOLEAN
  BY Zenon DEF Damages
<1>2. damage' \in 0 .. MaxDamage
  BY BytesAssumption DEF CallInv, Damages
<1> QED
  BY <1>1, <1>2

LEMMA ByteLostKeeps == ASSUME IInv, ByteLost PROVE ParserInv' /\ LineInv' /\ CallInv'
<1>1. LineInv'
  BY LineKeeps DEF IInv, ByteLost
<1>2. damage' \in 0 .. MaxDamage /\ whole' \in BOOLEAN
  BY DamageTyped DEF IInv, ByteLost
<1>3. UNCHANGED <<fifo, reading, parserVars, sample, missed, strays>>
  BY DEF ByteLost
<1>4. window' \in {"sound", "short", "spoiled"}
  BY DEF ByteLost
<1> QED
  BY <1>1, <1>2, <1>3, <1>4 DEF IInv, ParserInv, CallInv, parserVars

LEMMA ByteDamagedKeeps == ASSUME IInv, ByteDamaged PROVE ParserInv' /\ LineInv' /\ CallInv'
<1>1. LineInv'
  BY LineKeeps DEF IInv, ByteDamaged
<1>2. damage' \in 0 .. MaxDamage /\ whole' \in BOOLEAN
  BY DamageTyped DEF IInv, ByteDamaged
<1>3. PICK b \in NoiseBytes : Reads(b)
  BY DEF ByteDamaged
<1>4. /\ ParserInv' /\ reading' \in BOOLEAN
      /\ sample' \in Samples \cup {NoSample}
  BY <1>3, BytesAssumption, ReadsKeep DEF IInv
<1>5. UNCHANGED <<fifo, missed, strays>> /\ window' \in {"sound", "short", "spoiled"}
  BY DEF ByteDamaged
<1> QED
  BY <1>1, <1>2, <1>4, <1>5 DEF IInv, CallInv

LEMMA LineStepKeeps == ASSUME IInv, LineStep PROVE IInv'
<1>1. ParserInv' /\ LineInv' /\ CallInv'
  BY TimesOutKeeps, ByteWaitsKeeps, OldByteKeeps, ByteReadKeeps, ByteLostKeeps,
     ByteDamagedKeeps DEF LineStep
<1>2. ~reading => UNCHANGED <<reading, sample>>
  BY DEF LineStep, TimesOut, ByteWaits, OldByte, ByteRead, ByteLost, ByteDamaged
<1>3. PublishedInv'
  BY <1>2, PublishedStays DEF IInv, CallInv, LineStep
<1> QED
  BY <1>1, <1>3 DEF IInv

LEMMA StepHolds == IInv /\ [Next]_vars => IInv'
<1> SUFFICES ASSUME IInv, [Next]_vars PROVE IInv'
  OBVIOUS
<1>1. CASE UNCHANGED vars
  BY <1>1 DEF IInv, ParserInv, LineInv, CallInv, PublishedInv,
              vars, readerVars, parserVars, history, publishedVars
<1> QED
  BY <1>1, PublishesKeeps, ReadsAgainKeeps, LineStepKeeps DEF Next

-----------------------------------------------------------------------------
THEOREM TelemetryInvariant == Spec => []IInv
BY InitHolds, StepHolds, PTL DEF Spec

(* The parser of dp_radar_read never writes past its frame buffer nor      *)
(* compares with a byte past the header, whatever bytes come.              *)
THEOREM TelemetryTypes == Spec => []TypeOK
<1>1. IInv => TypeOK
  <2> SUFFICES ASSUME IInv PROVE TypeOK
    OBVIOUS
  <2>1. line \in [report : Reports, at : 1 .. MAX_FRAME]
    <3>1. line.report \in Reports /\ line.at \in 1 .. Len(FrameOf(line.report))
      BY DEF IInv, LineInv
    <3>2. Len(FrameOf(line.report)) \in 13 .. MAX_FRAME
      BY <3>1, FrameFits
    <3>3. line.at \in 1 .. MAX_FRAME
      BY <3>1, <3>2, BufferSize
    <3> QED
      BY <3>1, <3>3 DEF IInv, LineInv
  <2>2. Len(frame) < MAX_FRAME
    BY BufferHolds DEF IInv
  <2>3. hdrMatch \in 0 .. Len(REPORT_HDR) - 1
    BY Fixed DEF IInv, ParserInv
  <2>4. ReaderTypeOK
    BY <2>1, <2>2, <2>3 DEF IInv, ParserInv, CallInv, ReaderTypeOK
  <2> QED
    BY <2>4 DEF IInv, PublishedInv, TypeOK
<1> QED
  BY TelemetryInvariant, <1>1, PTL

(* What the backend is told of a sample is what was measured, through      *)
(* to_status, berth_status_pack and unpack, berth_diag_pack and unpack and *)
(* the JSON, as long as its distance in millimetres fits 16 bits.          *)
THEOREM MeasuredIsPublished == Spec => []PublishedAsMeasured
<1>1. IInv => PublishedAsMeasured
  <2> SUFFICES ASSUME IInv PROVE PublishedAsMeasured
    OBVIOUS
  <2>1. ASSUME status # Nothing
        PROVE  /\ status.occupied = near
               /\ 10 * sample.distance <= 65535 => status.sensor_raw = 10 * sample.distance
               /\ status.battery_pct = IF battery \in 0 .. 100 THEN battery ELSE Nothing
    <3>1. /\ sample \in Samples
          /\ status = StatusJson(ToStatus(sample, near, battery, NodeId))
          /\ battery \in 0 .. 100 \cup {DP_BATTERY_UNKNOWN}
      BY <2>1 DEF IInv, CallInv, PublishedInv
    <3>2. 10 * sample.distance <= 65535
            => (sample.distance * 10) % 65536 = 10 * sample.distance
      <4>1. sample.distance \in U16
        BY <3>1 DEF Samples
      <4>2. \A x \in U16 : x \in Nat
        BY ONLY BoundsU16
      <4>3. sample.distance \in Int /\ 0 <= sample.distance
        BY ONLY <4>1, <4>2
      <4> DEFINE d == sample.distance
      <4>4. d \in Int /\ 0 <= d
        BY <4>3
      <4> HIDE DEF d
      <4>5. 10 * d <= 65535 => (d * 10) % 65536 = 10 * d
        BY ONLY <4>4
      <4> QED
        BY <4>5 DEF d
    <3>3. (battery = DP_BATTERY_UNKNOWN) <=> battery \notin 0 .. 100
      BY <3>1 DEF DP_BATTERY_UNKNOWN
    <3> QED
      BY <3>1, <3>2, <3>3 DEF StatusJson, ToStatus
  <2>2. ASSUME diag # Nothing
        PROVE  diag = [target_state |-> sample.state, raw_distance_cm |-> sample.distance,
                       gate_energy |-> sample.gates]
    BY <2>2 DEF IInv, PublishedInv, DiagJson, ToDiag
  <2> QED
    BY <2>1, <2>2 DEF PublishedAsMeasured
<1> QED
  BY TelemetryInvariant, <1>1, PTL

-----------------------------------------------------------------------------
(* The parser and the line.                                                *)

Sent == FrameOf(line.report)
At == line.at
BodyLen == Len(Body(line.report))

(* The parser has read the frame on the line up to here, and nothing else. *)
InStep ==
  IF At <= 4 THEN state = "SYNC_HDR" /\ (At > 1 => hdrMatch = At - 1)
  ELSE /\ state = IF At <= 6 THEN "READ_LEN" ELSE "READ_BODY"
       /\ Len(frame) = At - 1 /\ \A i \in 1 .. At - 1 : frame[i] = Sent[i]
       /\ At >= 7 => expectedBody = BodyLen

(* It has read it but for one byte, and takes it to be as long as it is;   *)
(* the byte it lacks at the end is the first of the next frame.            *)
Short ==
  \/ /\ Len(frame) = At - 2 /\ At >= 6
     /\ state = "READ_LEN" /\ Len(frame) = 5 => frame[5] \in {Sent[5], Sent[6]}
     /\ state = "READ_BODY" => expectedBody = BodyLen
  \/ state = "READ_BODY" /\ Len(frame) = expectedBody + 9 /\ At = 1

(* What an open window holds, by what it is made of.                       *)
WindowInv ==
  reading =>
    /\ fifo = <<>> /\ sample = NoSample
    /\ At = 1 => ~whole
    /\ state # "SYNC_HDR" => /\ window = "sound" => At >= 5 /\ whole /\ InStep
                             /\ window = "short" => Short

(* What the faults so far may cost, and how much of what the last of them  *)
(* may cost has been spent.                                                *)
Allowed == FramesPerWindow * (damage + strays)
Spent == missed + FramesPerWindow - Allowed

(* The frame on the line will be missed.                                   *)
Late == whole /\ ~InStep

(* A window that is not sound grows with the line: a frame that goes by    *)
(* whole has come after its header, byte for byte, or began before it and  *)
(* was reckoned with an earlier window.                                    *)
MissInv ==
  /\ missed <= Allowed
  /\ reading =>
       IF state = "SYNC_HDR" \/ window = "sound" THEN Late => missed + 1 <= Allowed
       ELSE /\ 13 * Spent <= Len(frame) - 4
            /\ whole => 13 * Spent + (At - 1) <= Len(frame) - 4 \/ Spent + 1 <= 0

LEMMA LineFacts ==
  ASSUME LineInv
  PROVE  /\ line.report \in Reports /\ Sent \in Seq(Byte) /\ Len(Sent) = BodyLen + 10
         /\ At \in Nat /\ At >= 1 /\ At <= Len(Sent)
         /\ BodyLen \in Nat /\ BodyLen >= 3 /\ BodyLen <= 3 + 2 * GATE_COUNT
         /\ BodyLen + 10 <= MAX_FRAME /\ BodyLen <= 245 /\ BodyLen \in U16
         /\ NextByte = Sent[At] /\ NextByte \in Byte
         /\ AtEnd <=> At = Len(Sent)
<1>1. line.report \in Reports /\ line.at \in Nat /\ line.at \in 1 .. Len(FrameOf(line.report))
  BY DEF LineInv
<1>2. Sent \in Seq(Byte) /\ Len(Sent) = BodyLen + 10
  BY <1>1, FrameBytes DEF Sent, BodyLen
<1>3. BodyLen \in 3 .. 3 + 2 * GATE_COUNT
  BY <1>1, BodyBytes DEF BodyLen
<1>4. At \in Nat /\ At \in 1 .. Len(Sent)
  BY <1>1 DEF At, Sent
<1>5. MAX_FRAME \in Nat /\ MAX_FRAME <= 255 /\ GATE_COUNT \in Nat
  BY BuffersAssumption, GateAssumption DEF Byte
<1>6. BodyLen \in Nat /\ BodyLen + 10 <= MAX_FRAME /\ BodyLen <= 245
  BY <1>3, <1>5, BuffersAssumption
<1>7. BodyLen \in U16
  BY <1>6, FitsU16
<1>8. NextByte = Sent[At] /\ (AtEnd <=> At = Len(Sent))
  BY DEF NextByte, AtEnd, Sent, At
<1>9. NextByte \in Byte
  BY NextByteTyped
<1> QED
  BY <1>1, <1>2, <1>3, <1>4, <1>5, <1>6, <1>7, <1>8, <1>9

LEMMA LineNext ==
  ASSUME LineInv, LineMoves
  PROVE  /\ AtEnd => At' = 1
         /\ ~AtEnd => At' = At + 1 /\ Sent' = Sent /\ BodyLen' = BodyLen
<1>1. CASE AtEnd
  <2>1. line' \in [report : Reports, at : {1}]
    BY <1>1 DEF LineMoves
  <2> QED
    BY <1>1, <2>1 DEF At
<1>2. CASE ~AtEnd
  <2>1. line' = [line EXCEPT !.at = line.at + 1]
    BY <1>2 DEF LineMoves
  <2>2. line'.report = line.report /\ line'.at = line.at + 1
    BY <2>1 DEF LineInv
  <2> QED
    BY <1>2, <2>2 DEF At, Sent, BodyLen
<1> QED
  BY <1>1, <1>2

LEMMA Marks ==
  /\ REPORT_HDR[1] = 244 /\ REPORT_HDR[2] = 243 /\ REPORT_HDR[3] = 242 /\ REPORT_HDR[4] = 241
  /\ REPORT_TAIL[4] = 245
BY DEF REPORT_HDR, REPORT_TAIL

LEMMA SentHeader == ASSUME LineInv PROVE \A i \in 1 .. 4 : Sent[i] = REPORT_HDR[i]
BY LineFacts, FrameBytes DEF Sent

LEMMA SentTail == ASSUME LineInv PROVE Sent[Len(Sent)] = REPORT_TAIL[4]
<1>1. /\ line.report \in Reports /\ BodyLen \in Nat /\ Len(Sent) = BodyLen + 10
  BY LineFacts
<1>2. \A i \in 1 .. 4 : Sent[BodyLen + 6 + i] = REPORT_TAIL[i]
  BY <1>1, FrameBytes DEF Sent, BodyLen
<1>3. Sent[BodyLen + 6 + 4] = REPORT_TAIL[4] /\ BodyLen + 6 + 4 = Len(Sent)
  <2>1. 4 \in 1 .. 4 /\ BodyLen + 6 + 4 = Len(Sent)
    BY <1>1
  <2> QED
    BY ONLY <1>2, <2>1
<1> QED
  BY ONLY <1>3

LEMMA SentLength ==
  ASSUME LineInv
  PROVE  /\ Sent[5] = Byte0(BodyLen) /\ Sent[6] = Byte1(BodyLen)
         /\ Word16(Sent[5], Sent[6]) = BodyLen /\ GoodLength(BodyLen)
<1>1. Sent[5] = Byte0(BodyLen) /\ Sent[6] = Byte1(BodyLen)
  BY LineFacts, FrameBytes DEF Sent, BodyLen
<1>2. Word16(Byte0(BodyLen), Byte1(BodyLen)) = BodyLen
  BY LineFacts, Words16
<1>3. GoodLength(BodyLen)
  BY LineFacts DEF GoodLength
<1> QED
  BY ONLY <1>1, <1>2, <1>3

(* Looking for a header, the parser returns nothing.                       *)
LEMMA SyncStep ==
  ASSUME ParserInv, state = "SYNC_HDR", NEW b \in Byte, Reads(b)
  PROVE  /\ reading' = TRUE /\ sample' = sample /\ expectedBody' = expectedBody
         /\ \/ /\ hdrMatch = 3 /\ b = REPORT_HDR[4]
               /\ state' = "READ_LEN" /\ frame' = REPORT_HDR
            \/ /\ hdrMatch < 3 /\ b = REPORT_HDR[hdrMatch + 1]
               /\ state' = "SYNC_HDR" /\ hdrMatch' = hdrMatch + 1
            \/ /\ b # REPORT_HDR[hdrMatch + 1]
               /\ state' = "SYNC_HDR" /\ hdrMatch' = Restart(b)
<1>1. SyncByte(b)
  BY DEF Reads, LenByte, BodyByte
<1>2. reading' = TRUE /\ sample' = sample /\ expectedBody' = expectedBody
  BY <1>1 DEF SyncByte, ReturnsNothing
<1>3. hdrMatch \in 0 .. 3 /\ Len(REPORT_HDR) = 4
  BY Fixed DEF ParserInv
<1>4. CASE b = REPORT_HDR[hdrMatch + 1] /\ hdrMatch + 1 = 4
  <2>1. hdrMatch = 3
    BY ONLY <1>3, <1>4
  <2> QED
    BY <1>1, <1>2, <1>3, <1>4, <2>1 DEF SyncByte
<1>5. CASE b = REPORT_HDR[hdrMatch + 1] /\ hdrMatch + 1 # 4
  <2>1. hdrMatch < 3
    BY ONLY <1>3, <1>5
  <2> QED
    BY <1>1, <1>2, <1>3, <1>5, <2>1 DEF SyncByte
<1>6. CASE b # REPORT_HDR[hdrMatch + 1]
  BY <1>1, <1>2, <1>6 DEF SyncByte
<1> QED
  BY <1>4, <1>5, <1>6

(* A byte that fits is kept.                                               *)
LEMMA Kept ==
  ASSUME NEW f \in Seq(Byte), NEW b \in Byte
  PROVE  /\ Append(f, b)[Len(f) + 1] = b
         /\ \A i \in 1 .. Len(f) : Append(f, b)[i] = f[i]
OBVIOUS

(* In a length or a body, a byte ends the call, is dropped with all before *)
(* it, or is kept.                                                         *)
LEMMA FrameStep ==
  ASSUME ParserInv, state # "SYNC_HDR", NEW b \in Byte, Reads(b), state' # "SYNC_HDR"
  PROVE  /\ reading' = TRUE /\ sample' = sample /\ frame' = Append(frame, b)
         /\ \/ /\ state = "READ_LEN" /\ Len(frame) = 4
               /\ state' = "READ_LEN" /\ expectedBody' = expectedBody
            \/ /\ state = "READ_LEN" /\ Len(frame) = 5
               /\ state' = "READ_BODY" /\ expectedBody' = Word16(frame[5], b)
            \/ /\ state = "READ_BODY" /\ Len(frame) + 1 < expectedBody + 10
               /\ state' = "READ_BODY" /\ expectedBody' = expectedBody
<1>1. CASE state = "READ_LEN"
  <2>1. LenByte(b) /\ Len(frame) \in {4, 5}
    BY <1>1 DEF Reads, SyncByte, BodyByte, ParserInv
  <2>2. reading' = TRUE /\ sample' = sample
    BY <2>1 DEF LenByte, ReturnsNothing
  <2>3. CASE Len(frame) = 4
    <3>1. Len(frame) + 1 < 6
      BY <2>3
    <3> QED
      BY <1>1, <2>1, <2>2, <2>3, <3>1 DEF LenByte
  <2>4. CASE Len(frame) = 5
    <3>1. ~(Len(frame) + 1 < 6)
      BY <2>4
    <3>2. /\ expectedBody' = Word16(frame[5], b)
          /\ IF GoodLength(Word16(frame[5], b))
             THEN state' = "READ_BODY" /\ frame' = Append(frame, b) /\ UNCHANGED hdrMatch
             ELSE Resync
      BY <2>1, <3>1 DEF LenByte
    <3> QED
      BY <1>1, <2>2, <2>4, <3>2 DEF Resync
  <2> QED
    BY <2>1, <2>3, <2>4
<1>2. CASE state = "READ_BODY"
  <2>1. BodyByte(b) /\ frame \in Seq(Byte)
    BY <1>2 DEF Reads, SyncByte, LenByte, ParserInv
  <2>2. Len(Append(frame, b)) = Len(frame) + 1
    BY <2>1, Appended
  <2>3. /\ Len(Append(frame, b)) < expectedBody + 10
        /\ frame' = Append(frame, b) /\ UNCHANGED <<state, hdrMatch>> /\ ReturnsNothing
        /\ expectedBody' = expectedBody
    BY <2>1 DEF BodyByte, Resync
  <2> QED
    BY <1>2, <2>2, <2>3 DEF ReturnsNothing
<1> QED
  BY <1>1, <1>2 DEF ParserInv

(* A call returns with a whole frame in the buffer.                        *)
LEMMA Returns ==
  ASSUME ParserInv, NEW b \in Byte, Reads(b), reading' # TRUE
  PROVE  /\ state = "READ_BODY" /\ Len(frame) + 1 = expectedBody + 10
         /\ sample' = SampleOf(Append(frame, b)) /\ b = REPORT_TAIL[4]
<1>1. BodyByte(b) /\ state = "READ_BODY"
  BY DEF Reads, SyncByte, LenByte, BodyByte, ReturnsNothing
<1>2. /\ frame \in Seq(Byte) /\ Len(frame) >= 6 /\ Len(frame) < expectedBody + 10
      /\ expectedBody \in Int /\ Len(frame) \in Nat
  BY <1>1 DEF ParserInv
<1> DEFINE f == Append(frame, b)
<1>3. f \in Seq(Byte) /\ Len(f) = Len(frame) + 1 /\ f[Len(frame) + 1] = b
  BY <1>2, Appended, Kept
<1>4. ~(Len(f) < expectedBody + 10) /\ HasTail(f) /\ sample' = SampleOf(f)
  BY <1>1 DEF BodyByte, ReturnsNothing
<1> HIDE DEF f
<1>5. Len(frame) + 1 = expectedBody + 10
  BY ONLY <1>2, <1>3, <1>4
<1>6. b = REPORT_TAIL[4]
  <2> DEFINE m == Len(f) - 3
             n == Len(f)
  <2>1. m \in Int /\ n \in Int /\ 4 \in 1 .. n - m + 1 /\ m + 4 - 1 = n /\ m >= 1
    BY ONLY <1>2, <1>3
  <2>2. \A i \in m .. n : f[i] \in Byte
    <3>1. \A i \in m .. n : i \in 1 .. Len(f)
      BY ONLY <2>1
    <3> QED
      BY ONLY <1>3, <3>1, ElementOfSeq
  <2> HIDE DEF m, n
  <2>3. \A i \in 1 .. n - m + 1 : SubSeq(f, m, n)[i] = f[m + i - 1]
    BY ONLY <2>1, <2>2, SubSeqProperties
  <2>4. SubSeq(f, m, n)[4] = f[n]
    BY ONLY <2>1, <2>3
  <2> QED
    BY <1>3, <1>4, <2>4 DEF HasTail, m, n
<1> QED
  BY <1>1, <1>4, <1>5, <1>6 DEF f

-----------------------------------------------------------------------------
(* What a byte of the line does to a parser that knows where it is.        *)

(* The frame's bytes, appended one by one.                                 *)
LEMMA GrowsWith ==
  ASSUME NEW f \in Seq(Byte), NEW n \in Nat, Len(f) = n - 1, n >= 1, NEW s, NEW k \in Nat,
         \A i \in k .. n - 1 : f[i] = s[i], k >= 1
  PROVE  \A i \in k .. n : Append(f, s[n])[i] = s[i]
OBVIOUS

(* The buffer holds a report's bytes: they are the sample.                 *)
LEMMA SampleRight ==
  ASSUME NEW r \in Reports, NEW f, expectedBody = Len(Body(r)),
         \A i \in 7 .. Len(Body(r)) + 6 : f[i] = FrameOf(r)[i]
  PROVE  SampleOf(f) = Measured(r)
<1> DEFINE n == Len(Body(r))
<1>1. n \in Nat /\ n >= 3 /\ GATE_COUNT \in Nat
  <2>1. n \in 3 .. 3 + 2 * GATE_COUNT
    BY BodyBytes
  <2> QED
    BY ONLY <2>1, GateAssumption
<1>2. \A i \in 1 .. n : f[6 + i] = Body(r)[i]
  <2> HIDE DEF n
  <2>1. \A i \in 1 .. n : 6 + i \in 7 .. n + 6 /\ 6 + i - 6 = i
    BY ONLY <1>1
  <2>2. \A i \in 7 .. n + 6 : f[i] = Body(r)[i - 6]
    BY FrameBytes DEF n
  <2> QED
    BY ONLY <2>1, <2>2
<1>3. r.state \in Byte /\ r.distance \in U16 /\ r.gates \in [Gates -> U16]
  <2>1. r \in [state : Byte, distance : U16, gates : [Gates -> U16]]
    BY ReportsAssumption
  <2> QED
    BY ONLY <2>1
<1>4. f[7] = r.state /\ Word16(f[8], f[9]) = r.distance
  <2> HIDE DEF n
  <2>1. 1 \in 1 .. n /\ 2 \in 1 .. n /\ 3 \in 1 .. n /\ 6 + 1 = 7 /\ 6 + 2 = 8 /\ 6 + 3 = 9
    BY ONLY <1>1
  <2>2. f[7] = Body(r)[1] /\ f[8] = Body(r)[2] /\ f[9] = Body(r)[3]
    BY ONLY <1>2, <2>1
  <2> QED
    BY <1>3, <2>2, BodyBytes, Words16
<1>5. ASSUME NEW g \in Gates
      PROVE  (IF expectedBody >= 3 + 2 * GATE_COUNT
              THEN Word16(f[8 + 2 * g], f[9 + 2 * g]) ELSE 0)
               = IF r \in Bare THEN 0 ELSE r.gates[g]
  <2>1. g \in Int /\ 1 <= g /\ g <= GATE_COUNT
    BY <1>1 DEF Gates
  <2>2. CASE r \in Bare
    <3>1. expectedBody = 3
      BY <2>2, BodyBytes
    <3> QED
      BY <1>1, <2>1, <2>2, <3>1
  <2>3. CASE r \notin Bare
    <3>1. /\ n = 3 + 2 * GATE_COUNT
          /\ Body(r)[2 + 2 * g] = Byte0(r.gates[g]) /\ Body(r)[3 + 2 * g] = Byte1(r.gates[g])
      BY <2>3, BodyBytes
    <3>2. f[8 + 2 * g] = Body(r)[2 + 2 * g] /\ f[9 + 2 * g] = Body(r)[3 + 2 * g]
      <4> DEFINE lo == 2 + 2 * g
                 hi == 3 + 2 * g
      <4> HIDE DEF n
      <4>1. /\ lo \in 1 .. n /\ hi \in 1 .. n
            /\ 6 + lo = 8 + 2 * g /\ 6 + hi = 9 + 2 * g
        BY ONLY <1>1, <2>1, <3>1
      <4> HIDE DEF lo, hi
      <4>2. f[8 + 2 * g] = Body(r)[lo] /\ f[9 + 2 * g] = Body(r)[hi]
        BY ONLY <1>2, <4>1
      <4> QED
        BY <4>2 DEF lo, hi
    <3>3. r.gates[g] \in U16
      BY ONLY <1>3
    <3>4. Word16(f[8 + 2 * g], f[9 + 2 * g]) = r.gates[g]
      BY <3>1, <3>2, <3>3, Words16
    <3>5. expectedBody >= 3 + 2 * GATE_COUNT
      BY ONLY <1>1, <3>1, expectedBody = n
    <3> QED
      BY <2>3, <3>4, <3>5
  <2> QED
    BY <2>2, <2>3
<1> QED
  BY <1>4, <1>5 DEF SampleOf, Measured

(* Part of a header, then its end.                                         *)
LEMMA InHeader ==
  ASSUME ParserInv, LineInv, LineMoves, Reads(NextByte), state = "SYNC_HDR",
         At <= 4, At > 1 => hdrMatch = At - 1
  PROVE  InStep' /\ reading' = TRUE /\ ~AtEnd
<1>1. /\ At \in Nat /\ At >= 1 /\ NextByte \in Byte /\ ~AtEnd
      /\ NextByte = REPORT_HDR[At] /\ Sent' = Sent /\ At' = At + 1
  <2>1. At \in Nat /\ At >= 1 /\ NextByte \in Byte /\ NextByte = Sent[At] /\ ~AtEnd
    BY LineFacts
  <2>2. Sent[At] = REPORT_HDR[At]
    BY <2>1, SentHeader
  <2> QED
    BY <2>1, <2>2, LineNext
<1>2. hdrMatch \in 0 .. 3
  BY DEF ParserInv
<1> DEFINE b == NextByte
<1>3. /\ reading' = TRUE
      /\ \/ /\ hdrMatch = 3 /\ b = REPORT_HDR[4]
            /\ state' = "READ_LEN" /\ frame' = REPORT_HDR
         \/ /\ hdrMatch < 3 /\ b = REPORT_HDR[hdrMatch + 1]
            /\ state' = "SYNC_HDR" /\ hdrMatch' = hdrMatch + 1
         \/ /\ b # REPORT_HDR[hdrMatch + 1]
            /\ state' = "SYNC_HDR" /\ hdrMatch' = Restart(b)
  BY <1>1, SyncStep
<1> HIDE DEF b
<1>4. CASE At = 4
  <2>1. reading' = TRUE /\ state' = "READ_LEN" /\ frame' = REPORT_HDR
    <3>1. hdrMatch = 3 /\ NextByte = REPORT_HDR[hdrMatch + 1]
      BY ONLY <1>1, <1>4, At > 1 => hdrMatch = At - 1
    <3> QED
      BY ONLY <1>3, <3>1 DEF b
  <2>2. /\ At' = 5 /\ Len(frame') = At' - 1
        /\ \A i \in 1 .. At' - 1 : i \in 1 .. 4
    BY <1>1, <1>4, <2>1, Fixed
  <2>3. \A i \in 1 .. At' - 1 : frame'[i] = Sent'[i]
    BY <1>1, <2>1, <2>2, SentHeader
  <2> QED
    BY <1>1, <2>1, <2>2, <2>3 DEF InStep
<1>5. CASE At # 4
  <2>1. At = 1 \/ At = 2 \/ At = 3
    BY ONLY <1>1, <1>5, At <= 4
  <2>2. reading' = TRUE /\ state' = "SYNC_HDR" /\ hdrMatch' = At
    <3>1. CASE At = 1
      <4>1. hdrMatch = 0 \/ hdrMatch = 1 \/ hdrMatch = 2 \/ hdrMatch = 3
        BY ONLY <1>2
      <4> QED
        BY ONLY <1>1, <1>3, <3>1, <4>1, Marks DEF Restart, b
    <3>2. CASE At # 1
      <4>1. hdrMatch = At - 1 /\ hdrMatch + 1 = At /\ hdrMatch # 3
        BY ONLY <1>1, <2>1, <3>2, At > 1 => hdrMatch = At - 1
      <4> QED
        BY ONLY <1>1, <1>3, <4>1 DEF b
    <3> QED
      BY <3>1, <3>2
  <2>3. At' <= 4 /\ At' - 1 = At
    BY ONLY <1>1, <2>1
  <2> QED
    BY <1>1, <2>2, <2>3 DEF InStep
<1> QED
  BY <1>4, <1>5

(* The rest of a frame, and its return.                                    *)
LEMMA InFrame ==
  ASSUME ParserInv, LineInv, LineMoves, Reads(NextByte), InStep, At > 4
  PROVE  /\ ~AtEnd => InStep' /\ reading' = TRUE
         /\ AtEnd => reading' = FALSE
<1> DEFINE f == Append(frame, NextByte)
<1>1. /\ At \in Nat /\ At <= Len(Sent) /\ NextByte \in Byte /\ NextByte = Sent[At]
      /\ BodyLen \in Nat /\ BodyLen >= 3 /\ Len(Sent) = BodyLen + 10
      /\ AtEnd <=> At = Len(Sent)
  BY LineFacts
<1>2. /\ state = IF At <= 6 THEN "READ_LEN" ELSE "READ_BODY"
      /\ Len(frame) = At - 1 /\ \A i \in 1 .. At - 1 : frame[i] = Sent[i]
      /\ At >= 7 => expectedBody = BodyLen
      /\ frame \in Seq(Byte)
  BY <1>1 DEF InStep, ParserInv
<1>3. f \in Seq(Byte) /\ Len(f) = At /\ \A i \in 1 .. At : f[i] = Sent[i]
  <2>1. Len(f) = At /\ f \in Seq(Byte)
    BY <1>1, <1>2, Appended
  <2>2. \A i \in 1 .. At : f[i] = Sent[i]
    BY ONLY <1>1, <1>2, GrowsWith, At > 4
  <2> QED
    BY <2>1, <2>2
<1> HIDE DEF f
<1>4. CASE At < Len(Sent)
  <2>1. At' = At + 1 /\ Sent' = Sent /\ BodyLen' = BodyLen /\ ~AtEnd
    BY <1>1, <1>4, LineNext
  <2>2. /\ reading' = TRUE /\ frame' = f
        /\ state' = IF At' <= 6 THEN "READ_LEN" ELSE "READ_BODY"
        /\ At' >= 7 => expectedBody' = BodyLen
    <3>1. CASE At = 5
      <4>1. LenByte(NextByte) /\ Len(frame) + 1 < 6
        BY <1>2, <3>1 DEF Reads, SyncByte, BodyByte
      <4>2. frame' = f /\ UNCHANGED <<state, expectedBody>> /\ reading' = TRUE
        BY <4>1 DEF LenByte, ReturnsNothing, f
      <4> QED
        BY <1>2, <2>1, <3>1, <4>2
    <3>2. CASE At = 6
      <4>1. LenByte(NextByte) /\ ~(Len(frame) + 1 < 6)
        BY <1>2, <3>2 DEF Reads, SyncByte, BodyByte
      <4>2. Word16(frame[5], NextByte) = BodyLen
        BY <1>1, <1>2, <3>2, SentLength
      <4>3. state' = "READ_BODY" /\ frame' = f /\ expectedBody' = BodyLen /\ reading' = TRUE
        BY <4>1, <4>2, SentLength DEF LenByte, ReturnsNothing, f
      <4> QED
        BY <2>1, <3>2, <4>3
    <3>3. CASE At > 6
      <4>1. BodyByte(NextByte) /\ expectedBody = BodyLen
        BY <1>1, <1>2, <3>3 DEF Reads, SyncByte, LenByte
      <4>2. Len(f) < expectedBody + 10
        BY <1>1, <1>3, <1>4, <4>1
      <4>3. frame' = f /\ state' = state /\ expectedBody' = BodyLen /\ reading' = TRUE
        BY <4>1, <4>2 DEF BodyByte, ReturnsNothing, f
      <4> QED
        BY <1>1, <1>2, <2>1, <3>3, <4>3
    <3>4. At = 5 \/ At = 6 \/ At > 6
      BY ONLY <1>1, At > 4
    <3> QED
      BY ONLY <3>1, <3>2, <3>3, <3>4, Zenon
  <2>3. Len(frame') = At' - 1 /\ At' - 1 = At /\ ~(At' <= 4)
    BY ONLY <1>1, <1>3, <2>1, <2>2, At > 4
  <2>4. InStep'
    BY ONLY <1>3, <2>1, <2>2, <2>3 DEF InStep
  <2> QED
    BY <2>1, <2>2, <2>4
<1>5. CASE At = Len(Sent)
  <2>1. BodyByte(NextByte) /\ expectedBody = BodyLen /\ ~(Len(f) < expectedBody + 10)
    <3>1. At >= 7
      BY ONLY <1>1, <1>5
    <3>2. expectedBody = BodyLen /\ state = "READ_BODY" /\ ~(At < BodyLen + 10)
      BY ONLY <1>1, <1>2, <1>5, <3>1
    <3> QED
      BY <1>3, <3>2 DEF Reads, SyncByte, LenByte
  <2>2. HasTail(f)
    <3> DEFINE m == Len(f) - 3
               t == SubSeq(f, m, Len(f))
    <3>1. m \in Int /\ Len(f) \in Int /\ m >= 1 /\ Len(f) - m + 1 = 4 /\ m - 1 = BodyLen + 6
      BY ONLY <1>1, <1>3, <1>5
    <3>2. \A i \in m .. Len(f) : f[i] \in Byte
      <4>1. \A i \in m .. Len(f) : i \in 1 .. Len(f)
        BY ONLY <3>1
      <4> QED
        BY ONLY <1>3, <4>1, ElementOfSeq
    <3> HIDE DEF m
    <3>3. t \in Seq(Byte) /\ Len(t) = 4 /\ \A i \in 1 .. 4 : t[i] = f[m + i - 1]
      <4>1. /\ t \in Seq(Byte) /\ Len(t) = IF m <= Len(f) THEN Len(f) - m + 1 ELSE 0
            /\ \A i \in 1 .. Len(f) - m + 1 : t[i] = f[m + i - 1]
        BY ONLY <3>1, <3>2, SubSeqProperties
      <4> QED
        BY ONLY <3>1, <4>1
    <3> HIDE DEF t
    <3>4. ASSUME NEW i \in 1 .. 4 PROVE t[i] = REPORT_TAIL[i]
      <4>1. m + i - 1 = BodyLen + 6 + i /\ m + i - 1 \in 1 .. At
        BY ONLY <1>1, <1>5, <3>1
      <4>2. t[i] = Sent[BodyLen + 6 + i]
        BY ONLY <1>3, <3>3, <4>1
      <4> QED
        BY <4>2, LineFacts, FrameBytes DEF Sent, BodyLen
    <3>5. t = REPORT_TAIL
      BY ONLY <3>3, <3>4, Fixed
    <3> QED
      BY <3>5 DEF t, m, HasTail
  <2>3. reading' = FALSE
    BY <2>1, <2>2 DEF BodyByte, f
  <2> QED
    BY <1>1, <1>5, <2>3
<1>6. At < Len(Sent) \/ At = Len(Sent)
  BY ONLY <1>1
<1> QED
  BY ONLY <1>4, <1>5, <1>6, Zenon

(* A parser that has read a frame up to here goes on with it, to its end.  *)
LEMMA StaysInStep ==
  ASSUME ParserInv, LineInv, LineMoves, Reads(NextByte), InStep
  PROVE  /\ ~AtEnd => InStep' /\ reading' = TRUE
         /\ AtEnd => reading' = FALSE
<1>1. At \in Nat
  BY LineFacts
<1>2. CASE At <= 4
  <2>1. state = "SYNC_HDR" /\ (At > 1 => hdrMatch = At - 1)
    BY <1>2 DEF InStep
  <2> QED
    BY <1>2, <2>1, InHeader
<1>3. CASE ~(At <= 4)
  <2>1. At > 4
    BY ONLY <1>1, <1>3
  <2> QED
    BY <2>1, InFrame, Zenon
<1> QED
  BY <1>2, <1>3

-----------------------------------------------------------------------------
-----------------------------------------------------------------------------
(* What a window holds.                                                    *)

LEMMA FrameGrows ==
  ASSUME ParserInv, NEW b \in Byte, Reads(b), state # "SYNC_HDR", state' # "SYNC_HDR"
  PROVE  Len(frame') = Len(frame) + 1
<1>1. frame' = Append(frame, b)
  BY FrameStep
<1> QED
  BY <1>1, Appended DEF ParserInv

LEMMA Counts ==
  ASSUME IInv
  PROVE  /\ Len(frame) \in Nat /\ damage \in Nat /\ missed \in Nat /\ strays \in Nat
         /\ reading \in BOOLEAN /\ whole \in BOOLEAN
<1>1. frame \in Seq(Byte)
  BY DEF IInv, ParserInv
<1>2. /\ damage \in 0 .. MaxDamage /\ missed \in Nat /\ strays \in Nat
      /\ reading \in BOOLEAN /\ whole \in BOOLEAN
  BY DEF IInv, CallInv
<1> QED
  BY <1>1, <1>2, BytesAssumption

LEMMA SampleStays ==
  ASSUME NEW b \in Byte, Reads(b), reading'
  PROVE  sample' = sample
BY DEF Reads, SyncByte, LenByte, BodyByte, ReturnsNothing

(* No byte of before the call is left.                                     *)
LEMMA NoOldByte == ASSUME reading => fifo = <<>>, OldByte PROVE FALSE
BY DEF OldByte

(* In a window that misses a byte, a byte is kept or the window closes;    *)
(* nothing is returned.  A length of less than 256 has a zero second byte: *)
(* what stands in its place is taken for a length only when it is the one. *)
LEMMA ShortGrows ==
  ASSUME ParserInv, LineInv, LineMoves, Reads(NextByte), Short, state # "SYNC_HDR"
  PROVE  reading' = TRUE /\ (state' # "SYNC_HDR" => Short')
<1>1. /\ NextByte = Sent[At] /\ NextByte \in Byte /\ At \in Nat /\ At >= 1
      /\ At <= BodyLen + 10 /\ BodyLen \in Nat /\ BodyLen >= 3 /\ BodyLen <= 245
      /\ (AtEnd <=> At = BodyLen + 10) /\ Sent \in Seq(Byte)
  BY LineFacts
<1>2. /\ AtEnd => At' = 1
      /\ ~AtEnd => At' = At + 1 /\ Sent' = Sent /\ BodyLen' = BodyLen
  BY LineNext
<1>3. frame \in Seq(Byte) /\ expectedBody \in Int /\ Len(frame) \in Nat
      /\ state \in {"READ_LEN", "READ_BODY"}
  BY DEF ParserInv
<1>4. NextByte = REPORT_TAIL[4] /\ At = 1 => FALSE
  <2>1. At = 1 => NextByte = REPORT_HDR[1]
    BY <1>1, SentHeader
  <2> QED
    BY <2>1, Marks
<1>5. reading' = TRUE
  <2> SUFFICES ASSUME reading' # TRUE PROVE FALSE
    OBVIOUS
  <2> DEFINE n == Len(frame)
  <2>1. state = "READ_BODY" /\ n + 1 = expectedBody + 10 /\ NextByte = REPORT_TAIL[4]
    BY <1>1, Returns
  <2>2. CASE n = At - 2 /\ expectedBody = BodyLen
    <3> HIDE DEF n
    <3> QED
      BY ONLY <1>1, <2>1, <2>2
  <2>3. CASE At = 1
    BY <1>4, <2>1, <2>3
  <2> QED
    BY <2>1, <2>2, <2>3 DEF Short
<1>6. ASSUME state' # "SYNC_HDR" PROVE Short'
  <2> DEFINE n == Len(frame)
  <2>1. /\ frame' = Append(frame, NextByte)
        /\ \/ /\ state = "READ_LEN" /\ n = 4
              /\ state' = "READ_LEN" /\ expectedBody' = expectedBody
           \/ /\ state = "READ_LEN" /\ n = 5
              /\ state' = "READ_BODY" /\ expectedBody' = Word16(frame[5], NextByte)
           \/ /\ state = "READ_BODY" /\ n + 1 < expectedBody + 10
              /\ state' = "READ_BODY" /\ expectedBody' = expectedBody
    BY <1>1, <1>3, <1>6, FrameStep
  <2>2. Len(frame') = n + 1 /\ frame'[n + 1] = NextByte
    BY <1>1, <1>3, <2>1, Appended, Kept
  <2>3. n = At - 2 /\ At >= 6 /\ n \in Nat
    <3>1. CASE state = "READ_BODY" /\ n = expectedBody + 9 /\ At = 1
      <4> HIDE DEF n
      <4> QED
        BY ONLY <1>3, <2>1, <3>1
    <3> QED
      BY <1>3, <3>1 DEF Short
  <2>4. /\ state = "READ_LEN" /\ n = 5 => frame[5] \in {Sent[5], Sent[6]}
        /\ state = "READ_BODY" => expectedBody = BodyLen
    <3>1. At # 1
      BY ONLY <1>1, <2>3
    <3> QED
      BY <3>1 DEF Short
  <2> HIDE DEF n
  <2>5. CASE state = "READ_LEN" /\ n = 4
    <3>1. At = 6 /\ ~AtEnd /\ n + 1 = 5 /\ At' = 7
      BY ONLY <1>1, <1>2, <2>3, <2>5
    <3>2. Len(frame') = At' - 2 /\ At' >= 6
      BY ONLY <2>2, <3>1
    <3>3. frame'[5] = Sent'[6] /\ state' = "READ_LEN"
      BY <1>1, <1>2, <2>1, <2>2, <2>5, <3>1
    <3> QED
      BY <3>2, <3>3 DEF Short
  <2>6. CASE state = "READ_LEN" /\ n = 5
    <3>1. At = 7 /\ ~AtEnd /\ n + 1 = 6 /\ At' = 8
      BY ONLY <1>1, <1>2, <2>3, <2>6
    <3>2. Len(frame') = At' - 2 /\ At' >= 6
      BY ONLY <2>2, <3>1
    <3>3. state' = "READ_BODY" /\ expectedBody' = Word16(frame[5], NextByte)
      BY ONLY <2>1, <2>6
    <3>4. Sent[5] = BodyLen /\ Sent[6] = 0
      <4>1. Sent[5] = Byte0(BodyLen) /\ Sent[6] = Byte1(BodyLen)
        BY SentLength
      <4>2. BodyLen % 256 = BodyLen /\ BodyLen \div 256 = 0
        BY ONLY <1>1
      <4>3. 0 % 256 = 0
        OBVIOUS
      <4> QED
        BY ONLY <4>1, <4>2, <4>3 DEF Byte0, Byte1
    <3>5. expectedBody' \in 3 .. MAX_FRAME - 10 /\ MAX_FRAME \in Nat /\ MAX_FRAME <= 255
      <4>1. ParserInv'
        BY <1>1, LenKeeps, <2>6 DEF Reads, SyncByte, BodyByte
      <4> QED
        BY <3>3, <4>1, BuffersAssumption DEF ParserInv, Byte
    <3>6. expectedBody' = BodyLen
      <4>1. frame[5] = BodyLen \/ frame[5] = 0
        BY ONLY <2>4, <2>6, <3>4
      <4>2. NextByte \in Nat
        <5>1. NextByte \in Byte
          BY <1>1
        <5> QED
          BY ONLY <5>1 DEF Byte
      <4> DEFINE x == NextByte
                 f5 == frame[5]
      <4>3. expectedBody' = f5 + 256 * x /\ x \in Nat /\ (f5 = BodyLen \/ f5 = 0)
        BY <3>3, <4>1, <4>2 DEF Word16
      <4> HIDE DEF x, f5
      <4> QED
        BY ONLY <1>1, <3>5, <4>3
    <3>7. BodyLen' = BodyLen
      BY <1>2, <3>1
    <3> QED
      BY <3>2, <3>3, <3>6, <3>7 DEF Short
  <2>7. CASE state = "READ_BODY"
    <3>1. expectedBody = BodyLen /\ state' = "READ_BODY" /\ expectedBody' = BodyLen
      BY <2>1, <2>4, <2>7
    <3>2. CASE AtEnd
      <4>1. Len(frame') = expectedBody' + 9 /\ At' = 1
        BY ONLY <1>1, <1>2, <2>2, <2>3, <3>1, <3>2
      <4> QED
        BY <3>1, <4>1 DEF Short
    <3>3. CASE ~AtEnd
      <4>1. Len(frame') = At' - 2 /\ At' >= 6 /\ BodyLen' = BodyLen
        BY ONLY <1>1, <1>2, <2>2, <2>3, <3>3
      <4> QED
        BY <3>1, <4>1 DEF Short
    <3> QED
      BY <3>2, <3>3
  <2> QED
    BY <1>3, <2>1, <2>5, <2>6, <2>7
<1> QED
  BY <1>5, <1>6

(* A frame's last byte completes it.                                       *)
LEMMA ReturnsRight ==
  ASSUME ParserInv, LineInv, LineMoves, Reads(NextByte), InStep, At >= 5, reading' # TRUE
  PROVE  AtEnd /\ sample' = Measured(line.report)
<1>1. /\ NextByte \in Byte /\ NextByte = Sent[At] /\ At \in Nat /\ BodyLen \in Nat
      /\ Len(Sent) = BodyLen + 10 /\ line.report \in Reports /\ (AtEnd <=> At = Len(Sent))
  BY LineFacts
<1>2. AtEnd
  BY StaysInStep
<1>3. At = BodyLen + 10 /\ At > 4 /\ At >= 7
  BY ONLY <1>1, <1>2
<1>4. /\ Len(frame) = At - 1 /\ \A i \in 1 .. At - 1 : frame[i] = Sent[i]
      /\ expectedBody = BodyLen /\ frame \in Seq(Byte)
  <2>1. ~(At <= 4)
    BY ONLY <1>1, <1>3
  <2> QED
    BY <1>3, <2>1 DEF InStep, ParserInv
<1>5. sample' = SampleOf(Append(frame, NextByte))
  BY <1>1, Returns
<1>6. ASSUME NEW i \in 7 .. BodyLen + 6 PROVE Append(frame, NextByte)[i] = Sent[i]
  <2>1. i \in 1 .. At - 1
    BY ONLY <1>1, <1>3
  <2>2. i \in 1 .. Len(frame)
    BY ONLY <1>4, <2>1
  <2>3. Append(frame, NextByte)[i] = frame[i]
    BY ONLY <1>1, <1>4, <2>2, Kept
  <2> QED
    BY ONLY <1>4, <2>1, <2>3
<1>7. SampleOf(Append(frame, NextByte)) = Measured(line.report)
  BY <1>1, <1>4, <1>6, SampleRight DEF Sent, BodyLen
<1> QED
  BY <1>2, <1>5, <1>7

LEMMA ByteReadWindow ==
  ASSUME IInv, WindowInv, ByteRead
  PROVE  /\ WindowInv'
         /\ ~reading' => \/ AtEnd /\ sample' = Measured(line.report)
                         \/ window' = "spoiled"
<1>1. /\ reading /\ LineMoves /\ Reads(NextByte) /\ fifo' = fifo
      /\ whole' = (At = 1 \/ (whole /\ ~AtEnd))
      /\ window' = IF state # "SYNC_HDR" THEN window
                   ELSE IF OpensWindow /\ ~AtHeader THEN "spoiled" ELSE "sound"
  BY DEF ByteRead, At
<1>2. /\ ParserInv /\ LineInv /\ ParserInv' /\ NextByte \in Byte /\ At \in Nat /\ At >= 1
      /\ (AtEnd => At > 4) /\ window \in {"sound", "short", "spoiled"}
  <2>1. ParserInv'
    BY ByteReadKeeps
  <2> QED
    BY <2>1, LineFacts DEF IInv, CallInv
<1>3. /\ fifo = <<>> /\ sample = NoSample /\ (At = 1 => ~whole)
      /\ state # "SYNC_HDR" => /\ window = "sound" => At >= 5 /\ whole /\ InStep
                               /\ window = "short" => Short
  BY <1>1 DEF WindowInv
<1>4. fifo' = <<>> /\ (reading' => sample' = NoSample)
  BY <1>1, <1>2, <1>3, SampleStays
<1>5. At' = 1 => ~whole'
  <2>1. CASE AtEnd
    <3>1. At # 1
      BY ONLY <1>2, <2>1
    <3> QED
      BY <1>1, <2>1, <3>1
  <2>2. CASE ~AtEnd
    <3>1. At' = At + 1
      BY <1>1, <1>2, <2>2, LineNext
    <3> QED
      BY ONLY <1>2, <3>1
  <2> QED
    BY <2>1, <2>2
<1>6. CASE state = "SYNC_HDR"
  <2>1. reading' = TRUE
    BY <1>1, <1>2, <1>6, SyncStep
  <2>2. ASSUME state' # "SYNC_HDR", window' = "sound" PROVE At' >= 5 /\ whole' /\ InStep'
    <3>1. state' = "READ_LEN" /\ hdrMatch = 3
      BY <1>1, <1>2, <1>6, <2>2, SyncStep
    <3>2. At = 4 /\ whole
      BY <1>1, <1>6, <2>2, <3>1 DEF OpensWindow, AtHeader, At
    <3>3. InStep' /\ ~AtEnd
      <4>1. At <= 4 /\ (At > 1 => hdrMatch = At - 1)
        BY ONLY <3>1, <3>2
      <4> QED
        BY <1>1, <1>2, <1>6, <4>1, InHeader
    <3>4. At' >= 5
      <4>1. At' = At + 1
        BY <1>1, <1>2, <3>3, LineNext
      <4> QED
        BY ONLY <3>2, <4>1
    <3>5. whole'
      BY <1>1, <3>2, <3>3, Zenon
    <3> QED
      BY <3>3, <3>4, <3>5
  <2>3. window' # "short"
    BY <1>1, <1>6
  <2> QED
    BY <1>4, <1>5, <2>1, <2>2, <2>3 DEF WindowInv
<1>7. CASE state # "SYNC_HDR" /\ window = "sound"
  <2>1. At >= 5 /\ whole /\ InStep /\ window' = "sound"
    BY <1>1, <1>3, <1>7
  <2>2. /\ ~AtEnd => InStep' /\ reading' = TRUE
        /\ AtEnd => reading' = FALSE
    BY <1>1, <1>2, <2>1, StaysInStep
  <2>3. CASE AtEnd
    <3>1. ~reading' /\ reading' # TRUE
      BY <2>2, <2>3
    <3> QED
      BY <1>1, <1>2, <2>1, <3>1, ReturnsRight DEF WindowInv
  <2>4. CASE ~AtEnd
    <3>1. At' >= 5
      <4>1. At' = At + 1
        BY <1>1, <1>2, <2>4, LineNext
      <4> QED
        BY ONLY <1>2, <2>1, <4>1
    <3> QED
      BY <1>1, <1>4, <1>5, <2>1, <2>2, <2>4, <3>1 DEF WindowInv
  <2> QED
    BY <2>3, <2>4
<1>8. CASE state # "SYNC_HDR" /\ window = "short"
  <2>1. reading' = TRUE /\ (state' # "SYNC_HDR" => Short')
    BY <1>1, <1>2, <1>3, <1>8, ShortGrows
  <2>2. window' = "short"
    BY <1>1, <1>8
  <2> QED
    BY <1>4, <1>5, <2>1, <2>2 DEF WindowInv
<1>9. CASE state # "SYNC_HDR" /\ window = "spoiled"
  BY <1>1, <1>4, <1>5, <1>9 DEF WindowInv
<1> QED
  BY <1>2, <1>6, <1>7, <1>8, <1>9

LEMMA ByteLostWindow ==
  ASSUME IInv, WindowInv, ByteLost
  PROVE  WindowInv' /\ reading' = reading
<1>1. /\ reading /\ LineMoves /\ whole' = FALSE
      /\ window' = IF state = "SYNC_HDR" THEN "sound"
                   ELSE IF window = "sound" THEN "short" ELSE "spoiled"
      /\ fifo' = fifo /\ reading' = reading /\ sample' = sample
      /\ state' = state /\ frame' = frame /\ expectedBody' = expectedBody
  BY DEF ByteLost, Damages, parserVars
<1>2. /\ LineInv /\ At \in Nat /\ BodyLen \in Nat /\ (AtEnd <=> At = BodyLen + 10)
      /\ At <= BodyLen + 10
  BY LineFacts DEF IInv
<1>3. ASSUME state # "SYNC_HDR", window = "sound" PROVE Short'
  <2> DEFINE n == Len(frame)
  <2>1. At >= 5 /\ InStep
    BY <1>1, <1>3 DEF WindowInv
  <2>2. ~(At <= 4)
    BY ONLY <1>2, <2>1
  <2>3. /\ state = IF At <= 6 THEN "READ_LEN" ELSE "READ_BODY"
        /\ n = At - 1 /\ \A i \in 1 .. At - 1 : frame[i] = Sent[i]
        /\ At >= 7 => expectedBody = BodyLen
    BY <2>1, <2>2 DEF InStep
  <2> HIDE DEF n
  <2>4. CASE AtEnd
    <3>1. At >= 7 /\ ~(At <= 6)
      BY ONLY <1>2, <2>4, LineFacts, LineInv
    <3>2. At' = 1
      BY <1>2, <1>1, <2>4, LineNext
    <3>3. n = expectedBody + 9 /\ state = "READ_BODY"
      BY ONLY <1>2, <2>3, <2>4, <3>1
    <3> QED
      BY <1>1, <3>2, <3>3 DEF Short, n
  <2>5. CASE ~AtEnd
    <3>1. At' = At + 1 /\ Sent' = Sent /\ BodyLen' = BodyLen
      BY <1>1, <1>2, <2>5, LineNext
    <3>2. n = At' - 2 /\ At' >= 6
      BY ONLY <1>2, <2>1, <2>3, <3>1
    <3>3. n = 5 => frame[5] = Sent[5]
      <4>1. n = 5 => 5 \in 1 .. At - 1
        BY ONLY <1>2, <2>3
      <4> QED
        BY ONLY <2>3, <4>1
    <3>4. state = "READ_BODY" => expectedBody = BodyLen
      <4>1. ~(At <= 6) => At >= 7
        BY ONLY <1>2
      <4> QED
        BY <2>3, <4>1
    <3> QED
      BY <1>1, <3>1, <3>2, <3>3, <3>4 DEF Short, n
  <2> QED
    BY <2>4, <2>5
<1> QED
  BY <1>1, <1>3 DEF WindowInv

LEMMA ByteDamagedWindow ==
  ASSUME IInv, WindowInv, ByteDamaged
  PROVE  WindowInv' /\ (~reading' => window' = "spoiled")
<1>1. PICK b \in NoiseBytes : Reads(b)
  BY DEF ByteDamaged
<1>2. /\ reading /\ ~whole' /\ fifo' = fifo /\ b \in Byte /\ ParserInv
      /\ window' = IF state = "SYNC_HDR" /\ ~OpensWindow THEN "sound" ELSE "spoiled"
  BY BytesAssumption DEF ByteDamaged, Damages, IInv
<1>3. reading' => sample' = NoSample
  BY <1>1, <1>2, SampleStays DEF WindowInv
<1>4. CASE state = "SYNC_HDR"
  <2>1. reading' = TRUE /\ (state' = "READ_LEN" \/ state' = "SYNC_HDR")
    BY <1>1, <1>2, <1>4, SyncStep
  <2>2. state' # "SYNC_HDR" => window' = "spoiled"
    BY <1>2, <1>4, <2>1 DEF OpensWindow
  <2> QED
    BY <1>2, <1>3, <2>1, <2>2 DEF WindowInv
<1>5. CASE state # "SYNC_HDR"
  BY <1>2, <1>3, <1>5 DEF WindowInv
<1> QED
  BY <1>4, <1>5

(* A call starts with nothing.                                             *)
LEMMA StartsClear ==
  ASSUME ReadCalled
  PROVE  /\ fifo' = <<>> /\ state' = "SYNC_HDR" /\ ~whole' /\ ~reading
         /\ missed' = 0 /\ damage' = 0 /\ strays' = 0 /\ sample' = NoSample
BY DEF ReadCalled, FlushedInput

LEMMA WindowStep ==
  ASSUME IInv, WindowInv, [Next]_vars
  PROVE  /\ WindowInv'
         /\ reading /\ ~reading' /\ sample' # NoSample
              => \/ AtEnd /\ sample' = Measured(line.report)
                 \/ window' = "spoiled"
<1>1. CASE UNCHANGED readerVars
  BY <1>1 DEF WindowInv, Short, InStep, Sent, At, BodyLen, readerVars, parserVars, history
<1>2. CASE ReadCalled
  BY <1>2, StartsClear DEF WindowInv
<1>3. CASE TimesOut \/ ByteWaits
  <2>1. ~reading' /\ sample' = sample
    BY <1>3 DEF TimesOut, ByteWaits
  <2> QED
    BY <2>1 DEF WindowInv
<1>4. CASE OldByte
  BY <1>4, NoOldByte DEF WindowInv, OldByte
<1>5. CASE ByteRead
  BY <1>5, ByteReadWindow
<1>6. CASE ByteLost
  BY <1>6, ByteLostWindow
<1>7. CASE ByteDamaged
  BY <1>7, ByteDamagedWindow
<1> QED
  BY <1>1, <1>2, <1>3, <1>4, <1>5, <1>6, <1>7
     DEF Next, Publishes, ReadsAgain, LineStep, vars

LEMMA WindowHolds == Spec => []WindowInv
<1>1. Init => WindowInv
  BY DEF Init, ReaderInit, WindowInv
<1>2. IInv /\ WindowInv /\ [Next]_vars => WindowInv'
  BY WindowStep
<1> QED
  BY TelemetryInvariant, <1>1, <1>2, PTL DEF Spec

(* What dp_radar_read returns is the measurement the module has just       *)
(* finished sending, for any reports and any damage (dp_radar.c:177-184    *)
(* and 235-245): a window that lacks a byte never ends with the tail.  The *)
(* one exception is what a frame without a checksum cannot tell, a window  *)
(* opened by other bytes than a header, with a damaged byte in it or       *)
(* without two.                                                            *)
THEOREM SamplesAreLatest == Spec => SampleIsLatest
<1>1. IInv /\ WindowInv /\ [Next]_vars
        => [(reading /\ ~reading' /\ sample' # NoSample)
              => \/ AtEnd /\ sample' = Measured(line.report)
                 \/ window' = "spoiled"]_readerVars
  BY WindowStep
<1> QED
  BY TelemetryInvariant, WindowHolds, <1>1, PTL DEF Spec, SampleIsLatest

-----------------------------------------------------------------------------
(* What a window costs.                                                    *)

LEMMA WindowFrames ==
  /\ FramesPerWindow \in Nat /\ FramesPerWindow >= 1
  /\ \A n \in Int : 13 * n <= MAX_FRAME + 8 => n <= FramesPerWindow
<1>1. MAX_FRAME \in Nat /\ MAX_FRAME >= 13
  BY BuffersAssumption, GateAssumption DEF Byte
<1> DEFINE k == (MAX_FRAME + 8) \div 13
<1>2. k \in Int /\ 13 * k <= MAX_FRAME + 8 /\ MAX_FRAME + 8 < 13 * k + 13
  BY <1>1
<1> HIDE DEF k
<1>3. k \in Nat /\ k >= 1 /\ \A n \in Int : 13 * n <= MAX_FRAME + 8 => n <= k
  BY ONLY <1>1, <1>2
<1> QED
  BY <1>3 DEF k, FramesPerWindow

(* Every fault allows for as many frames again.                            *)
LEMMA Allowance ==
  ASSUME IInv
  PROVE  /\ Allowed \in Int
         /\ damage' + strays' = damage + strays => Allowed' = Allowed
         /\ damage' + strays' = damage + strays + 1 => Allowed' = Allowed + FramesPerWindow
<1> DEFINE k == FramesPerWindow
           c == damage + strays
<1>1. k \in Nat /\ c \in Nat
  BY WindowFrames, Counts
<1>2. Allowed = k * c /\ Allowed' = k * (damage' + strays')
  BY DEF Allowed, FramesPerWindow
<1> HIDE DEF k, c
<1>3. k * c \in Int /\ k * (c + 1) = k * c + k
  BY ONLY <1>1
<1> QED
  BY <1>2, <1>3 DEF k, c

(* A window that closes has not cost more than was allowed for it.         *)
LEMMA WindowCloses ==
  ASSUME NEW spent \in Int, NEW q \in Int, q <= MAX_FRAME - 4, 13 * spent <= q
  PROVE  /\ spent <= FramesPerWindow
         /\ \A j \in Nat : 13 * spent + j <= q /\ j >= 1 => spent + 1 <= FramesPerWindow
<1>1. MAX_FRAME \in Nat
  BY BuffersAssumption DEF Byte
<1>2. 13 * spent <= MAX_FRAME + 8
  BY ONLY <1>1, q <= MAX_FRAME - 4, 13 * spent <= q
<1>3. ASSUME NEW j \in Nat, 13 * spent + j <= q, j >= 1
      PROVE  13 * (spent + 1) <= MAX_FRAME + 8 /\ spent + 1 \in Int
  BY ONLY <1>1, <1>3, q <= MAX_FRAME - 4
<1> QED
  BY <1>2, <1>3, WindowFrames

(* A whole frame the parser is not in step with is read while it looks for *)
(* a header: it was reckoned with the window that has just closed.         *)
LEMMA SyncMiss ==
  ASSUME IInv, WindowInv, MissInv, ByteRead, state = "SYNC_HDR"
  PROVE  MissInv'
<1>1. /\ reading /\ LineMoves /\ Reads(NextByte) /\ damage' = damage
      /\ whole' = (At = 1 \/ (whole /\ ~AtEnd))
      /\ missed' = IF AtEnd /\ whole /\ reading' THEN missed + 1 ELSE missed
      /\ strays' = IF OpensWindow /\ ~AtHeader THEN strays + 1 ELSE strays
      /\ window' = IF OpensWindow /\ ~AtHeader THEN "spoiled" ELSE "sound"
  BY DEF ByteRead, At
<1>2. /\ ParserInv /\ LineInv /\ NextByte \in Byte /\ At \in Nat /\ At >= 1
      /\ NextByte = Sent[At] /\ (AtEnd => At > 4) /\ (AtEnd => NextByte = REPORT_TAIL[4])
  BY LineFacts, SentTail DEF IInv
<1>3. missed \in Nat /\ damage \in Nat /\ strays \in Nat /\ Allowed \in Int
  BY Counts, Allowance
<1>4. missed <= Allowed /\ (Late => missed + 1 <= Allowed) /\ (At = 1 => ~whole)
  BY <1>1 DEF MissInv, WindowInv
<1>5. /\ reading' = TRUE
      /\ \/ hdrMatch = 3 /\ NextByte = REPORT_HDR[4] /\ state' = "READ_LEN"
            /\ frame' = REPORT_HDR
         \/ state' = "SYNC_HDR"
  BY <1>1, <1>2, SyncStep
<1>6. ASSUME At = 1 \/ (whole /\ InStep) PROVE InStep' /\ ~AtEnd
  <2>1. At <= 4 /\ (At > 1 => hdrMatch = At - 1)
    <3>1. CASE At = 1
      BY ONLY <3>1
    <3>2. CASE InStep
      BY <3>2 DEF InStep
    <3> QED
      BY <1>6, <3>1, <3>2
  <2> QED
    BY <1>1, <1>2, <2>1, InHeader
<1>7. AtEnd /\ whole => Late
  BY <1>6 DEF Late
<1>8. CASE OpensWindow /\ ~AtHeader
  <2>1. hdrMatch = 3 /\ NextByte = REPORT_HDR[4] /\ state' = "READ_LEN" /\ frame' = REPORT_HDR
    BY <1>5, <1>8 DEF OpensWindow
  <2>2. At # 1 /\ ~AtEnd
    <3>1. At = 1 => NextByte = REPORT_HDR[1]
      BY <1>2, SentHeader
    <3> QED
      BY ONLY <1>2, <2>1, <3>1, Marks
  <2>3. whole' = whole /\ missed' = missed /\ Allowed' = Allowed + FramesPerWindow
    <3>1. whole' = whole
      <4>1. whole \in BOOLEAN
        BY Counts
      <4> QED
        BY <1>1, <2>2, <4>1, Zenon
    <3>2. missed' = missed /\ strays' = strays + 1
      BY <1>1, <1>8, <2>2
    <3>3. damage' + strays' = damage + strays + 1
      BY ONLY <1>1, <1>3, <3>2
    <3> QED
      BY <3>1, <3>2, <3>3, Allowance
  <2>4. whole => Late
    <3> SUFFICES ASSUME whole, InStep PROVE FALSE
      BY DEF Late
    <3>1. ~AtHeader => At # 4
      BY DEF AtHeader, At
    <3>2. At <= 4 => hdrMatch = At - 1
      BY <1>2, <2>2 DEF InStep
    <3>3. At <= 4
      <4>1. ~(At <= 4) => state # "SYNC_HDR"
        BY DEF InStep
      <4> QED
        BY <4>1
    <3> QED
      BY ONLY <1>2, <1>8, <2>1, <3>1, <3>2, <3>3
  <2>5. Spent' = missed - Allowed
    <3>1. Spent' = missed' + FramesPerWindow - Allowed'
      BY DEF Spent, FramesPerWindow
    <3> QED
      BY ONLY <1>3, <2>3, <3>1, WindowFrames
  <2>6. 13 * Spent' <= 0 /\ (whole' => Spent' + 1 <= 0) /\ missed' <= Allowed'
    BY ONLY <1>3, <1>4, <2>3, <2>4, <2>5, WindowFrames
  <2>7. Len(frame') - 4 = 0
    BY <2>1, Fixed
  <2> QED
    BY <1>1, <1>8, <2>1, <2>6, <2>7 DEF MissInv
<1>9. CASE ~(OpensWindow /\ ~AtHeader)
  <2>1. Allowed' = Allowed /\ window' = "sound"
    BY <1>1, <1>9, Allowance
  <2>2. missed' <= Allowed'
    BY <1>1, <1>3, <1>4, <1>7, <2>1
  <2>3. ASSUME Late' PROVE missed' + 1 <= Allowed'
    <3>1. whole' /\ ~InStep'
      BY <2>3 DEF Late
    <3>2. Late /\ missed' = missed
      BY <1>1, <1>6, <3>1 DEF Late
    <3> QED
      BY <1>4, <2>1, <3>2
  <2> QED
    BY <2>1, <2>2, <2>3 DEF MissInv
<1> QED
  BY <1>8, <1>9

(* In a sound window the frame is read to its end, and returned.           *)
LEMMA SoundMiss ==
  ASSUME IInv, WindowInv, MissInv, ByteRead, state # "SYNC_HDR", window = "sound"
  PROVE  MissInv'
<1>1. /\ reading /\ LineMoves /\ Reads(NextByte) /\ UNCHANGED <<damage, strays, window>>
      /\ missed' = IF AtEnd /\ whole /\ reading' THEN missed + 1 ELSE missed
  BY DEF ByteRead, OpensWindow
<1>2. ParserInv /\ LineInv /\ At >= 5 /\ InStep
  BY <1>1 DEF IInv, WindowInv
<1>3. /\ ~AtEnd => InStep' /\ reading' = TRUE
      /\ AtEnd => reading' = FALSE
  BY <1>1, <1>2, StaysInStep
<1>4. missed' = missed /\ Allowed' = Allowed /\ missed <= Allowed
  BY <1>1, <1>3, Allowance DEF MissInv
<1> QED
  BY <1>1, <1>3, <1>4 DEF MissInv, Late

(* In any other, each whole frame has taken its bytes of the buffer.       *)
LEMMA WindowMiss ==
  ASSUME IInv, WindowInv, MissInv, ByteRead, state # "SYNC_HDR", window # "sound"
  PROVE  MissInv'
<1> DEFINE q == Len(frame) - 4
           j == At - 1
<1>1. /\ reading /\ LineMoves /\ Reads(NextByte) /\ UNCHANGED <<damage, strays, window>>
      /\ whole' = (At = 1 \/ (whole /\ ~AtEnd))
      /\ missed' = IF AtEnd /\ whole /\ reading' THEN missed + 1 ELSE missed
  BY DEF ByteRead, OpensWindow, At
<1>2. /\ ParserInv /\ LineInv /\ NextByte \in Byte /\ At \in Nat /\ At >= 1
      /\ (AtEnd => At >= 13) /\ j \in Nat
  BY LineFacts DEF IInv
<1>3. /\ q \in Nat /\ q + 1 <= MAX_FRAME - 4 /\ MAX_FRAME \in Nat
  <2>1. Len(frame) \in Nat /\ Len(frame) >= 4 /\ Len(frame) < MAX_FRAME
    <3>1. Len(frame) \in Nat /\ Len(frame) < MAX_FRAME
      BY <1>2, Counts, BufferHolds
    <3>2. state = "READ_LEN" => Len(frame) = 4 \/ Len(frame) = 5
      BY <1>2 DEF ParserInv
    <3>3. state = "READ_BODY" => Len(frame) >= 6
      BY <1>2 DEF ParserInv
    <3>4. state = "READ_LEN" \/ state = "READ_BODY"
      BY <1>2 DEF ParserInv
    <3> QED
      BY ONLY <3>1, <3>2, <3>3, <3>4
  <2>2. MAX_FRAME \in Nat
    BY BuffersAssumption DEF Byte
  <2> QED
    BY ONLY <2>1, <2>2
<1>4. /\ missed \in Nat /\ Allowed \in Int /\ Spent \in Int /\ whole \in BOOLEAN
      /\ FramesPerWindow \in Nat
  BY Counts, Allowance, WindowFrames DEF Spent
<1>5. 13 * Spent <= q /\ (whole => 13 * Spent + j <= q \/ Spent + 1 <= 0)
  BY <1>1 DEF MissInv
<1> HIDE DEF q, j
<1>6. Allowed' = Allowed /\ Spent' = missed' + FramesPerWindow - Allowed
  <2>1. Allowed' = Allowed
    BY <1>1, Allowance
  <2> QED
    BY <2>1 DEF Spent, FramesPerWindow
<1>7. 13 * Spent' <= q + 1
  <2>1. CASE AtEnd /\ whole /\ reading'
    <3>1. Spent' = Spent + 1 /\ j >= 12
      <4>1. missed' = missed + 1
        BY <1>1, <2>1
      <4>2. Spent' = Spent + 1
        BY ONLY <1>4, <1>6, <4>1 DEF Spent
      <4>3. At >= 13
        BY <1>2, <2>1
      <4>4. j >= 12
        BY ONLY <1>2, <4>3 DEF j
      <4> QED
        BY <4>2, <4>4
    <3> QED
      BY ONLY <1>2, <1>3, <1>4, <1>5, <2>1, <3>1
  <2>2. CASE ~(AtEnd /\ whole /\ reading')
    <3>1. Spent' = Spent
      BY <1>1, <1>6, <2>2 DEF Spent
    <3> QED
      BY ONLY <1>3, <1>4, <1>5, <3>1
  <2> QED
    BY <2>1, <2>2
<1>8. ASSUME whole'
      PROVE  /\ 13 * Spent' + (At' - 1) <= q + 1 \/ Spent' + 1 <= 0
             /\ At' - 1 \in Nat /\ At' - 1 >= 1
  <2>1. ~AtEnd
    <3>1. AtEnd => At # 1
      BY ONLY <1>2
    <3> QED
      BY <1>1, <1>8, <3>1
  <2>2. At' = At + 1 /\ Spent' = Spent
    <3>1. At' = At + 1
      BY <1>1, <1>2, <2>1, LineNext
    <3> QED
      BY <1>1, <1>6, <2>1, <3>1 DEF Spent
  <2>3. At' - 1 = j + 1 /\ (At = 1 => j = 0)
    BY ONLY <1>2, <2>2 DEF j
  <2>4. At = 1 \/ whole
    BY <1>1, <1>8
  <2> QED
    BY ONLY <1>2, <1>3, <1>4, <1>5, <2>2, <2>3, <2>4
<1>9. /\ Spent' \in Int /\ Spent' <= FramesPerWindow
      /\ whole' => Spent' + 1 <= FramesPerWindow
  <2>1. Spent' \in Int
    BY ONLY <1>1, <1>4, <1>6
  <2>2. q + 1 \in Int
    BY ONLY <1>3
  <2>3. Spent' <= FramesPerWindow
    BY ONLY <1>3, <1>7, <2>1, <2>2, WindowCloses
  <2>4. ASSUME whole' PROVE Spent' + 1 <= FramesPerWindow
    <3>1. CASE Spent' + 1 <= 0
      <4> DEFINE s == Spent'
      <4>1. s + 1 <= 0 /\ s \in Int /\ FramesPerWindow \in Nat
        BY <1>4, <2>1, <3>1
      <4> HIDE DEF s
      <4>2. s + 1 <= FramesPerWindow
        BY ONLY <4>1
      <4> QED
        BY <4>2 DEF s
    <3>2. CASE 13 * Spent' + (At' - 1) <= q + 1
      BY ONLY <1>3, <1>7, <1>8, <2>1, <2>2, <2>4, <3>2, WindowCloses
    <3> QED
      BY <1>8, <2>4, <3>1, <3>2
  <2> QED
    BY <2>1, <2>3, <2>4
<1>10. missed' \in Int /\ missed' <= Allowed /\ (whole' => missed' + 1 <= Allowed)
  <2> DEFINE s == Spent'
             m == missed'
             a == Allowed
             k == FramesPerWindow
  <2>1. /\ s = m + k - a /\ s \in Int /\ s <= k
        /\ m \in Int /\ a \in Int /\ k \in Int
    <3>1. missed' \in Int
      BY ONLY <1>1, <1>4
    <3>2. s = m + k - a
      BY <1>6
    <3>3. s \in Int /\ s <= k
      BY <1>9
    <3>4. a \in Int /\ k \in Int
      <4>1. k \in Nat /\ a \in Int
        BY <1>4
      <4> HIDE DEF k
      <4> QED
        BY ONLY <4>1
    <3> QED
      BY ONLY <3>1, <3>2, <3>3, <3>4
  <2>2. whole' => s + 1 <= k
    BY <1>9
  <2> HIDE DEF s, m, a, k
  <2>3. m <= a /\ (s + 1 <= k => m + 1 <= a)
    BY ONLY <2>1
  <2> QED
    BY <2>1, <2>2, <2>3 DEF m, a
<1>11. ASSUME reading', state' # "SYNC_HDR" PROVE Len(frame') - 4 = q + 1
  <2>1. Len(frame') = Len(frame) + 1 /\ Len(frame) \in Nat
    BY <1>1, <1>2, <1>11, FrameGrows, Counts
  <2> QED
    BY ONLY <2>1 DEF q
<1>12. window' # "sound"
  BY <1>1
<1> QED
  BY <1>6, <1>7, <1>8, <1>10, <1>11, <1>12 DEF MissInv, Late

(* A byte lost or damaged allows for as much as the window can cost.       *)
LEMMA FaultMiss ==
  ASSUME IInv, WindowInv, MissInv, ByteLost \/ ByteDamaged
  PROVE  MissInv'
<1>1. /\ reading /\ damage' = damage + 1 /\ ~whole' /\ missed' = missed /\ strays' = strays
  BY DEF ByteLost, ByteDamaged, Damages
<1>2. /\ missed \in Nat /\ damage \in Nat /\ strays \in Nat /\ Allowed \in Int
      /\ Spent \in Int /\ FramesPerWindow \in Nat /\ ParserInv /\ Len(frame) \in Nat
  BY Counts, Allowance, WindowFrames DEF Spent, IInv
<1>3. Allowed' = Allowed + FramesPerWindow
  BY <1>1, <1>2, Allowance
<1>4. Spent' = missed - Allowed
  <2>1. Spent' = missed' + FramesPerWindow - Allowed'
    BY DEF Spent, FramesPerWindow
  <2> QED
    BY ONLY <1>1, <1>2, <1>3, <2>1
<1>5. missed <= Allowed
  BY DEF MissInv
<1>6. missed' <= Allowed' /\ 13 * Spent' <= 0
  BY ONLY <1>1, <1>2, <1>3, <1>4, <1>5
<1>7. ASSUME state' # "SYNC_HDR" PROVE Len(frame') - 4 >= 0
  <2>1. ParserInv'
    BY ByteLostKeeps, ByteDamagedKeeps
  <2>2. /\ state' = "READ_LEN" => Len(frame') = 4 \/ Len(frame') = 5
        /\ state' = "READ_BODY" => Len(frame') >= 6
        /\ state' = "READ_LEN" \/ state' = "READ_BODY"
        /\ frame' \in Seq(Byte)
    BY <1>7, <2>1 DEF ParserInv
  <2> DEFINE n == Len(frame')
  <2>3. n \in Nat /\ (n = 4 \/ n = 5 \/ n >= 6)
    BY <2>2
  <2> HIDE DEF n
  <2>4. n - 4 >= 0
    BY ONLY <2>3
  <2> QED
    BY <2>4 DEF n
<1>8. state' # "SYNC_HDR" => 13 * Spent' <= Len(frame') - 4
  <2> DEFINE n == Len(frame') - 4
  <2>1. Spent' \in Int
    BY ONLY <1>2, <1>4
  <2>2. frame' \in Seq(Byte)
    BY ByteLostKeeps, ByteDamagedKeeps DEF ParserInv
  <2>3. n \in Int
    BY <2>2
  <2>4. state' # "SYNC_HDR" => n >= 0
    BY <1>7
  <2> HIDE DEF n
  <2> DEFINE s == Spent'
  <2>5. s \in Int /\ 13 * s <= 0
    BY <1>6, <2>1
  <2> HIDE DEF s
  <2>6. n >= 0 => 13 * s <= n
    BY ONLY <2>3, <2>5
  <2> QED
    BY <2>4, <2>6 DEF n, s
<1> QED
  BY <1>1, <1>6, <1>8 DEF MissInv, Late

LEMMA MissStep ==
  ASSUME IInv, WindowInv, MissInv, [Next]_vars
  PROVE  MissInv'
<1>1. CASE UNCHANGED readerVars
  BY <1>1 DEF MissInv, Late, InStep, Sent, At, BodyLen, Allowed, Spent, FramesPerWindow,
              readerVars, parserVars, history
<1>2. CASE ReadCalled
  <2>1. Allowed' = 0
    <3>1. Allowed' = FramesPerWindow * 0
      BY <1>2, StartsClear DEF Allowed, FramesPerWindow
    <3> QED
      BY <3>1, WindowFrames
  <2> QED
    BY <1>2, <2>1, StartsClear DEF MissInv, Late
<1>3. CASE TimesOut \/ ByteWaits
  <2>1. UNCHANGED <<missed, damage, strays>> /\ ~reading'
    BY <1>3 DEF TimesOut, ByteWaits, history
  <2> QED
    BY <2>1, Allowance DEF MissInv
<1>4. CASE OldByte
  BY <1>4, NoOldByte DEF WindowInv, OldByte
<1>5. CASE ByteRead
  BY <1>5, SyncMiss, SoundMiss, WindowMiss
<1>6. CASE ByteLost \/ ByteDamaged
  BY <1>6, FaultMiss
<1> QED
  BY <1>1, <1>2, <1>3, <1>4, <1>5, <1>6 DEF Next, Publishes, ReadsAgain, LineStep, vars

(* The parser of dp_radar_read finds its way back (dp_radar.c:206-245),    *)
(* for any reports and any damage: a byte lost or damaged, or bytes of a   *)
(* body taken for a header, cost no more whole frames than a window can    *)
(* hold bare ones (five with the 64 bytes of the code), and without any of *)
(* these the first whole frame is returned.                                *)
THEOREM FaultsCostFewFrames == Spec => []FaultsCostOneWindow
<1>1. Init => MissInv
  <2> SUFFICES ASSUME Init PROVE MissInv
    OBVIOUS
  <2>1. missed = 0 /\ damage + strays = 0 /\ ~reading
    BY DEF Init, ReaderInit
  <2>2. Allowed = 0
    <3>1. Allowed = FramesPerWindow * 0
      BY <2>1 DEF Allowed
    <3> QED
      BY <3>1, WindowFrames
  <2> QED
    BY <2>1, <2>2 DEF MissInv
<1>2. IInv /\ WindowInv /\ MissInv /\ [Next]_vars => MissInv'
  BY MissStep
<1>3. MissInv => FaultsCostOneWindow
  BY DEF MissInv, Allowed, FaultsCostOneWindow
<1> QED
  BY TelemetryInvariant, WindowHolds, <1>1, <1>2, <1>3, PTL DEF Spec

=============================================================================
