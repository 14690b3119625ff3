----------------------------- MODULE RadarReader ------------------------------
(***************************************************************************)
(* dp_radar_read (components/dp_radar/dp_radar.c): report frames are found *)
(* in the bytes of a UART.  The radar module sends its frames without a    *)
(* break, and nobody reads between two calls.  Any byte may be lost or     *)
(* damaged on the way.                                                     *)
(*                                                                         *)
(* Frames are read byte by byte, as fast as they come.  The bytes from a   *)
(* header to where its length says that the frame ends are a window: while *)
(* it is open the parser looks for no other header.  History variables     *)
(* follow what the window is made of, and which frames go by.              *)
(***************************************************************************)
EXTENDS Codec

CONSTANTS
  MAX_FRAME,    \* bytes of the frame buffer
  FIFO_CAP,     \* bytes the UART driver keeps for the next call
  Reports,      \* the measurements the module sends
  Bare,         \* those it sends without gate energies
  NoiseBytes,   \* what a damaged byte may become
  Stamp,        \* the millisecond count a sample is given
  MaxDamage,    \* bound on the bytes lost or damaged in a call, not in the code
  NoSample

ASSUME ReportsAssumption ==
  /\ Bare \subseteq Reports
  /\ Reports \subseteq [state : Byte, distance : U16, gates : [Gates -> U16]]

(* The frame buffer has room for the longest report, but not for a length  *)
(* that needs the second of its two bytes (both true of 64 and 16 gates).  *)
ASSUME BuffersAssumption ==
  /\ MAX_FRAME \in Byte /\ 13 + 2 * GATE_COUNT <= MAX_FRAME
  /\ FIFO_CAP \in Nat

ASSUME BytesAssumption ==
  /\ NoiseBytes \subseteq Byte /\ MaxDamage \in Nat
  /\ Stamp \in U32 /\ NoSample \notin Samples

REPORT_HDR == <<244, 243, 242, 241>>
REPORT_TAIL == <<248, 247, 246, 245>>

VARIABLES
  line,      \* the module: the report it sends and the byte that is next
  fifo,      \* the driver's receive buffer
  reading,   \* a call is under way
  state, hdrMatch, frame, expectedBody,   \* its local variables
  sample,    \* what the last call returned: NoSample when it timed out
  whole,     \* history: every byte of the frame on the line has been read so far
  missed,    \* history: frames that went by whole in this call
  damage,    \* history: bytes lost or damaged in this call
  strays,    \* history: windows it opened at what is not a frame's header
  window     \* history: what the last window is made of

parserVars == <<state, hdrMatch, frame, expectedBody>>
history == <<whole, missed, damage, strays, window>>
readerVars == <<line, fifo, reading, parserVars, sample, history>>

Body(r) ==
  <<r.state, Byte0(r.distance), Byte1(r.distance)>>
  \o IF r \in Bare THEN <<>>
     ELSE [i \in 1 .. 2 * GATE_COUNT |->
             LET e == r.gates[(i + 1) \div 2] IN IF i % 2 = 1 THEN Byte0(e) ELSE Byte1(e)]

FrameOf(r) ==
  LET b == Body(r)
  IN REPORT_HDR \o <<Byte0(Len(b)), Byte1(Len(b))>> \o b \o REPORT_TAIL

ReaderTypeOK ==
  /\ line \in [report : Reports, at : 1 .. MAX_FRAME]
  /\ Len(fifo) <= FIFO_CAP
  /\ reading \in BOOLEAN
  /\ state \in {"SYNC_HDR", "READ_LEN", "READ_BODY"}
  /\ hdrMatch \in 0 .. Len(REPORT_HDR) - 1      \* an index of REPORT_HDR
  /\ Len(frame) < MAX_FRAME                     \* there is room for a byte
  /\ state = "READ_BODY" => expectedBody \in 3 .. MAX_FRAME - 10
  /\ whole \in BOOLEAN
  /\ missed \in Nat
  /\ damage \in 0 .. MaxDamage
  /\ strays \in Nat
  /\ window \in {"sound", "short", "spoiled"}

ReaderInit ==
  /\ line \in [report : Reports, at : {1}]
  /\ fifo = <<>>
  /\ reading = FALSE
  /\ state = "SYNC_HDR" /\ hdrMatch = 0 /\ frame = <<>> /\ expectedBody = 0
  /\ sample = NoSample
  /\ whole = FALSE
  /\ missed = 0
  /\ damage = 0
  /\ strays = 0
  /\ window = "sound"

-----------------------------------------------------------------------------
(* One byte in dp_radar_read's loop.                                       *)

(* A byte that breaks a header may start the next one.                     *)
Restart(b) == IF b = REPORT_HDR[1] THEN 1 ELSE 0

ReturnsNothing == reading' = TRUE /\ UNCHANGED sample

SyncByte(b) ==
  /\ state = "SYNC_HDR"
  /\ IF b = REPORT_HDR[hdrMatch + 1]
     THEN IF hdrMatch + 1 = Len(REPORT_HDR)
          THEN /\ state' = "READ_LEN" /\ hdrMatch' = 0 /\ frame' = REPORT_HDR
          ELSE hdrMatch' = hdrMatch + 1 /\ UNCHANGED <<state, frame>>
     ELSE hdrMatch' = Restart(b) /\ UNCHANGED <<state, frame>>
  /\ UNCHANGED expectedBody
  /\ ReturnsNothing

(* Mutant: the upper bound is forgotten.                                   *)
LongEnough(body) == body >= 3

(* The body has its state and distance, and the frame fits the buffer.     *)
GoodLength(body) == body >= 3 /\ body + 10 <= MAX_FRAME

Resync == state' = "SYNC_HDR" /\ hdrMatch' = 0 /\ frame' = <<>>

LenByte(b) ==
  /\ state = "READ_LEN"
  /\ IF Len(frame) + 1 < 6
     THEN frame' = Append(frame, b) /\ UNCHANGED <<state, hdrMatch, expectedBody>>
     ELSE LET body == Word16(frame[5], b)
          IN /\ expectedBody' = body
             /\ IF GoodLength(body)
                THEN state' = "READ_BODY" /\ frame' = Append(frame, b) /\ UNCHANGED hdrMatch
                ELSE Resync
  /\ ReturnsNothing

(* What the code reads in the body: the gates are zero in a short one.     *)
SampleOf(f) ==
  [state |-> f[7], distance |-> Word16(f[8], f[9]),
   gates |-> [g \in Gates |-> IF expectedBody >= 3 + 2 * GATE_COUNT
                              THEN Word16(f[8 + 2 * g], f[9 + 2 * g]) ELSE 0],
   ts |-> Stamp]

(* Mutant: the tail is not compared.                                       *)
AnyTail(f) == Len(f) > 0

HasTail(f) == SubSeq(f, Len(f) - 3, Len(f)) = REPORT_TAIL

BodyByte(b) ==
  /\ state = "READ_BODY"
  /\ LET f == Append(frame, b)
     IN IF Len(f) < expectedBody + 10
        THEN frame' = f /\ UNCHANGED <<state, hdrMatch>> /\ ReturnsNothing
        ELSE /\ Resync
             /\ IF HasTail(f) THEN reading' = FALSE /\ sample' = SampleOf(f)
                ELSE ReturnsNothing
  /\ UNCHANGED expectedBody

Reads(b) == SyncByte(b) \/ LenByte(b) \/ BodyByte(b)

-----------------------------------------------------------------------------
(* Mutant: what came before the call is read too.                          *)
KeepsInput == fifo

(* uart_flush_input.                                                       *)
FlushedInput == <<>>

(* A call begins; the caller's sample is a new local variable.             *)
ReadCalled ==
  /\ ~reading
  /\ reading' = TRUE
  /\ fifo' = FlushedInput
  /\ state' = "SYNC_HDR" /\ hdrMatch' = 0 /\ frame' = <<>> /\ expectedBody' = 0
  /\ whole' = FALSE
  /\ missed' = 0
  /\ damage' = 0
  /\ strays' = 0
  /\ window' = "sound"
  /\ sample' = NoSample
  /\ UNCHANGED line

(* ... and ends without a frame, by its timeout.                           *)
TimesOut ==
  /\ reading
  /\ reading' = FALSE
  /\ UNCHANGED <<line, fifo, parserVars, sample, history>>

AtEnd == line.at = Len(FrameOf(line.report))

LineMoves ==
  IF AtEnd THEN line' \in [report : Reports, at : {1}]
  ELSE line' = [line EXCEPT !.at = @ + 1]

NextByte == FrameOf(line.report)[line.at]

(* A byte comes while nobody reads: it is kept until the buffer is full.   *)
ByteWaits ==
  /\ ~reading
  /\ LineMoves
  /\ fifo' = IF Len(fifo) < FIFO_CAP THEN Append(fifo, NextByte) ELSE fifo
  /\ UNCHANGED <<reading, parserVars, sample, history>>

(* A byte that has waited is read.                                         *)
OldByte ==
  /\ reading /\ fifo # <<>>
  /\ Reads(Head(fifo))
  /\ fifo' = Tail(fifo)
  /\ UNCHANGED <<line, history>>

(* The parser takes what it has read for a header, and it is one.          *)
OpensWindow == state = "SYNC_HDR" /\ state' = "READ_LEN"
AtHeader == line.at = 4 /\ whole

(* A byte is read as it comes.                                             *)
ByteRead ==
  /\ reading /\ fifo = <<>>
  /\ Reads(NextByte)
  /\ LineMoves
  /\ whole' = (line.at = 1 \/ (whole /\ ~AtEnd))
  /\ missed' = IF AtEnd /\ whole /\ reading' THEN missed + 1 ELSE missed
  /\ strays' = IF OpensWindow /\ ~AtHeader THEN strays + 1 ELSE strays
  /\ window' = IF state # "SYNC_HDR" THEN window
               ELSE IF OpensWindow /\ ~AtHeader THEN "spoiled" ELSE "sound"
  /\ UNCHANGED <<fifo, damage>>

Damages == damage < MaxDamage /\ damage' = damage + 1 /\ whole' = FALSE

ByteLost ==
  /\ reading /\ fifo = <<>>
  /\ Damages
  /\ LineMoves
  /\ window' = IF state = "SYNC_HDR" THEN "sound"
               ELSE IF window = "sound" THEN "short" ELSE "spoiled"
  /\ UNCHANGED <<fifo, reading, parserVars, sample, missed, strays>>

ByteDamaged ==
  /\ reading /\ fifo = <<>>
  /\ Damages
  /\ \E b \in NoiseBytes : Reads(b)
  /\ LineMoves
  /\ window' = IF state = "SYNC_HDR" /\ ~OpensWindow THEN "sound" ELSE "spoiled"
  /\ UNCHANGED <<fifo, missed, strays>>

-----------------------------------------------------------------------------
(* A sample is the measurement the module has just finished sending, never *)
(* one put together from two frames or one of before the call: stale bytes *)
(* are flushed, and a frame with a byte missing does not end with the tail *)
(* (dp_radar.c:177-184 and 235-245).  Since a frame carries no checksum,   *)
(* nothing is said of a window that was opened by bytes of a body, has a   *)
(* damaged byte in it or lacks more than one: such a sample may be wrong.  *)
Measured(r) == [state |-> r.state, distance |-> r.distance,
                gates |-> [g \in Gates |-> IF r \in Bare THEN 0 ELSE r.gates[g]],
                ts |-> Stamp]

SampleIsLatest ==
  [][(reading /\ ~reading' /\ sample' # NoSample)
        => \/ AtEnd /\ sample' = Measured(line.report)
           \/ window' = "spoiled"]_readerVars

(* The parser finds its way back: what a resync throws away may hold the   *)
(* headers of the next frames, but a byte lost or damaged, or bytes of a   *)
(* body taken for a header, cost no more whole frames than one window can  *)
(* keep it from, a bare report having 13 bytes; without any of these the   *)
(* first whole frame is returned.                                          *)
FramesPerWindow == (MAX_FRAME + 8) \div 13

FaultsCostOneWindow == missed <= FramesPerWindow * (damage + strays)
=============================================================================
