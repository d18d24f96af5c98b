---------------------------- MODULE FramerProofs ----------------------------
(***************************************************************************)
(* For every stream, every buffer that holds the longest APDU and every    *)
(* value of the codes: main() never writes outside its buffer, and what it *)
(* hands over is exactly the bytes it has just read. Aligned is inductive  *)
(* together with the types: where the buffer stands in the stream is what  *)
(* bounds idx.                                                             *)
(*                                                                         *)
(* It implements the queue of APDUs: those handled so far, followed by     *)
(* those of the stream from where the buffer begins, are always those of   *)
(* the stream (Delivered). FramesFrom, a recursion towards the end of the  *)
(* stream, is first shown to satisfy its equation (FramesSolve).           *)
(***************************************************************************)
EXTENDS Framer, SequenceTheorems, TLAPS

Offsets == /\ OFFSET_CLA = 0 /\ OFFSET_P2 = 3 /\ OFFSET_LC = 4 /\ OFFSET_DATA = 5

LEMMA OffsetValues == Offsets
  BY DEF Offsets, OFFSET_CLA, OFFSET_P2, OFFSET_LC, OFFSET_DATA

IInv == TypeOK /\ Aligned

(* What the last APDU handed over has to be.                               *)
LastFrameIsStream(frames, at) ==
    LET frame == frames[Len(frames)]
    IN  /\ Len(frame) = OFFSET_DATA + frame[OFFSET_LC + 1]
        /\ Len(frame) <= at
        /\ \A i \in 1..Len(frame) : frame[i] = stream[at - Len(frame) + i]

(* The two ways a byte is taken in: the APDU goes on, or ends with it.     *)
TakesIn ==
    /\ pos' = pos + 1 /\ idx' = idx + 1
    /\ UNCHANGED <<stream, handled, status>>

HandsOver(frame) ==
    /\ frame \in Seq(Bytes)
    /\ handled' = Append(handled, frame)
    /\ Len(frame) = idx + 1 /\ Len(frame) = OFFSET_DATA + frame[OFFSET_LC + 1]
    /\ status = "reading" /\ pos' = pos + 1 /\ stream' = stream
    /\ idx + 1 <= pos' /\ pos' <= Len(stream) /\ idx >= OFFSET_LC
    /\ \A i \in 1..(idx + 1) : frame[i] = stream[pos' - (idx + 1) + i]
    /\ IF Known(frame) THEN idx' = 0 /\ status' = status ELSE status' = "refused"

Received == LastFrameIsStream(handled', pos') /\ \E frame : HandsOver(frame)

LEMMA InitInv == Init => IInv
  <1> SUFFICES ASSUME Init PROVE IInv
    OBVIOUS
  <1>1. stream \in Seq(Bytes) /\ Len(stream) \in Nat
    BY BufferAssumption, LenProperties DEF Init
  <1>2. BUF_SIZE \in Nat /\ BUF_SIZE > 5
    BY BufferAssumption, OffsetValues DEF Offsets
  <1>3. TypeOK
    BY <1>1, <1>2, OffsetValues DEF Init, TypeOK, Offsets
  <1>4. Aligned
    BY OffsetValues DEF Init, Aligned, Offsets
  <1> QED
    BY <1>3, <1>4 DEF IInv

(* One more byte of the stream in the buffer.                              *)
LEMMA BufferStep ==
    ASSUME IInv, ReadByte
    PROVE  /\ pos \in Nat /\ pos' = pos + 1 /\ pos' \in 0..Len(stream) /\ stream' = stream
           /\ idx \in Nat /\ idx + 1 <= pos' /\ status = "reading"
           /\ byte \in Bytes /\ byte \in 0..255
           /\ buf' \in [0..(BUF_SIZE - 1) -> Bytes \cup {Uninitialised}]
           /\ buf'[idx] = byte
           /\ \A i \in 0..(BUF_SIZE - 1) : i # idx => buf'[i] = buf[i]
           /\ \A i \in 0..idx : buf'[i] = stream[pos' - (idx + 1) + i + 1]
  <1>1. /\ stream \in Seq(Bytes) /\ Len(stream) \in Nat /\ pos \in 0..Len(stream)
        /\ idx \in 0..(BUF_SIZE - 1) /\ BUF_SIZE \in Nat
        /\ buf \in [0..(BUF_SIZE - 1) -> Bytes \cup {Uninitialised}]
    BY BufferAssumption, LenProperties DEF IInv, TypeOK
  <1>2. status = "reading" /\ pos < Len(stream) /\ pos' = pos + 1 /\ stream' = stream
        /\ buf' = [buf EXCEPT ![idx] = byte]
    BY DEF ReadByte
  <1>3. pos + 1 \in 1..Len(stream)
    BY <1>1, <1>2
  <1>4. byte \in Bytes /\ byte \in 0..255
    BY <1>1, <1>3, ElementOfSeq, BufferAssumption DEF byte
  <1>5. /\ buf' \in [0..(BUF_SIZE - 1) -> Bytes \cup {Uninitialised}]
        /\ buf'[idx] = byte
        /\ \A i \in 0..(BUF_SIZE - 1) : i # idx => buf'[i] = buf[i]
    BY <1>1, <1>2, <1>4
  <1>6. idx <= pos /\ \A i \in 0..(idx - 1) : buf[i] = stream[pos - idx + i + 1]
    BY <1>2 DEF IInv, Aligned
  <1>7. ASSUME NEW i \in 0..idx PROVE buf'[i] = stream[pos' - (idx + 1) + i + 1]
    <2>1. pos' - (idx + 1) + i + 1 = pos - idx + i + 1
      BY <1>1, <1>2
    <2>2. CASE i = idx
      <3>1. pos - idx + i + 1 = pos + 1
        BY <1>1, <2>2
      <3> QED
        BY <1>5, <2>1, <2>2, <3>1 DEF byte
    <2>3. CASE i # idx
      <3>1. i \in 0..(idx - 1) /\ i \in 0..(BUF_SIZE - 1)
        BY <1>1, <2>3
      <3> QED
        BY <1>5, <1>6, <2>1, <2>3, <3>1
    <2> QED
      BY <2>2, <2>3
  <1> QED
    BY <1>1, <1>2, <1>3, <1>4, <1>5, <1>6, <1>7

LEMMA HandleStep ==
    ASSUME IInv, ReadByte, HandleApdu(buf'), payload_size' \in 0..255,
           idx + 1 = OFFSET_DATA + buf'[OFFSET_LC], idx >= OFFSET_LC
    PROVE  IInv' /\ Received
  <1> DEFINE frame == [i \in 1..(OFFSET_DATA + buf'[OFFSET_LC]) |-> buf'[i - 1]]
  <1>1. /\ pos \in Nat /\ pos' = pos + 1 /\ pos' \in 0..Len(stream) /\ stream' = stream
        /\ idx \in Nat /\ idx + 1 <= pos' /\ status = "reading"
        /\ buf' \in [0..(BUF_SIZE - 1) -> Bytes \cup {Uninitialised}]
        /\ \A i \in 0..idx : buf'[i] = stream[pos' - (idx + 1) + i + 1]
    BY BufferStep
  <1>2. stream \in Seq(Bytes) /\ Len(stream) \in Nat /\ handled \in Seq(Seq(Bytes))
    BY LenProperties DEF IInv, TypeOK
  <1>3. \A i \in 1..(idx + 1) : buf'[i - 1] = stream[pos' - (idx + 1) + i]
    <2> TAKE i \in 1..(idx + 1)
    <2>1. i - 1 \in 0..idx /\ pos' - (idx + 1) + (i - 1) + 1 = pos' - (idx + 1) + i
      BY <1>1
    <2> QED
      BY <1>1, <2>1
  <1>4. \A i \in 1..(idx + 1) : buf'[i - 1] \in Bytes
    <2> TAKE i \in 1..(idx + 1)
    <2>1. pos' - (idx + 1) + i \in 1..Len(stream)
      BY <1>1, <1>2
    <2>2. stream[pos' - (idx + 1) + i] \in Bytes
      BY <1>2, <2>1, ElementOfSeq
    <2> QED
      BY <1>3, <2>2
  <1>5. frame = [i \in 1..(idx + 1) |-> buf'[i - 1]]
    OBVIOUS
  <1> HIDE DEF frame
  <1>6. frame \in Seq(Bytes) /\ Len(frame) = idx + 1
    <2>1. idx + 1 \in Nat
      BY <1>1
    <2>2. frame \in Seq(Bytes)
      BY <1>4, <1>5, <2>1, IsASeq
    <2>3. DOMAIN frame = 1..(idx + 1)
      BY <1>5
    <2> QED
      BY <2>1, <2>2, <2>3, LenProperties
  <1>7. handled' = Append(handled, frame)
    BY DEF HandleApdu, frame
  <1>8. /\ handled' \in Seq(Seq(Bytes))
        /\ Len(handled') \in Nat
        /\ handled'[Len(handled')] = frame
    BY <1>2, <1>6, <1>7, AppendProperties, LenProperties
  <1>9. \A i \in 1..(idx + 1) : frame[i] = buf'[i - 1]
    BY <1>5
  <1>10. Received
    <2>1. frame[OFFSET_LC + 1] = buf'[OFFSET_LC]
      <3>1. OFFSET_LC + 1 \in 1..(idx + 1) /\ (OFFSET_LC + 1) - 1 = OFFSET_LC
        BY <1>1, OffsetValues DEF Offsets
      <3> QED
        BY <1>9, <3>1
    <2>2. \A i \in 1..(idx + 1) : frame[i] = stream[pos' - (idx + 1) + i]
      BY <1>3, <1>9
    <2> QED
      <3>1. LastFrameIsStream(handled', pos')
        BY <1>1, <1>6, <1>8, <2>1, <2>2 DEF LastFrameIsStream
      <3>2. IF Known(frame) THEN idx' = 0 /\ status' = status ELSE status' = "refused"
        BY DEF HandleApdu, frame
      <3>3. HandsOver(frame)
        BY <1>1, <1>2, <1>6, <1>7, <2>1, <2>2, <3>2 DEF HandsOver
      <3> QED
        BY <3>1, <3>3 DEF Received
  <1>11. CASE Known(frame)
    <2>1. idx' = 0 /\ state' = 0 /\ status' = status
      BY <1>11, OffsetValues DEF HandleApdu, frame, Offsets
    <2>2. TypeOK'
      BY <1>1, <1>8, <2>1, OffsetValues, BufferAssumption DEF IInv, TypeOK, Offsets
    <2>3. Aligned'
      BY <1>1, <2>1, OffsetValues DEF Aligned, Offsets
    <2> QED
      BY <1>10, <2>2, <2>3 DEF IInv
  <1>12. CASE ~Known(frame)
    <2>1. idx' = idx /\ state' = state /\ status' = "refused"
      BY <1>12 DEF HandleApdu, frame
    <2>2. TypeOK'
      BY <1>1, <1>8, <2>1 DEF IInv, TypeOK
    <2>3. Aligned'
      BY <2>1 DEF Aligned
    <2> QED
      BY <1>10, <2>2, <2>3 DEF IInv
  <1> QED
    BY <1>11, <1>12

LEMMA ReadHeaderStep == ASSUME IInv, ReadHeader PROVE IInv' /\ TakesIn
  <1>1. /\ pos \in Nat /\ pos' = pos + 1 /\ pos' \in 0..Len(stream) /\ stream' = stream
        /\ idx \in Nat /\ idx + 1 <= pos' /\ status = "reading"
        /\ buf' \in [0..(BUF_SIZE - 1) -> Bytes \cup {Uninitialised}]
        /\ \A i \in 0..idx : buf'[i] = stream[pos' - (idx + 1) + i + 1]
    BY BufferStep DEF ReadHeader
  <1>2. /\ state \in 0..3 /\ state' = state + 1 /\ idx' = idx + 1
        /\ UNCHANGED <<payload_size, handled, status>>
    BY OffsetValues DEF ReadHeader, Offsets
  <1>3. idx = state
    BY <1>1, <1>2, OffsetValues DEF IInv, Aligned, Offsets
  <1>4. TypeOK'
    BY <1>1, <1>2, <1>3, OffsetValues, BufferAssumption DEF IInv, TypeOK, Offsets
  <1>5. Aligned'
    BY <1>1, <1>2, <1>3, OffsetValues DEF Aligned, Offsets
  <1> QED
    BY <1>1, <1>2, <1>4, <1>5 DEF IInv, TakesIn

LEMMA ReadLengthStep ==
    ASSUME IInv, ReadLength
    PROVE  IInv' /\ (TakesIn \/ Received)
  <1>1. /\ pos \in Nat /\ pos' = pos + 1 /\ pos' \in 0..Len(stream) /\ stream' = stream
        /\ idx \in Nat /\ idx + 1 <= pos' /\ status = "reading"
        /\ byte \in Bytes /\ byte \in 0..255
        /\ buf' \in [0..(BUF_SIZE - 1) -> Bytes \cup {Uninitialised}]
        /\ buf'[idx] = byte
        /\ \A i \in 0..idx : buf'[i] = stream[pos' - (idx + 1) + i + 1]
    BY BufferStep DEF ReadLength
  <1>2. state = 4 /\ idx = 4 /\ payload_size' = byte
    BY <1>1, OffsetValues DEF IInv, Aligned, ReadLength, Offsets
  <1>3. CASE byte > 0
    <2>1. state' = 5 /\ idx' = 5 /\ UNCHANGED <<handled, status>>
      BY <1>2, <1>3, OffsetValues DEF ReadLength, Offsets
    <2>2. TypeOK'
      BY <1>1, <1>2, <2>1, OffsetValues, BufferAssumption DEF IInv, TypeOK, Offsets
    <2>3. Aligned'
      BY <1>1, <1>2, <1>3, <2>1, OffsetValues DEF Aligned, Offsets
    <2> QED
      BY <1>1, <1>2, <2>1, <2>2, <2>3 DEF IInv, TakesIn
  <1>4. CASE ~(byte > 0)
    <2>1. byte = 0 /\ HandleApdu(buf')
      BY <1>1, <1>4, SMTT(30) DEF ReadLength
    <2>2. idx + 1 = OFFSET_DATA + buf'[OFFSET_LC] /\ idx >= OFFSET_LC
      BY <1>1, <1>2, <2>1, OffsetValues DEF Offsets
    <2> QED
      BY <1>1, <1>2, <2>1, <2>2, HandleStep DEF ReadLength
  <1> QED
    BY <1>3, <1>4

LEMMA ReadPayloadStep ==
    ASSUME IInv, ReadPayload
    PROVE  IInv' /\ (TakesIn \/ Received)
  <1>1. /\ pos \in Nat /\ pos' = pos + 1 /\ pos' \in 0..Len(stream) /\ stream' = stream
        /\ idx \in Nat /\ idx + 1 <= pos' /\ status = "reading"
        /\ buf' \in [0..(BUF_SIZE - 1) -> Bytes \cup {Uninitialised}]
        /\ \A i \in 0..(BUF_SIZE - 1) : i # idx => buf'[i] = buf[i]
        /\ \A i \in 0..idx : buf'[i] = stream[pos' - (idx + 1) + i + 1]
    BY BufferStep DEF ReadPayload
  <1>2. /\ state = 5 /\ payload_size \in 1..255 /\ payload_size' = payload_size - 1
        /\ idx + payload_size = 5 + buf[4]
    BY <1>1, OffsetValues DEF IInv, TypeOK, Aligned, ReadPayload, Offsets
  <1>3. idx >= 5 /\ \A i \in 0..(idx - 1) : buf[i] = stream[pos - idx + i + 1]
    BY <1>1, <1>2, OffsetValues DEF IInv, Aligned, Offsets
  <1>4. buf[4] \in Nat /\ 5 + buf[4] <= BUF_SIZE /\ idx \in 0..(BUF_SIZE - 1) /\ BUF_SIZE \in Nat
    <2>1. stream \in Seq(Bytes) /\ Len(stream) \in Nat /\ idx <= pos
      BY <1>1, LenProperties DEF IInv, TypeOK
    <2>2. pos - idx + 5 \in 1..Len(stream) /\ 4 \in 0..(idx - 1) /\ pos - idx + 4 + 1 = pos - idx + 5
      BY <1>1, <1>3, <2>1, SMTT(30)
    <2>3. buf[4] = stream[pos - idx + 5]
      BY <1>3, <2>2
    <2>4. buf[4] \in Bytes
      BY <2>1, <2>2, <2>3, ElementOfSeq
    <2>5. buf[4] \in 0..255 /\ 5 + buf[4] <= BUF_SIZE /\ BUF_SIZE \in Nat
      BY <2>4, BufferAssumption, OffsetValues DEF Offsets
    <2>6. idx \in 0..(BUF_SIZE - 1)
      BY DEF IInv, TypeOK
    <2> QED
      BY <2>5, <2>6
  <1>5. buf'[4] = buf[4]
    BY <1>1, <1>3, <1>4
  <1>6. CASE payload_size = 1
    <2>1. HandleApdu(buf')
      BY <1>6 DEF ReadPayload
    <2>2. /\ idx + 1 = OFFSET_DATA + buf'[OFFSET_LC] /\ idx >= OFFSET_LC
          /\ payload_size' \in 0..255
      BY <1>1, <1>2, <1>3, <1>4, <1>5, <1>6, OffsetValues DEF Offsets
    <2> QED
      BY <2>1, <2>2, HandleStep DEF ReadPayload
  <1>7. CASE payload_size # 1
    <2>1. idx' = idx + 1 /\ UNCHANGED <<state, handled, status>>
      BY <1>7 DEF ReadPayload
    <2>2. /\ payload_size' \in 1..255 /\ idx' + payload_size' = 5 + buf'[4]
          /\ idx' \in 0..(BUF_SIZE - 1) /\ idx' >= 5
      <3>1. payload_size \in 2..255
        BY <1>2, <1>7
      <3>2. idx' = idx + 1 /\ payload_size' = payload_size - 1 /\ buf'[4] = buf[4]
        BY <1>2, <1>5, <2>1
      <3> QED
        BY <1>2, <1>3, <1>4, <3>1, <3>2
    <2>3. TypeOK'
      BY <1>1, <1>2, <2>1, <2>2 DEF IInv, TypeOK
    <2>4. Aligned'
      BY <1>1, <1>2, <2>1, <2>2, OffsetValues DEF Aligned, Offsets
    <2> QED
      BY <1>1, <2>1, <2>3, <2>4 DEF IInv, TakesIn
  <1> QED
    BY <1>6, <1>7

LEMMA NextInv ==
    ASSUME IInv, [Next]_vars
    PROVE  IInv' /\ (UNCHANGED vars \/ EndOfInput \/ TakesIn \/ Received)
  <1>1. CASE UNCHANGED vars
    <2>1. TypeOK'
      BY <1>1 DEF vars, IInv, TypeOK
    <2>2. Aligned'
      BY <1>1 DEF vars, IInv, Aligned
    <2> QED
      BY <1>1, <2>1, <2>2 DEF IInv
  <1>2. CASE ReadHeader
    BY <1>2, ReadHeaderStep
  <1>3. CASE ReadLength
    BY <1>3, ReadLengthStep
  <1>4. CASE ReadPayload
    BY <1>4, ReadPayloadStep
  <1>5. CASE EndOfInput
    <2>1. TypeOK'
      BY <1>5 DEF EndOfInput, IInv, TypeOK
    <2>2. Aligned'
      BY <1>5 DEF EndOfInput, Aligned
    <2> QED
      BY <1>5, <2>1, <2>2 DEF IInv
  <1> QED
    BY <1>1, <1>2, <1>3, <1>4, <1>5 DEF Next

LEMMA Inductive == Spec => []IInv
  <1>1. ASSUME IInv, [Next]_vars PROVE IInv'
    BY <1>1, NextInv
  <1> QED
    BY InitInv, <1>1, PTL DEF Spec

(* No byte is written outside the buffer, no index or count leaves its C   *)
(* type, and the default case of the switch is never reached.              *)
THEOREM FramerTypes == Spec => []TypeOK
  <1>1. IInv => TypeOK
    BY DEF IInv
  <1> QED
    BY <1>1, Inductive, PTL

(* The buffer always holds the bytes of the stream since the last APDU,    *)
(* and the payload ends where LC says.                                     *)
THEOREM BufferAligned == Spec => []Aligned
  <1>1. IInv => Aligned
    BY DEF IInv
  <1> QED
    BY <1>1, Inductive, PTL

(* handle_apdu() is only ever called on the bytes just read from the       *)
(* stream, header and payload, and never on a part of them.                *)
THEOREM WholeFrames == Spec => HandlesWholeFrames
  <1>1. IInv /\ [Next]_vars => [handled' # handled =>
          LET frame == handled'[Len(handled')]
          IN  /\ Len(frame) = OFFSET_DATA + frame[OFFSET_LC + 1]
              /\ Len(frame) <= pos'
              /\ \A i \in 1..Len(frame) : frame[i] = stream[pos' - Len(frame) + i]]_vars
    <2> SUFFICES ASSUME IInv, [Next]_vars, handled' # handled
                 PROVE  LastFrameIsStream(handled', pos')
      BY DEF LastFrameIsStream, vars
    <2> QED
      BY NextInv DEF Received, TakesIn, EndOfInput, vars
  <1> QED
    BY <1>1, Inductive, PTL DEF Spec, HandlesWholeFrames

-----------------------------------------------------------------------------
(* FramesFrom, which the abstract queue is defined by, is recursive: that  *)
(* its equation has a solution comes first. Rounds of it from the empty    *)
(* answer settle, those far in the stream before those at its beginning.   *)

FrameEnd(s, p) == p + OFFSET_DATA + s[p + OFFSET_LC + 1]

FrameAt(s, p) == SubSeq(s, p + 1, FrameEnd(s, p))

CutShort(s, p) == p + OFFSET_DATA > Len(s) \/ FrameEnd(s, p) > Len(s)

FramesOnce(F, s, p) ==
    IF p + OFFSET_DATA > Len(s) THEN << >>
    ELSE IF FrameEnd(s, p) > Len(s) THEN << >>
         ELSE IF Known(FrameAt(s, p)) THEN <<FrameAt(s, p)>> \o F[FrameEnd(s, p)]
         ELSE                              <<FrameAt(s, p)>>

Solves(F, s) == F = [p \in Nat |-> FramesOnce(F, s, p)]

Round(F, s, n) == [p \in Nat |-> FramesOnce(F, s, p)]

Rounds == INSTANCE Recursion WITH Step <- Round

LEMMA ByteNumber == ASSUME NEW b \in Bytes PROVE b \in Nat
  BY BufferAssumption

LEMMA FrameGrows ==
    ASSUME NEW s \in Seq(Bytes), NEW p \in Nat, ~CutShort(s, p)
    PROVE  FrameEnd(s, p) \in Nat /\ p < FrameEnd(s, p) /\ FrameEnd(s, p) <= Len(s)
  <1>1. Len(s) \in Nat
    BY LenProperties
  <1>2. p + 5 <= Len(s) /\ FrameEnd(s, p) = p + 5 + s[p + 4 + 1] /\ ~(FrameEnd(s, p) > Len(s))
    BY <1>1, OffsetValues DEF CutShort, FrameEnd, Offsets
  <1>3. p + 4 + 1 \in 1..Len(s)
    BY <1>1, <1>2
  <1>4. s[p + 4 + 1] \in Nat
    BY <1>3, ElementOfSeq, ByteNumber
  <1> QED
    BY <1>1, <1>2, <1>4

(* What a round says depends on the one before at the next frame only.     *)
LEMMA SameOnce ==
    ASSUME NEW s \in Seq(Bytes), NEW p \in Nat, NEW F, NEW G,
           ~CutShort(s, p) => F[FrameEnd(s, p)] = G[FrameEnd(s, p)]
    PROVE  FramesOnce(F, s, p) = FramesOnce(G, s, p)
  BY DEF FramesOnce, CutShort

Settled(W, s, n) == \A p \in Nat : p + n > Len(s) => W[n + 1][p] = W[n][p]

LEMMA RoundsSettle ==
    ASSUME NEW s \in Seq(Bytes), NEW W,
           Rounds!IsRun(W, [p \in Nat |-> << >>], [n \in Nat |-> s])
    PROVE  \A n \in Nat : Settled(W, s, n)
  <1>1. W[0] = [p \in Nat |-> << >>]
    BY DEF Rounds!IsRun
  <1>2. ASSUME NEW n \in Nat PROVE W[n + 1] = [p \in Nat |-> FramesOnce(W[n], s, p)]
    <2>1. n + 1 \in Nat /\ n + 1 # 0 /\ (n + 1) - 1 = n
      OBVIOUS
    <2>2. W[n + 1] = Round(W[n], s, n + 1)
      BY <2>1 DEF Rounds!IsRun
    <2> QED
      BY <2>2 DEF Round
  <1>3. ASSUME NEW n \in Nat, NEW p \in Nat PROVE W[n + 1][p] = FramesOnce(W[n], s, p)
    BY <1>2
  <1>4. Len(s) \in Nat
    BY LenProperties
  <1> DEFINE S == {n \in Nat : Settled(W, s, n)}
  <1>5. 0 \in S
    <2>1. ASSUME NEW p \in Nat, p + 0 > Len(s) PROVE W[0 + 1][p] = W[0][p]
      <3>1. p + OFFSET_DATA > Len(s)
        BY <1>4, <2>1, OffsetValues DEF Offsets
      <3>2. FramesOnce(W[0], s, p) = << >>
        BY <3>1 DEF FramesOnce
      <3> QED
        BY <1>1, <1>3, <3>2
    <2> QED
      BY <2>1 DEF Settled
  <1>6. ASSUME NEW n \in S PROVE n + 1 \in S
    <2>1. n \in Nat /\ n + 1 \in Nat /\ Settled(W, s, n)
      BY <1>6
    <2>2. ASSUME NEW p \in Nat, p + (n + 1) > Len(s) PROVE W[(n + 1) + 1][p] = W[n + 1][p]
      <3>1. ASSUME ~CutShort(s, p)
            PROVE  W[n + 1][FrameEnd(s, p)] = W[n][FrameEnd(s, p)]
        <4>1. FrameEnd(s, p) \in Nat /\ FrameEnd(s, p) + n > Len(s)
          BY <1>4, <2>1, <2>2, <3>1, FrameGrows
        <4> QED
          BY <2>1, <4>1 DEF Settled
      <3>2. FramesOnce(W[n + 1], s, p) = FramesOnce(W[n], s, p)
        BY <3>1, SameOnce
      <3>3. W[(n + 1) + 1][p] = FramesOnce(W[n + 1], s, p)
        BY <1>3, <2>1
      <3>4. W[n + 1][p] = FramesOnce(W[n], s, p)
        BY <1>3, <2>1
      <3> QED
        BY <3>2, <3>3, <3>4
    <2>3. Settled(W, s, n + 1)
      BY <2>2 DEF Settled
    <2> QED
      BY <2>1, <2>3
  <1> HIDE DEF S
  <1>7. S \in SUBSET Nat
    BY DEF S
  <1>8. S = Nat
    BY <1>5, <1>6, <1>7, Rounds!SetInduction
  <1> QED
    BY <1>8 DEF S

LEMMA FramesExist == ASSUME NEW s \in Seq(Bytes) PROVE \E F : Solves(F, s)
  <1>1. PICK W : Rounds!IsRun(W, [p \in Nat |-> << >>], [n \in Nat |-> s])
    BY Rounds!RunExists
  <1> DEFINE n == Len(s) + 1
             F == W[n]
  <1>2. n \in Nat /\ n + 1 \in Nat /\ n + 1 # 0 /\ (n + 1) - 1 = n
    BY LenProperties
  <1>3. n - 1 \in Nat /\ n # 0
    BY LenProperties
  <1> HIDE DEF n
  <1>4. W[n + 1] = Round(W[n], s, n + 1) /\ W[n] = Round(W[n - 1], s, n)
    BY <1>1, <1>2, <1>3 DEF Rounds!IsRun
  <1>5. F = [p \in Nat |-> F[p]]
    BY <1>4 DEF Round
  <1>6. ASSUME NEW p \in Nat PROVE F[p] = FramesOnce(F, s, p)
    <2>1. p + n > Len(s)
      BY LenProperties DEF n
    <2>2. Settled(W, s, n)
      BY <1>1, <1>2, RoundsSettle
    <2>3. W[n + 1][p] = W[n][p]
      BY <2>1, <2>2 DEF Settled
    <2> QED
      BY <1>4, <2>3 DEF Round
  <1> HIDE DEF F
  <1>7. Solves(F, s)
    BY <1>5, <1>6 DEF Solves
  <1> QED
    BY <1>7

LEMMA FramesSolve == ASSUME stream \in Seq(Bytes) PROVE Solves(FramesFrom, stream)
  <1>1. FramesFrom = CHOOSE F : Solves(F, stream)
    BY DEF FramesFrom, Solves, FramesOnce, FrameAt, FrameEnd
  <1>2. \E F : Solves(F, stream)
    BY FramesExist
  <1> QED
    BY <1>1, <1>2

LEMMA FramesUnfold ==
    ASSUME NEW F, NEW s, Solves(F, s), NEW p \in Nat
    PROVE  F[p] = FramesOnce(F, s, p)
  BY DEF Solves

LEMMA FrameBytes ==
    ASSUME NEW s \in Seq(Bytes), NEW p \in Nat, ~CutShort(s, p)
    PROVE  /\ FrameAt(s, p) \in Seq(Bytes)
           /\ Len(FrameAt(s, p)) = FrameEnd(s, p) - p
           /\ \A i \in 1..(FrameEnd(s, p) - p) : FrameAt(s, p)[i] = s[p + i]
  <1>1. /\ FrameEnd(s, p) \in Nat /\ p < FrameEnd(s, p) /\ FrameEnd(s, p) <= Len(s)
        /\ Len(s) \in Nat
    BY FrameGrows, LenProperties
  <1> DEFINE end == FrameEnd(s, p)
  <1> HIDE DEF end
  <1>2. end \in Nat /\ p < end /\ end <= Len(s) /\ Len(s) \in Nat
    BY <1>1 DEF end
  <1>3. p + 1 \in 1..(Len(s) + 1) /\ end \in 0..Len(s) /\ p + 1 <= end + 1
    BY <1>2
  <1>4. /\ SubSeq(s, p + 1, end) \in Seq(Bytes)
        /\ Len(SubSeq(s, p + 1, end)) = IF p + 1 <= end THEN end - (p + 1) + 1 ELSE 0
        /\ \A i \in 1..(end - (p + 1) + 1) : SubSeq(s, p + 1, end)[i] = s[p + 1 + i - 1]
    BY <1>3, SubSeqProperties, SMTT(30)
  <1>5. end - (p + 1) + 1 = end - p /\ p + 1 <= end
        /\ \A i \in 1..(end - p) : p + 1 + i - 1 = p + i
    BY <1>2
  <1>6. FrameAt(s, p) = SubSeq(s, p + 1, end)
    BY DEF FrameAt, end
  <1>7. Len(FrameAt(s, p)) = end - p
    BY <1>4, <1>5, <1>6
  <1>8. \A i \in 1..(end - p) : FrameAt(s, p)[i] = s[p + i]
    BY <1>4, <1>5, <1>6
  <1> QED
    BY <1>4, <1>6, <1>7, <1>8 DEF end

FramesBeyond(F, s, n) == \A p \in Nat : p + n > Len(s) => F[p] \in Seq(Seq(Bytes))

LEMMA FramesAreFrames ==
    ASSUME NEW s \in Seq(Bytes), NEW F, Solves(F, s)
    PROVE  \A p \in Nat : F[p] \in Seq(Seq(Bytes))
  <1>1. Len(s) \in Nat
    BY LenProperties
  <1>2. << >> \in Seq(Seq(Bytes))
    OBVIOUS
  <1> DEFINE S == {n \in Nat : FramesBeyond(F, s, n)}
  <1>3. 0 \in S
    <2>1. ASSUME NEW p \in Nat, p + 0 > Len(s) PROVE F[p] \in Seq(Seq(Bytes))
      <3>1. p + OFFSET_DATA > Len(s)
        BY <1>1, <2>1, OffsetValues DEF Offsets
      <3> QED
        BY <1>2, <3>1, FramesUnfold DEF FramesOnce
    <2> QED
      BY <2>1 DEF FramesBeyond
  <1>4. ASSUME NEW n \in S PROVE n + 1 \in S
    <2>1. n \in Nat /\ n + 1 \in Nat /\ FramesBeyond(F, s, n)
      BY <1>4
    <2>2. ASSUME NEW p \in Nat, p + (n + 1) > Len(s) PROVE F[p] \in Seq(Seq(Bytes))
      <3>1. CASE CutShort(s, p)
        BY <1>2, <3>1, FramesUnfold DEF FramesOnce, CutShort
      <3>2. CASE ~CutShort(s, p)
        <4>1. FrameEnd(s, p) \in Nat /\ FrameEnd(s, p) + n > Len(s)
          BY <1>1, <2>1, <2>2, <3>2, FrameGrows
        <4>2. F[FrameEnd(s, p)] \in Seq(Seq(Bytes))
          BY <2>1, <4>1 DEF FramesBeyond
        <4>3. <<FrameAt(s, p)>> \in Seq(Seq(Bytes))
          BY <3>2, FrameBytes
        <4>4. <<FrameAt(s, p)>> \o F[FrameEnd(s, p)] \in Seq(Seq(Bytes))
          BY <4>2, <4>3, ConcatProperties
        <4> QED
          BY <3>2, <4>3, <4>4, FramesUnfold DEF FramesOnce, CutShort
      <3> QED
        BY <3>1, <3>2
    <2>3. FramesBeyond(F, s, n + 1)
      BY <2>2 DEF FramesBeyond
    <2> QED
      BY <2>1, <2>3
  <1> HIDE DEF S
  <1>5. S \in SUBSET Nat
    BY DEF S
  <1>6. S = Nat
    BY <1>3, <1>4, <1>5, Rounds!SetInduction
  <1>7. ASSUME NEW p \in Nat PROVE F[p] \in Seq(Seq(Bytes))
    <2>1. Len(s) + 1 \in S /\ p + (Len(s) + 1) > Len(s)
      BY <1>1, <1>6
    <2> QED
      BY <2>1 DEF S, FramesBeyond
  <1> QED
    BY <1>7

-----------------------------------------------------------------------------

(* What is left of the frames begins where the buffer does.                *)
Delivered ==
    /\ status = "reading" => Frames = handled \o FramesFrom[pos - idx]
    /\ status # "reading" => Frames = handled

LEMMA StreamType ==
    ASSUME IInv
    PROVE  /\ stream \in Seq(Bytes) /\ Len(stream) \in Nat /\ handled \in Seq(Seq(Bytes))
           /\ pos \in Nat /\ idx \in Nat /\ pos <= Len(stream)
           /\ Solves(FramesFrom, stream)
  BY LenProperties, FramesSolve, BufferAssumption DEF IInv, TypeOK

LEMMA DeliveredFirst == Init => Delivered
  <1> SUFFICES ASSUME Init PROVE Delivered
    OBVIOUS
  <1>1. stream \in Seq(Bytes) /\ Solves(FramesFrom, stream)
    BY BufferAssumption, FramesSolve DEF Init
  <1>2. FramesFrom[0] \in Seq(Seq(Bytes))
    BY <1>1, FramesAreFrames
  <1>3. handled = << >> /\ pos - idx = 0 /\ status = "reading"
    BY DEF Init
  <1>4. << >> \o FramesFrom[0] = FramesFrom[0]
    BY <1>2, ConcatEmptySeq
  <1> QED
    BY <1>3, <1>4 DEF Delivered, Frames

(* An APDU is cut short as long as its last byte is to come.               *)
LEMMA NotYetWhole ==
    ASSUME IInv, EndOfInput
    PROVE  pos - idx \in Nat /\ CutShort(stream, pos - idx)
  <1>1. /\ stream \in Seq(Bytes) /\ Len(stream) \in Nat /\ pos \in Nat /\ idx \in Nat
        /\ idx <= pos /\ pos = Len(stream) /\ status = "reading"
    BY StreamType DEF IInv, Aligned, EndOfInput
  <1>2. CASE state = OFFSET_DATA
    <2>1. /\ payload_size \in 0..255 /\ payload_size > 0 /\ idx >= 5
          /\ idx + payload_size = 5 + buf[4]
          /\ \A i \in 0..(idx - 1) : buf[i] = stream[pos - idx + i + 1]
      BY <1>1, <1>2, OffsetValues DEF IInv, TypeOK, Aligned, Offsets
    <2>2. 4 \in 0..(idx - 1) /\ pos - idx + 4 + 1 \in 1..Len(stream)
      BY <1>1, <2>1
    <2>3. buf[4] = stream[pos - idx + 4 + 1] /\ stream[pos - idx + 4 + 1] \in Nat
      BY <1>1, <2>1, <2>2, ElementOfSeq, ByteNumber
    <2>4. FrameEnd(stream, pos - idx) = pos - idx + 5 + buf[4]
      BY <2>3, OffsetValues DEF FrameEnd, Offsets
    <2>5. FrameEnd(stream, pos - idx) > Len(stream)
      BY <1>1, <2>1, <2>3, <2>4
    <2> QED
      BY <1>1, <2>5 DEF CutShort
  <1>3. CASE state # OFFSET_DATA
    <2>1. idx = state /\ state \in 0..4
      BY <1>1, <1>3, OffsetValues DEF IInv, TypeOK, Aligned, Offsets
    <2>2. pos - idx + OFFSET_DATA > Len(stream)
      BY <1>1, <2>1, OffsetValues DEF Offsets
    <2> QED
      BY <1>1, <2>2 DEF CutShort
  <1> QED
    BY <1>2, <1>3

LEMMA EndDelivered ==
    ASSUME IInv, Delivered, EndOfInput
    PROVE  Delivered' /\ UNCHANGED <<Frames, handled>>
  <1>1. /\ status = "reading" /\ status' = "ended"
        /\ UNCHANGED <<stream, handled>>
    BY DEF EndOfInput
  <1>2. pos - idx \in Nat /\ CutShort(stream, pos - idx) /\ Solves(FramesFrom, stream)
        /\ handled \in Seq(Seq(Bytes))
    BY NotYetWhole, StreamType
  <1>3. FramesFrom[pos - idx] = << >>
    BY <1>2, FramesUnfold DEF FramesOnce, CutShort
  <1>4. Frames = handled
    BY <1>1, <1>2, <1>3, ConcatEmptySeq DEF Delivered
  <1>5. Frames' = Frames
    BY <1>1 DEF Frames, FramesFrom
  <1> QED
    BY <1>1, <1>4, <1>5 DEF Delivered

(* The APDU that ends with this byte is the next frame of the stream.      *)
LEMMA IsNextFrame ==
    ASSUME IInv, NEW frame, HandsOver(frame)
    PROVE  /\ pos - idx \in Nat /\ ~CutShort(stream, pos - idx)
           /\ FrameEnd(stream, pos - idx) = pos' /\ FrameAt(stream, pos - idx) = frame
  <1> DEFINE p == pos - idx
  <1>1. /\ stream \in Seq(Bytes) /\ Len(stream) \in Nat /\ pos \in Nat /\ idx \in Nat
        /\ idx <= pos /\ pos' <= Len(stream) /\ pos' = pos + 1
    BY StreamType, LenProperties DEF IInv, Aligned, HandsOver
  <1>2. /\ frame \in Seq(Bytes) /\ Len(frame) = idx + 1 /\ idx + 1 = 5 + frame[4 + 1] /\ idx >= 4
        /\ \A i \in 1..(idx + 1) : frame[i] = stream[pos' - (idx + 1) + i]
    BY OffsetValues DEF HandsOver, Offsets
  <1>3. p \in Nat /\ \A i \in 1..(idx + 1) : pos' - (idx + 1) + i = p + i
    BY <1>1
  <1> HIDE DEF p
  <1>4. \A i \in 1..(idx + 1) : frame[i] = stream[p + i]
    BY <1>2, <1>3
  <1>5. frame[4 + 1] = stream[p + (4 + 1)] /\ pos' = p + (idx + 1)
    <2>1. 4 + 1 \in 1..(idx + 1)
      BY <1>1, <1>2
    <2>2. pos' = p + (idx + 1)
      BY <1>1 DEF p
    <2> QED
      BY <1>4, <2>1, <2>2
  <1>6. FrameEnd(stream, p) = pos'
    <2>1. p + 4 + 1 = p + (4 + 1)
      BY <1>3
    <2>2. FrameEnd(stream, p) = p + 5 + frame[4 + 1]
      BY <1>5, <2>1, OffsetValues DEF FrameEnd, Offsets
    <2>3. frame[4 + 1] \in Nat
      <3>1. 4 + 1 \in 1..Len(frame)
        BY <1>1, <1>2
      <3> QED
        BY <1>2, <3>1, ElementOfSeq, ByteNumber
    <2> DEFINE lc == frame[4 + 1]
    <2>4. /\ lc \in Nat /\ FrameEnd(stream, p) = p + 5 + lc /\ idx + 1 = 5 + lc
          /\ pos' = p + (idx + 1) /\ p \in Nat /\ idx \in Nat
      BY <1>1, <1>2, <1>3, <1>5, <2>2, <2>3
    <2> HIDE DEF lc
    <2> QED
      BY <2>4
  <1>7. ~CutShort(stream, p)
    <2>1. p + 5 <= Len(stream) /\ ~(FrameEnd(stream, p) > Len(stream))
      BY <1>1, <1>2, <1>3, <1>5, <1>6
    <2> QED
      BY <1>1, <1>3, <2>1, OffsetValues DEF CutShort, Offsets
  <1>8. FrameAt(stream, p) = frame
    <2>1. /\ FrameAt(stream, p) \in Seq(Bytes) /\ Len(FrameAt(stream, p)) = pos' - p
          /\ \A i \in 1..(pos' - p) : FrameAt(stream, p)[i] = stream[p + i]
      BY <1>1, <1>3, <1>6, <1>7, FrameBytes
    <2>2. pos' - p = idx + 1
      BY <1>1, <1>3, <1>5
    <2> QED
      BY <1>2, <1>4, <2>1, <2>2, SeqEqual
  <1> QED
    BY <1>3, <1>6, <1>7, <1>8 DEF p

LEMMA NextDelivered ==
    ASSUME IInv, Delivered, NEW frame, HandsOver(frame)
    PROVE  Delivered' /\ Frames' = Frames /\ Queue!Handle
  <1> DEFINE rest == FramesFrom[pos']
  <1>1. /\ pos - idx \in Nat /\ ~CutShort(stream, pos - idx)
        /\ FrameEnd(stream, pos - idx) = pos' /\ FrameAt(stream, pos - idx) = frame
    BY IsNextFrame
  <1>2. /\ frame \in Seq(Bytes) /\ handled' = Append(handled, frame) /\ stream' = stream
        /\ status = "reading" /\ pos' = pos + 1
        /\ IF Known(frame) THEN idx' = 0 /\ status' = status ELSE status' = "refused"
    BY DEF HandsOver
  <1>3. handled \in Seq(Seq(Bytes)) /\ Solves(FramesFrom, stream) /\ stream \in Seq(Bytes)
        /\ pos' \in Nat
    BY <1>2, StreamType
  <1>4. Frames' = Frames /\ FramesFrom' = FramesFrom
    BY <1>2 DEF Frames, FramesFrom
  <1>5. rest \in Seq(Seq(Bytes)) /\ <<frame>> \in Seq(Seq(Bytes))
    BY <1>2, <1>3, FramesAreFrames
  <1> HIDE DEF rest
  <1>6. FramesFrom[pos - idx] = IF Known(frame) THEN <<frame>> \o rest ELSE <<frame>>
    BY <1>1, <1>3, FramesUnfold DEF FramesOnce, CutShort, rest
  <1>7. Append(handled, frame) = handled \o <<frame>>
    BY <1>2, <1>3, AppendIsConcat
  <1>8. Delivered'
    <2>1. CASE Known(frame)
      <3>1. Frames = handled \o (<<frame>> \o rest)
        BY <1>2, <1>6, <2>1 DEF Delivered
      <3>2. handled \o (<<frame>> \o rest) = (handled \o <<frame>>) \o rest
        <4> DEFINE one == <<frame>>
                   F == Seq(Bytes)
        <4>1. handled \in Seq(F) /\ one \in Seq(F) /\ rest \in Seq(F)
          BY <1>3, <1>5
        <4> HIDE DEF one, F
        <4>2. handled \o (one \o rest) = (handled \o one) \o rest
          BY <4>1, ConcatAssociative, SMTT(30)
        <4> QED
          BY <4>2 DEF one
      <3>3. Frames' = handled' \o rest /\ status' = "reading" /\ pos' - idx' = pos'
        <4>1. Frames' = handled' \o rest
          BY <1>2, <1>4, <1>7, <3>1, <3>2, Zenon
        <4>2. status' = "reading" /\ idx' = 0
          BY <1>2, <2>1
        <4>3. pos' - idx' = pos'
          <5>1. pos' \in Nat /\ idx' = 0
            BY <1>3, <4>2, Zenon
          <5>2. \A n \in Nat : n - 0 = n
            OBVIOUS
          <5> QED
            BY <5>1, <5>2, Zenon
        <4> QED
          BY <4>1, <4>2, <4>3, Zenon
      <3>4. rest = FramesFrom'[pos' - idx']
        BY <1>4, <3>3 DEF rest
      <3> QED
        BY <3>3, <3>4 DEF Delivered
    <2>2. CASE ~Known(frame)
      <3>1. Frames' = handled' /\ status' # "reading"
        BY <1>2, <1>4, <1>6, <1>7, <2>2 DEF Delivered
      <3> QED
        BY <3>1 DEF Delivered
    <2> QED
      BY <2>1, <2>2
  <1>9. Len(handled) < Len(Frames) /\ Frames[Len(handled) + 1] = frame
    <2> DEFINE left == FramesFrom[pos - idx]
    <2>1. left \in Seq(Seq(Bytes)) /\ Len(left) \in Nat /\ Len(left) >= 1 /\ left[1] = frame
      BY <1>5, <1>6, ConcatProperties, LenProperties
    <2>2. Frames = handled \o left
      BY <1>2 DEF Delivered
    <2> HIDE DEF left
    <2>3. Len(handled) \in Nat /\ Len(handled) + 1 \in 1..(Len(handled) + Len(left))
          /\ (Len(handled) + 1) - Len(handled) = 1 /\ ~(Len(handled) + 1 <= Len(handled))
      BY <1>3, <2>1, LenProperties
    <2>4. Len(Frames) = Len(handled) + Len(left)
          /\ Frames[Len(handled) + 1] = left[1]
      BY <1>3, <2>1, <2>2, <2>3, ConcatProperties
    <2> QED
      BY <2>1, <2>3, <2>4
  <1> QED
    BY <1>2, <1>4, <1>8, <1>9 DEF Queue!Handle

LEMMA DeliveredNext ==
    ASSUME IInv, Delivered, [Next]_vars
    PROVE  Delivered' /\ [Queue!Handle]_<<Frames, handled>>
  <1>1. CASE UNCHANGED vars
    <2>1. UNCHANGED <<Frames, handled>> /\ FramesFrom' = FramesFrom
      BY <1>1 DEF vars, Frames, FramesFrom
    <2> QED
      BY <1>1, <2>1 DEF vars, Delivered
  <1>2. CASE EndOfInput
    BY <1>2, EndDelivered
  <1>3. CASE TakesIn
    <2>1. UNCHANGED <<Frames, handled>> /\ FramesFrom' = FramesFrom
      BY <1>3 DEF TakesIn, Frames, FramesFrom
    <2>2. pos' - idx' = pos - idx
      BY <1>3, StreamType DEF TakesIn
    <2>3. status' = status /\ handled' = handled
      BY <1>3 DEF TakesIn
    <2> QED
      BY <2>1, <2>2, <2>3 DEF Delivered
  <1>4. CASE Received
    BY <1>4, NextDelivered DEF Received
  <1> QED
    BY <1>1, <1>2, <1>3, <1>4, NextInv

(* main() implements the queue of whole APDUs: every step of it handles    *)
(* the next frame of the stream or none, in order, and none after an       *)
(* unknown one. (That it comes to an end is the other half of              *)
(* DeliversFrames.)                                                        *)
THEOREM FramesInOrder == Spec => Queue!Safety
  <1>1. Init => IInv /\ Delivered
    BY InitInv, DeliveredFirst
  <1>2. ASSUME IInv /\ Delivered, [Next]_vars
        PROVE  (IInv /\ Delivered)' /\ [Queue!Handle]_<<Frames, handled>>
    BY <1>2, NextInv, DeliveredNext
  <1>3. Init => Queue!Init
    BY DEF Init, Queue!Init
  <1> QED
    BY <1>1, <1>2, <1>3, PTL DEF Spec, Queue!Safety

(* When main() returns it has handled every APDU there was to handle.      *)
THEOREM NothingLeftBehind == Spec => [](status # "reading" => handled = Frames)
  <1>1. Init => IInv /\ Delivered
    BY InitInv, DeliveredFirst
  <1>2. ASSUME IInv /\ Delivered, [Next]_vars PROVE (IInv /\ Delivered)'
    BY <1>2, NextInv, DeliveredNext
  <1>3. Delivered => (status # "reading" => handled = Frames)
    BY DEF Delivered
  <1> QED
    BY <1>1, <1>2, <1>3, PTL DEF Spec

=============================================================================
