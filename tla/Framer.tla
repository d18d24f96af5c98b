------------------------------- MODULE Framer -------------------------------
(***************************************************************************)
(* main() of entrypoint.c: APDUs are cut out of the bytes of the standard  *)
(* input, one byte at a time, in a buffer that is never cleared. The       *)
(* stream stops wherever the host stops writing: at the end of an APDU or  *)
(* in the middle of one.                                                   *)
(***************************************************************************)
EXTENDS Integers, Sequences

CONSTANTS BUF_SIZE,         \* sizeof(buf)
          Bytes,            \* values of a byte
          Streams,          \* what the standard input may hold
          INS_STRUCT_DEF, INS_STRUCT_IMPL,
          P1_COMPLETE, P1_PARTIAL,
          P2_NAME, P2_ARRAY, P2_FIELD,
          Uninitialised

OFFSET_CLA  == 0
OFFSET_INS  == 1
OFFSET_P1   == 2
OFFSET_P2   == 3
OFFSET_LC   == 4
OFFSET_DATA == 5

(* 5 + 255 = 260 in the code: the longest APDU fits exactly.               *)
ASSUME BufferAssumption ==
    /\ BUF_SIZE \in Nat /\ BUF_SIZE > OFFSET_DATA
    /\ Bytes \subseteq 0..255
    /\ \A b \in Bytes : OFFSET_DATA + b <= BUF_SIZE
    /\ Streams \subseteq Seq(Bytes)

VARIABLES stream,       \* bytes of the standard input
          pos,          \* bytes read from it
          buf,
          idx,
          state,        \* OFFSET_* the next byte is for
          payload_size, \* bytes of the payload still to come
          handled,      \* the APDUs given to handle_apdu()
          status        \* "reading", or how main() returned

vars == <<stream, pos, buf, idx, state, payload_size, handled, status>>

(* handle_apdu() returns true: INS, P2 and, for a value, P1 are known. A   *)
(* frame numbers its bytes from 1.                                         *)
Known(frame) ==
    LET ins == frame[OFFSET_INS + 1]
        p1 == frame[OFFSET_P1 + 1]
        p2 == frame[OFFSET_P2 + 1]
    IN  \/ ins = INS_STRUCT_DEF /\ p2 \in {P2_NAME, P2_FIELD}
        \/ /\ ins = INS_STRUCT_IMPL
           /\ \/ p2 \in {P2_NAME, P2_ARRAY}
              \/ p2 = P2_FIELD /\ p1 \in {P1_COMPLETE, P1_PARTIAL}

Init ==
    /\ stream \in Streams
    /\ pos = 0
    /\ buf = [i \in 0..(BUF_SIZE - 1) |-> Uninitialised]
    /\ idx = 0
    /\ state = OFFSET_CLA
    /\ payload_size = 0
    /\ handled = << >>
    /\ status = "reading"

(* fread() puts the next byte at idx.                                      *)
byte == stream[pos + 1]

ReadByte ==
    /\ status = "reading"
    /\ pos < Len(stream)
    /\ pos' = pos + 1
    /\ buf' = [buf EXCEPT ![idx] = byte]
    /\ UNCHANGED stream

(* Faulty variants of what follows, which the properties tell apart from   *)
(* it: the index is kept after an APDU, reading goes on after an unknown   *)
(* one, the payload ends a byte early, or late.                            *)
HandleApduKeepsIndex(bytes) ==
    LET frame == [i \in 1..(OFFSET_DATA + bytes[OFFSET_LC]) |-> bytes[i - 1]]
    IN  /\ handled' = Append(handled, frame)
        /\ IF Known(frame)
           THEN state' = OFFSET_CLA /\ UNCHANGED <<idx, status>>
           ELSE status' = "refused" /\ UNCHANGED <<idx, state>>

HandleApduGoesOn(bytes) ==
    /\ handled' = Append(handled, [i \in 1..(OFFSET_DATA + bytes[OFFSET_LC]) |-> bytes[i - 1]])
    /\ idx' = 0
    /\ state' = OFFSET_CLA
    /\ UNCHANGED status

(* The APDU is all there: the handler takes the payload's length from LC.  *)
HandleApdu(bytes) ==
    LET frame == [i \in 1..(OFFSET_DATA + bytes[OFFSET_LC]) |-> bytes[i - 1]]
    IN  /\ handled' = Append(handled, frame)
        /\ IF Known(frame)
           THEN idx' = 0 /\ state' = OFFSET_CLA /\ UNCHANGED status
           ELSE status' = "refused" /\ UNCHANGED <<idx, state>>

ReadHeader ==
    /\ state \in OFFSET_CLA..OFFSET_P2
    /\ ReadByte
    /\ state' = state + 1
    /\ idx' = idx + 1
    /\ UNCHANGED <<payload_size, handled, status>>

ReadLengthShort ==
    /\ state = OFFSET_LC
    /\ ReadByte
    /\ payload_size' = byte - 1
    /\ IF byte > 1
       THEN state' = OFFSET_DATA /\ idx' = idx + 1 /\ UNCHANGED <<handled, status>>
       ELSE HandleApdu(buf')

ReadLength ==
    /\ state = OFFSET_LC
    /\ ReadByte
    /\ payload_size' = byte
    /\ IF byte > 0
       THEN state' = OFFSET_DATA /\ idx' = idx + 1 /\ UNCHANGED <<handled, status>>
       ELSE HandleApdu(buf')

ReadPayloadLate ==
    /\ state = OFFSET_DATA
    /\ ReadByte
    /\ payload_size' = (payload_size - 1) % 256
    /\ IF payload_size = 0
       THEN HandleApdu(buf')
       ELSE idx' = idx + 1 /\ UNCHANGED <<state, handled, status>>

ReadPayload ==
    /\ state = OFFSET_DATA
    /\ ReadByte
    /\ payload_size' = payload_size - 1
    /\ IF payload_size = 1
       THEN HandleApdu(buf')
       ELSE idx' = idx + 1 /\ UNCHANGED <<state, handled, status>>

EndOfInput ==
    /\ status = "reading"
    /\ pos = Len(stream)
    /\ status' = "ended"
    /\ UNCHANGED <<stream, pos, buf, idx, state, payload_size, handled>>

Next == ReadHeader \/ ReadLength \/ ReadPayload \/ EndOfInput

(* main() keeps reading: its only wait is for the standard input.          *)
Spec == Init /\ [][Next]_vars /\ WF_vars(Next)

-----------------------------------------------------------------------------

(* The next byte always has a place in the buffer, and payload_size, a     *)
(* byte, does not wrap.                                                    *)
TypeOK ==
    /\ stream \in Seq(Bytes)
    /\ pos \in 0..Len(stream)
    /\ buf \in [0..(BUF_SIZE - 1) -> Bytes \cup {Uninitialised}]
    /\ idx \in 0..(BUF_SIZE - 1)
    /\ state \in OFFSET_CLA..OFFSET_DATA
    /\ payload_size \in 0..255
    /\ handled \in Seq(Seq(Bytes))
    /\ status \in {"reading", "refused", "ended"}

(* The buffer holds the last idx bytes of the stream, none of the APDU     *)
(* before; and the payload counted down ends where LC says.                *)
Aligned ==
    status = "reading" =>
        /\ idx <= pos
        /\ \A i \in 0..(idx - 1) : buf[i] = stream[pos - idx + i + 1]
        /\ IF state = OFFSET_DATA
           THEN /\ payload_size > 0
                /\ idx >= OFFSET_DATA
                /\ idx + payload_size = OFFSET_DATA + buf[OFFSET_LC]
           ELSE idx = state

(* What the handler gets is the bytes just read, as many as LC says.       *)
HandlesWholeFrames ==
    [][handled' # handled =>
          LET frame == handled'[Len(handled')]
          IN  /\ Len(frame) = OFFSET_DATA + frame[OFFSET_LC + 1]
              /\ Len(frame) <= pos'
              /\ \A i \in 1..Len(frame) : frame[i] = stream[pos' - Len(frame) + i]]_vars

(* The APDUs of the stream from position p on, up to the first unknown one *)
(* or to one that is cut short.                                            *)
FramesFrom[p \in Nat] ==
    IF p + OFFSET_DATA > Len(stream) THEN << >>
    ELSE LET end == p + OFFSET_DATA + stream[p + OFFSET_LC + 1]
             frame == SubSeq(stream, p + 1, end)
         IN  IF end > Len(stream) THEN << >>
             ELSE IF Known(frame) THEN <<frame>> \o FramesFrom[end]
             ELSE                      <<frame>>

Frames == FramesFrom[0]

Queue == INSTANCE ApduQueue WITH queue <- Frames

(* Every APDU of the stream is handled, once, in order, and none after an  *)
(* unknown one.                                                            *)
DeliversFrames == Queue!Spec

=============================================================================
