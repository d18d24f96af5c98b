----------------------------- MODULE FieldHash -----------------------------
(***************************************************************************)
(* field_hash.c and encode_field.c: a value arrives in one or more packets,*)
(* the first of which starts with its length in two bytes. Its encoding    *)
(* goes into the topmost hash context, and the path moves on.              *)
(***************************************************************************)
EXTENDS Path

CONSTANT ADDRESS_LENGTH

ASSUME FieldAssumption == ADDRESS_LENGTH \in Nat

VARIABLE fh     \* s_field_hashing: state and remaining_size

FieldHashing == [state : {"idle", "waiting"}, remaining_size : Uint16]

FieldHashInit == fh = [state |-> "idle", remaining_size |-> 0]

-----------------------------------------------------------------------------

(* field_encode(): zeroes before the value, or after it.                   *)
PaddedLeft(value) ==
    LET zeroes == ENC_SIZE - Len(value)
    IN  [i \in 1..ENC_SIZE |-> IF i <= zeroes THEN 0 ELSE value[i - zeroes]]

PaddedRight(value) ==
    [i \in 1..ENC_SIZE |-> IF i <= Len(value) THEN value[i] ELSE 0]

(* The length checks of encode_address(), encode_boolean() and             *)
(* field_encode().                                                         *)
Encodable(type, value) ==
    /\ type # "custom"
    /\ type = "address" => Len(value) = ADDRESS_LENGTH
    /\ type = "bool" => Len(value) = 1
    /\ Len(value) <= ENC_SIZE

Encoded(type, value) ==
    <<"word", IF type = "bytes_fix" THEN PaddedRight(value) ELSE PaddedLeft(value)>>

-----------------------------------------------------------------------------

(* The bytes of the packet that belong to the value.                       *)
Content(data) == IF fh.state = "idle" THEN SubSeq(data, 3, Len(data)) ELSE data

Remaining(data) ==
    ((IF fh.state = "idle" THEN 256 * data[1] + data[2] ELSE fh.remaining_size)
        - Len(Content(data))) % (256 * 256)

(* Faulty variant: the context is not initialised for a new value.         *)
ProgressOfAll(data) == global_sha3 \o AsTokens(Content(data))

(* global_sha3 once the packet of a dynamic value has been absorbed.       *)
Progress(data) ==
    (IF fh.state = "idle" THEN << >> ELSE global_sha3) \o AsTokens(Content(data))

(* The packet is counted, and kept if it belongs to a dynamic value.       *)
Receive(field, data) ==
    /\ fh' = [state |-> "waiting", remaining_size |-> Remaining(data)]
    /\ global_sha3' = IF IS_DYN(field.type) THEN Progress(data) ELSE global_sha3

(* Nothing is missing, the packet says so too, and there is an encoding    *)
(* and room for it.                                                        *)
TakesValue(field, data, partial) ==
    /\ Remaining(data) = 0
    /\ ~partial
    /\ IF IS_DYN(field.type)
       THEN CanAlloc(mem_idx, HASH_SIZE)
       ELSE Encodable(field.type, Content(data)) /\ CanAlloc(mem_idx, ENC_SIZE)

(* More to come, or a packet refused after it was counted: a value marked  *)
(* partial when nothing is missing, a value that cannot be encoded or has  *)
(* no room, a static value in pieces.                                      *)
KeepWaiting(field, data, partial) ==
    /\ ~TakesValue(field, data, partial)
    /\ Receive(field, data)
    /\ UNCHANGED <<status, ctl, cur, mem_idx, heap, pathVars, dropped>>

(* The value is complete: its encoding is absorbed by the context just     *)
(* below it and released, then path_advance() runs. (fh becomes idle after *)
(* path_advance(), which does not read it.)                                *)
FinishValue(field, data, partial) ==
    LET value == IF IS_DYN(field.type)
                 THEN Keccak(Progress(data))
                 ELSE <<Encoded(field.type, Content(data))>>
    IN  /\ TakesValue(field, data, partial)
        /\ IF ~TopAreContexts(1)
           THEN Stray("stray_ctx") /\ UNCHANGED fh
           ELSE /\ heap' = Absorbed(heap, value)
                /\ global_sha3' = IF IS_DYN(field.type)
                                  THEN Append(Progress(data), Final)
                                  ELSE global_sha3
                /\ fh' = [state |-> "idle", remaining_size |-> 0]
                /\ ctl' = "array"
                /\ UNCHANGED <<status, cur, mem_idx, pathVars, dropped>>

NoField ==
    /\ path_get_field \notin Fields
    /\ IF path_get_field = NULL
       THEN UNCHANGED <<status, ctl, cur, memVars, pathVars, dropped, fh>>
       ELSE Stray("stray_field") /\ UNCHANGED fh

(* A packet on an idle field hash has at least its two length bytes: the   *)
(* host always sends them (feed_apdu.py, send_struct_impl_field).          *)
field_hash(data, partial) ==
    /\ Running("ready")
    /\ fh.state = "idle" => Len(data) >= 2
    /\ \/ NoField
       \/ /\ path_get_field \in Fields
          /\ \/ KeepWaiting(path_get_field, data, partial)
             \/ FinishValue(path_get_field, data, partial)

=============================================================================
