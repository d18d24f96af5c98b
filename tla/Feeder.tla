------------------------------- MODULE Feeder -------------------------------
(***************************************************************************)
(* feed_apdu.py: the APDUs the host sends for a message, in order. The     *)
(* values agree with the schema (no struct is missing, a fixed-size array  *)
(* has its size), so that the walk does not stop half way.                 *)
(*                                                                         *)
(* Each APDU also names the field it is meant for ("of"), and the packets  *)
(* of a value tell which one is the first: neither is sent.                *)
(***************************************************************************)
EXTENDS Eip712Types

CONSTANT MAX_PAYLOAD    \* 0xff, payload bytes of one APDU

ASSUME FeederAssumption == MAX_PAYLOAD \in Nat \ {0}

RECURSIVE MinimalBytes(_), Chunks(_), evaluate_field(_, _, _), send_struct_impl(_, _)

MinimalBytes(value) ==
    IF value = 0 THEN << >> ELSE Append(MinimalBytes(value \div 256), value % 256)

(* A negative number is sent as an unsigned one of its type's size.        *)
encode_integer(value, typesize) ==
    IF value = 0 THEN <<0>>
    ELSE MinimalBytes(IF value < 0 THEN value % 256^typesize ELSE value)

encode_value(value, field) ==
    IF field.type \in {"int", "uint", "bool"}
    THEN encode_integer(value, field.typesize)
    ELSE value

(* Full packets, then the one that completes the value.                    *)
Chunks(data) ==
    IF Len(data) > MAX_PAYLOAD
    THEN <<SubSeq(data, 1, MAX_PAYLOAD)>> \o Chunks(SubSeq(data, MAX_PAYLOAD + 1, Len(data)))
    ELSE <<data>>

send_struct_impl_field(value, field) ==
    LET data == encode_value(value, field)
        size == Len(data)
        chunks == Chunks(<<(size \div 256) % 256, size % 256>> \o data)
    IN  [i \in 1..Len(chunks) |->
            [op |-> "field", data |-> chunks[i], partial |-> i < Len(chunks),
             of |-> field, first |-> i = 1]]

send_struct_impl_array(size, field) == <<[op |-> "array", size |-> size, of |-> field]>>

evaluate_field(data, field, lvls_left) ==
    IF lvls_left > 0
    THEN send_struct_impl_array(Len(data), field)
         \o FlattenSeq([i \in 1..Len(data) |-> evaluate_field(data[i], field, lvls_left - 1)])
    ELSE IF IS_CUSTOM(field)
    THEN send_struct_impl(data, field.typename)
    ELSE send_struct_impl_field(data, field)

send_struct_impl(data, structname) ==
    FlattenSeq([i \in 1..Len(Structs[structname]) |->
        LET field == Structs[structname][i]
        IN  evaluate_field(data[i], field, Len(field.lvls))])

send_struct_impl_name(structname) == <<[op |-> "name", name |-> structname]>>

(* main(): the domain, the message, then the request to sign.              *)
Script(domain, primaryType, message) ==
    send_struct_impl_name("EIP712Domain") \o send_struct_impl(domain, "EIP712Domain")
    \o send_struct_impl_name(primaryType) \o send_struct_impl(message, primaryType)
    \o <<[op |-> "other"]>>

=============================================================================
