----------------------------- MODULE TypedData -----------------------------
(***************************************************************************)
(* The hash of a typed message as the reference implementation computes it *)
(* (TypedDataUtils.hashStruct of @metamask/eth-sig-util, version 4, which  *)
(* nodejs_test/metamask712.js calls to get the expected hashes), over the  *)
(* same tokens as the signer's.                                            *)
(*                                                                         *)
(* A value is an integer, a sequence of bytes, a sequence of values (an    *)
(* array), or a sequence of one value per field (a struct).                *)
(***************************************************************************)
EXTENDS Transcripts

RECURSIVE BytesOf(_, _), Closure(_), EncodeField(_, _, _), HashStruct(_, _)

(* The n low bytes of value, most significant first.                       *)
BytesOf(value, n) ==
    IF n = 0 THEN << >> ELSE Append(BytesOf(value \div 256, n - 1), value % 256)

Padding(n) == [i \in 1..n |-> 0]

(* ABI encoding of a static value: integers are two's complement numbers   *)
(* of the full width.                                                      *)
AbiWord(type, value) ==
    CASE type \in {"int", "uint", "bool"} -> BytesOf(value, ENC_SIZE)
      [] type = "address"                 -> Padding(ENC_SIZE - Len(value)) \o value
      [] type = "bytes_fix"               -> value \o Padding(ENC_SIZE - Len(value))

(* The structs that the fields of the structs in T name, and so on.        *)
Closure(T) ==
    LET fields == UNION {{Structs[t][i] : i \in DOMAIN Structs[t]} : t \in T}
        more == T \cup {f.typename : f \in {g \in fields : IS_CUSTOM(g)}}
    IN  IF more = T THEN T ELSE Closure(more)

(* The structs a struct refers to, directly or not, itself left out.       *)
Referenced(s) == Closure({s}) \ {s}

EncodeField(field, levels, value) ==
    IF levels > 0
    THEN Keccak(FlattenSeq([i \in 1..Len(value) |-> EncodeField(field, levels - 1, value[i])]))
    ELSE IF IS_CUSTOM(field)   THEN HashStruct(field.typename, value)
    ELSE IF IS_DYN(field.type) THEN Keccak(AsTokens(value))
    ELSE                            << <<"word", AbiWord(field.type, value)>> >>

HashStruct(s, data) ==
    Keccak(<< <<"type", s, Referenced(s)>> >>
           \o FlattenSeq([i \in 1..Len(data) |->
                  EncodeField(Structs[s][i], Len(Structs[s][i].lvls), data[i])]))

=============================================================================
