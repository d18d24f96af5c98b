---------------------------- MODULE Transcripts ----------------------------
(***************************************************************************)
(* What a hash context has absorbed since it was initialised (wrap/        *)
(* libcxng.c over the vendored Keccak), as the sequence of the tokens it   *)
(* was given. A digest is the bracketed sequence that was finalised, so    *)
(* two digests are equal exactly when the data hashed is the same: Keccak  *)
(* is taken to be free of collisions.                                      *)
(***************************************************************************)
EXTENDS Eip712Types

CONSTANT ENC_SIZE   \* EIP_712_ENCODED_FIELD_LENGTH

ASSUME EncodingAssumption == ENC_SIZE \in Nat \ {0}

Open  == <<"(">>
Close == <<")">>

(* In global_sha3: the hash was finalised here. The context can be fed on  *)
(* after that, and is when a new message starts while a value waits.       *)
Final == <<".">>

(* A type hash, the encoding of a static value, a byte of a dynamic one.   *)
Token == {Open, Close, Final}
         \cup ({"type"} \X StructNames \X SUBSET StructNames)
         \cup ({"word"} \X Seq(Byte))
         \cup ({"byte"} \X Byte)

Transcript == Seq(Token)

(* What cx_hash(CX_LAST) returns for a context that absorbed t.            *)
Keccak(t) == <<Open>> \o t \o <<Close>>

AsTokens(bytes) == [i \in 1..Len(bytes) |-> <<"byte", bytes[i]>>]

(* Items that t is a sequence of: single tokens, and digests.              *)
Items(t) ==
    LET count(tok, n) == Cardinality({i \in 1..n : t[i] = tok})
    IN  Cardinality({n \in 1..Len(t) : count(Open, n) = count(Close, n)})

=============================================================================
